--------------------------- MODULE ContextsProofs ---------------------------
(***************************************************************************)
(* Proofs about the context switches of the two back ends of cs_coro.c:    *)
(* CoroPthread first, then Contexts.                                       *)
(***************************************************************************)
EXTENDS MCContexts, TLAPS

-----------------------------------------------------------------------------
(***************************************************************************)
(* The pthread back end, for every number of coroutines and every size of  *)
(* stacks: the running coroutine holds coro_mutex, control goes where      *)
(* coro_transfer sends it, arguments outlive their use and no thread is    *)
(* left on a freed stack.                                                  *)
(***************************************************************************)

ThState == {"none", "run", "created", "args", "lock", "init", "wait", "woken",
            "cancelled", "gone", "join", "relock"}

ThreadTypes ==
  /\ once \in BOOLEAN /\ strayed \in BOOLEAN
  /\ mutex \in P!Actor \cup {NULL} /\ turn \in P!Actor
  /\ th \in [P!Actor -> ThState]
  /\ cv \in [P!Actor -> P!Actor \cup {"nctx", NULL}]
  /\ creating \in [P!Actor -> Stk \cup {NULL}]
  /\ joins \in [P!Actor -> Stk \cup {NULL}]
  /\ cancel \subseteq P!Actor /\ ctxs \subseteq P!Actor /\ valid \subseteq Stk

\* Before the first coro_create only the program's own thread exists.
Untouched ==
  ~once => /\ ctxs = {}
           /\ turn = MainCoro
           /\ th = [x \in P!Actor |-> IF x = MainCoro THEN "run" ELSE "none"]

\* A coroutine is destroyed by one thread, which waits for its end.
Joining ==
  /\ \A x \in P!Actor :
       /\ joins[x] # NULL => th[x] \in {"join", "relock"}
       /\ th[x] \in {"join", "relock"} => joins[x] \in ctxs \cap Stk
       /\ th[x] = "relock" => th[joins[x]] = "gone"
  /\ \A x, y \in P!Actor : joins[x] = joins[y] /\ joins[x] # NULL => x = y

\* A thread that has not ended has a context, and a context has a stack.
Alive ==
  /\ \A c \in Stk : th[c] \notin {"none", "gone"} => c \in ctxs
  /\ ctxs \cap Stk \subseteq P!Live
  /\ once => MainCoro \in ctxs

(***************************************************************************)
(* Control as a baton, as long as no wait ended without a signal: turn has *)
(* it, and every other thread waits for a signal of its own, has ended, or *)
(* does what turn waits for.  If pthread_create failed nobody does.        *)
(***************************************************************************)
Creating == th[turn] = "created" \/ (th[turn] = "wait" /\ cv[turn] = "nctx")

Follower(z) ==
  \/ th[z] \in {"none", "gone"} /\ z \notin ctxs
  \/ th[z] = "wait" /\ cv[z] = z
  \/ th[z] \in {"none", "args", "lock"} /\ creating[turn] = z /\ Creating
  \/ th[z] = "init" /\ creating[turn] = z /\ Creating /\ th[turn] = "wait"
  \/ th[z] = "cancelled" /\ joins[turn] = z /\ th[turn] = "join"
  \/ th[z] = "gone" /\ joins[turn] = z /\ th[turn] \in {"join", "relock"}

Baton ==
  /\ th[turn] \in {"run", "created", "wait", "woken", "join", "relock"}
  /\ th[turn] = "wait" => cv[turn] = "nctx"
  /\ Creating => /\ creating[turn] \in Stk \ {turn}
                 /\ th[creating[turn]] \in {"none", "args", "lock", "init"}
  /\ once => turn \in ctxs
  /\ cancel = {}
  /\ \A z \in P!Actor \ {turn} : Follower(z)
  /\ ctxs \cap Stk \subseteq valid

ThreadInv == /\ ThreadTypes /\ P!RunnerLocks /\ Untouched /\ Joining /\ Alive
             /\ ~strayed => Baton

-----------------------------------------------------------------------------
\* Nothing has happened yet.
LEMMA ThreadInitInv ==
  ASSUME P!ThreadConstants, P!Init
  PROVE  ThreadInv
  <1>1. ThreadTypes
    BY DEF P!Init, ThreadTypes, ThState, P!Actor
  <1>2. P!RunnerLocks /\ Untouched /\ Joining /\ Alive
    BY DEF P!Init, P!RunnerLocks, Untouched, Joining, Alive, P!Actor, P!ThreadConstants
  <1>3. Baton
    BY DEF P!Init, Baton, Creating, Follower, P!Actor, P!ThreadConstants
  <1>4. QED
    BY <1>1, <1>2, <1>3 DEF ThreadInv

\* The first coro_create.
LEMMA EmptyStep ==
  ASSUME P!ThreadConstants, ThreadInv, P!create_empty
  PROVE  ThreadInv'
  <1> USE DEF P!create_empty, P!svars
  <1>1. ThreadTypes'
    BY DEF ThreadInv, ThreadTypes, P!Actor
  <1>2. P!RunnerLocks' /\ Untouched'
    BY DEF ThreadInv, Untouched, P!RunnerLocks
  <1>3. Joining' /\ Alive'
    BY DEF ThreadInv, Untouched, Joining, Alive, P!Actor, P!ThreadConstants, P!Live
  <1>4. ~strayed' => Baton'
    BY DEF ThreadInv, Untouched, Baton, Creating, Follower, P!Actor, P!ThreadConstants
  <1>5. QED
    BY <1>1, <1>2, <1>3, <1>4 DEF ThreadInv

\* pthread_create: the new thread takes the name of an ended one, if any.
LEMMA ThreadStep ==
  ASSUME P!ThreadConstants, ThreadInv, NEW x \in P!Actor, NEW c \in Stk, P!create_thread(x, c)
  PROVE  ThreadInv'
  <1> USE DEF P!create_thread, P!svars, P!Actor, P!ThreadConstants, P!Runs
  <1>1. ThreadTypes'
    BY DEF ThreadInv, ThreadTypes, ThState
  <1>2. P!RunnerLocks' /\ Untouched'
    BY DEF ThreadInv, ThreadTypes, Untouched, P!RunnerLocks
  <1>3. Joining' /\ Alive'
    BY DEF ThreadInv, ThreadTypes, Joining, Alive, P!Live
  <1>4. ~strayed' => Baton'
    BY DEF ThreadInv, ThreadTypes, Untouched, P!RunnerLocks, Joining, Alive, Baton, Creating,
           Follower
  <1>5. QED
    BY <1>1, <1>2, <1>3, <1>4 DEF ThreadInv

\* The new thread reads its arguments.
LEMMA ArgsStep ==
  ASSUME P!ThreadConstants, ThreadInv, NEW c \in P!Actor, P!init_args(c)
  PROVE  ThreadInv'
  <1> USE DEF P!init_args, P!svars, P!Actor, P!ThreadConstants, P!Reads
  <1>1. ThreadTypes'
    BY DEF ThreadInv, ThreadTypes, ThState
  <1>2. P!RunnerLocks' /\ Untouched'
    BY DEF ThreadInv, ThreadTypes, Untouched, P!RunnerLocks
  <1>3. Joining' /\ Alive'
    BY DEF ThreadInv, ThreadTypes, Joining, Alive, P!Live
  <1>4. ~strayed' => Baton'
    BY DEF ThreadInv, ThreadTypes, Untouched, P!RunnerLocks, Joining, Alive, Baton, Creating,
           Follower
  <1>5. QED
    BY <1>1, <1>2, <1>3, <1>4 DEF ThreadInv

\* It takes the mutex, which coro_create has released by waiting.
LEMMA LockStep ==
  ASSUME P!ThreadConstants, ThreadInv, NEW c \in P!Actor, P!init_lock(c)
  PROVE  ThreadInv'
  <1> USE DEF P!init_lock, P!svars, P!Actor, P!ThreadConstants
  <1>1. ThreadTypes'
    BY DEF ThreadInv, ThreadTypes, ThState
  <1>2. P!RunnerLocks' /\ Untouched'
    BY DEF ThreadInv, ThreadTypes, Untouched, P!RunnerLocks
  <1>3. Joining' /\ Alive'
    BY DEF ThreadInv, ThreadTypes, Joining, Alive, P!Live
  <1>4. ~strayed' => Baton'
    BY DEF ThreadInv, ThreadTypes, Untouched, P!RunnerLocks, Joining, Alive, Baton, Creating,
           Follower
  <1>5. QED
    BY <1>1, <1>2, <1>3, <1>4 DEF ThreadInv

\* A thread comes out of pthread_cond_wait.
LEMMA WakeStep ==
  ASSUME P!ThreadConstants, ThreadInv, NEW x \in P!Actor, P!wake(x)
  PROVE  ThreadInv'
  <1> USE DEF P!wake, P!svars, P!Actor, P!ThreadConstants
  <1>1. ThreadTypes'
    BY DEF ThreadInv, ThreadTypes, ThState
  <1>2. P!RunnerLocks' /\ Untouched'
    BY DEF ThreadInv, ThreadTypes, Untouched, P!RunnerLocks
  <1>3. Joining' /\ Alive'
    BY DEF ThreadInv, ThreadTypes, Joining, Alive, P!Live
  <1>4. ~strayed' => Baton'
    BY DEF ThreadInv, ThreadTypes, Untouched, P!RunnerLocks, Joining, Alive, Baton, Creating,
           Follower
  <1>5. QED
    BY <1>1, <1>2, <1>3, <1>4 DEF ThreadInv

\* A function returns to coro_init.
LEMMA ReturnsStep ==
  ASSUME P!ThreadConstants, ThreadInv, NEW x \in P!Actor, P!func_returns(x)
  PROVE  ThreadInv'
  <1> USE DEF P!func_returns, P!svars, P!Actor, P!ThreadConstants, P!Runs
  <1>1. ThreadTypes'
    BY DEF ThreadInv, ThreadTypes, ThState
  <1>2. P!RunnerLocks' /\ Untouched'
    BY DEF ThreadInv, ThreadTypes, Untouched, P!RunnerLocks
  <1>3. Joining' /\ Alive'
    BY DEF ThreadInv, ThreadTypes, Joining, Alive, P!Live
  <1>4. ~strayed' => Baton'
    BY DEF ThreadInv, ThreadTypes, Untouched, P!RunnerLocks, Joining, Alive, Baton, Creating,
           Follower
  <1>5. QED
    BY <1>1, <1>2, <1>3, <1>4 DEF ThreadInv

\* A wait ends without a signal.
LEMMA SpuriousStep ==
  ASSUME P!ThreadConstants, ThreadInv, NEW x \in P!Actor, P!spurious(x)
  PROVE  ThreadInv'
  <1> USE DEF P!spurious, P!svars, P!Actor, P!ThreadConstants
  <1>1. ThreadTypes'
    BY DEF ThreadInv, ThreadTypes, ThState
  <1>2. P!RunnerLocks' /\ Untouched'
    BY DEF ThreadInv, ThreadTypes, Untouched, P!RunnerLocks
  <1>3. Joining' /\ Alive'
    BY DEF ThreadInv, ThreadTypes, Joining, Alive, P!Live
  <1>4. ~strayed' => Baton'
    BY DEF ThreadInv, ThreadTypes, Untouched, P!RunnerLocks, Joining, Alive, Baton, Creating,
           Follower
  <1>5. QED
    BY <1>1, <1>2, <1>3, <1>4 DEF ThreadInv

\* coro_destroy cancels a thread.
LEMMA CancelStep ==
  ASSUME P!ThreadConstants, ThreadInv, NEW x \in P!Actor, NEW c \in Stk, P!destroy_cancel(x, c)
  PROVE  ThreadInv'
  <1> USE DEF P!destroy_cancel, P!svars, P!Actor, P!ThreadConstants, P!Runs
  <1>1. ThreadTypes'
    BY DEF ThreadInv, ThreadTypes, ThState
  <1>2. P!RunnerLocks' /\ Untouched'
    BY DEF ThreadInv, ThreadTypes, Untouched, P!RunnerLocks
  <1>3. Joining' /\ Alive'
    BY DEF ThreadInv, ThreadTypes, Joining, Alive, P!Live
  <1>4. ~strayed' => Baton'
    BY DEF ThreadInv, ThreadTypes, Untouched, P!RunnerLocks, Joining, Alive, Baton, Creating,
           Follower
  <1>5. QED
    BY <1>1, <1>2, <1>3, <1>4 DEF ThreadInv

\* The cancelled thread ends.
LEMMA CancelledStep ==
  ASSUME P!ThreadConstants, ThreadInv, NEW c \in P!Actor, P!cancelled(c)
  PROVE  ThreadInv'
  <1> USE DEF P!cancelled, P!svars, P!Actor, P!ThreadConstants
  <1>1. ThreadTypes'
    BY DEF ThreadInv, ThreadTypes, ThState
  <1>2. P!RunnerLocks' /\ Untouched'
    BY DEF ThreadInv, ThreadTypes, Untouched, P!RunnerLocks
  <1>3. Joining' /\ Alive'
    BY DEF ThreadInv, ThreadTypes, Joining, Alive, P!Live
  <1>4. ~strayed' => Baton'
    BY DEF ThreadInv, ThreadTypes, Untouched, P!RunnerLocks, Joining, Alive, Baton, Creating,
           Follower
  <1>5. QED
    BY <1>1, <1>2, <1>3, <1>4 DEF ThreadInv

\* pthread_join returns.
LEMMA JoinStep ==
  ASSUME P!ThreadConstants, ThreadInv, NEW x \in P!Actor, P!destroy_join(x)
  PROVE  ThreadInv'
  <1> USE DEF P!destroy_join, P!svars, P!Actor, P!ThreadConstants
  <1>1. ThreadTypes'
    BY DEF ThreadInv, ThreadTypes, ThState
  <1>2. P!RunnerLocks' /\ Untouched'
    BY DEF ThreadInv, ThreadTypes, Untouched, P!RunnerLocks
  <1>3. Joining' /\ Alive'
    BY DEF ThreadInv, ThreadTypes, Joining, Alive, P!Live
  <1>4. ~strayed' => Baton'
    BY DEF ThreadInv, ThreadTypes, Untouched, P!RunnerLocks, Joining, Alive, Baton, Creating,
           Follower
  <1>5. QED
    BY <1>1, <1>2, <1>3, <1>4 DEF ThreadInv

\* coro_destroy takes the mutex back.
LEMMA RelockStep ==
  ASSUME P!ThreadConstants, ThreadInv, NEW x \in P!Actor, P!destroy_lock(x)
  PROVE  ThreadInv'
  <1> USE DEF P!destroy_lock, P!svars, P!Actor, P!ThreadConstants
  <1>1. ThreadTypes'
    BY DEF ThreadInv, ThreadTypes, ThState
  <1>2. P!RunnerLocks' /\ Untouched'
    BY DEF ThreadInv, ThreadTypes, Untouched, P!RunnerLocks
  <1>3. Joining' /\ Alive'
    BY DEF ThreadInv, ThreadTypes, Joining, Alive, P!Live
  <1>4. ~strayed' => Baton'
    BY DEF ThreadInv, ThreadTypes, Untouched, P!RunnerLocks, Joining, Alive, Baton, Creating,
           Follower
  <1>5. QED
    BY <1>1, <1>2, <1>3, <1>4 DEF ThreadInv

\* What coro_transfer does whatever the other threads are doing: the caller
\* gives the mutex up, and at most one thread, which waited on the condition
\* variable of next, is woken.
LEMMA ThreadTransferEffect ==
  ASSUME P!ThreadConstants, ThreadInv, NEW x \in P!Actor, NEW prev, NEW next,
         P!coro_transfer(x, prev, next)
  PROVE  /\ mutex' = NULL /\ cancel' = cancel /\ cv' = [cv EXCEPT ![x] = prev]
         /\ th' \in [P!Actor -> ThState]
         /\ th'[x] \in {"wait", "cancelled", "woken"}
         /\ x \notin cancel /\ th[x] # "wait" => th'[x] = "wait"
         /\ \A y \in P!Actor \ {x} : \/ th'[y] = th[y]
                                     \/ th[y] = "wait" /\ cv[y] = next /\ th'[y] = "woken"
  BY DEF P!coro_transfer, ThreadInv, ThreadTypes, ThState

\* coro_create waits for its new thread.
LEMMA ThreadCreateTransferStep ==
  ASSUME P!ThreadConstants, ThreadInv, NEW x \in P!Actor, P!create_transfer(x)
  PROVE  ThreadInv'
  <1> USE DEF P!create_transfer, P!svars, P!Actor, P!ThreadConstants
  <1>0. th[x] = "created" /\ P!coro_transfer(x, "nctx", creating[x])
    OBVIOUS
  <1>1. ThreadTypes'
    BY <1>0, ThreadTransferEffect DEF ThreadInv, ThreadTypes, ThState
  <1>2. P!RunnerLocks' /\ Untouched'
    BY <1>0, ThreadTransferEffect DEF ThreadInv, ThreadTypes, Untouched, P!RunnerLocks
  <1>3. Joining' /\ Alive'
    BY <1>0, ThreadTransferEffect DEF ThreadInv, ThreadTypes, Joining, Alive, P!Live
  <1>4. ASSUME ~strayed' PROVE Baton'
    <2>1. x = turn /\ th[creating[x]] # "wait" /\ creating[x] \in Stk \ {x} /\ cancel = {}
      BY <1>0, <1>4 DEF ThreadInv, Baton, Follower, Creating
    <2>2. \A y \in P!Actor \ {x} : ~(th[y] = "wait" /\ cv[y] = creating[x])
      BY <1>4, <2>1 DEF ThreadInv, Baton, Follower
    <2>3. /\ th' = [th EXCEPT ![x] = "wait"]
          /\ cv' = [cv EXCEPT ![x] = "nctx"] /\ cancel' = {}
      BY <1>0, <2>1, <2>2 DEF P!coro_transfer
    <2>4. QED
      BY <1>0, <1>4, <2>1, <2>3 DEF ThreadInv, ThreadTypes, Baton, Follower, Creating
  <1>5. QED
    BY <1>1, <1>2, <1>3, <1>4 DEF ThreadInv

\* The new thread hands control back to coro_create and waits for its first
\* switch.
LEMMA ThreadInitTransferStep ==
  ASSUME P!ThreadConstants, ThreadInv, NEW c \in P!Actor, P!init_transfer(c)
  PROVE  ThreadInv'
  <1> USE DEF P!init_transfer, P!svars, P!Actor, P!ThreadConstants
  <1>0. th[c] = "init" /\ P!coro_transfer(c, c, "nctx")
    OBVIOUS
  <1>1. ThreadTypes'
    BY <1>0, ThreadTransferEffect DEF ThreadInv, ThreadTypes, ThState, P!Reads
  <1>2. P!RunnerLocks' /\ Untouched'
    BY <1>0, ThreadTransferEffect DEF ThreadInv, ThreadTypes, Untouched, P!RunnerLocks
  <1>3. Joining' /\ Alive'
    BY <1>0, ThreadTransferEffect DEF ThreadInv, ThreadTypes, Joining, Alive, P!Live
  <1>4. ASSUME ~strayed' PROVE Baton'
    <2>1. /\ c # turn /\ creating[turn] = c /\ th[turn] = "wait" /\ cv[turn] = "nctx"
          /\ cancel = {} /\ turn \in P!Actor
      BY <1>0, <1>4 DEF ThreadInv, ThreadTypes, Baton, Follower, Creating
    <2>2. \A y \in P!Actor : th[y] = "wait" /\ cv[y] = "nctx" <=> y = turn
      BY <1>4, <2>1 DEF ThreadInv, Baton, Follower
    <2>3. /\ th' = [th EXCEPT ![c] = "wait", ![turn] = "woken"]
          /\ cv' = [cv EXCEPT ![c] = c] /\ cancel' = {}
      BY <1>0, <2>1, <2>2 DEF P!coro_transfer
    <2>4. valid' = valid
      BY <2>1 DEF P!Reads
    <2>5. QED
      BY <1>0, <1>4, <2>1, <2>3, <2>4 DEF ThreadInv, ThreadTypes, Baton, Follower, Creating
  <1>5. QED
    BY <1>1, <1>2, <1>3, <1>4 DEF ThreadInv

\* The program switches to another coroutine.
LEMMA SwitchStep ==
  ASSUME P!ThreadConstants, ThreadInv, NEW x \in P!Actor, NEW y \in P!Actor, P!switch(x, y)
  PROVE  ThreadInv'
  <1> USE DEF P!switch, P!Runs, P!svars, P!Actor, P!ThreadConstants
  <1>0. th[x] = "run" /\ y \in ctxs \ {x} /\ P!coro_transfer(x, x, y)
    OBVIOUS
  <1>1. ThreadTypes'
    BY <1>0, ThreadTransferEffect DEF ThreadInv, ThreadTypes, ThState
  <1>2. P!RunnerLocks' /\ Untouched'
    BY <1>0, ThreadTransferEffect DEF ThreadInv, ThreadTypes, Untouched, P!RunnerLocks
  <1>3. Joining' /\ Alive'
    BY <1>0, ThreadTransferEffect DEF ThreadInv, ThreadTypes, Joining, Alive, P!Live
  <1>4. ASSUME ~strayed' PROVE Baton'
    <2>1. x = turn /\ th[y] = "wait" /\ cv[y] = y /\ cancel = {}
      BY <1>0, <1>4 DEF ThreadInv, Baton, Follower, Creating
    <2>2. \A z \in P!Actor : th[z] = "wait" /\ cv[z] = y <=> z = y
      BY <1>4, <2>1 DEF ThreadInv, Baton, Follower
    <2>3. /\ th' = [th EXCEPT ![x] = "wait", ![y] = "woken"]
          /\ cv' = [cv EXCEPT ![x] = x] /\ cancel' = {}
      BY <1>0, <2>1, <2>2 DEF P!coro_transfer
    <2>4. QED
      BY <1>0, <1>4, <2>1, <2>3 DEF ThreadInv, ThreadTypes, Baton, Follower, Creating
  <1>5. QED
    BY <1>1, <1>2, <1>3, <1>4 DEF ThreadInv

\* Only stacks without a context are allocated and freed.
LEMMA StackStep ==
  ASSUME P!ThreadConstants, P!StackConstants, ThreadInv, NEW x \in P!Actor, NEW c \in Stk,
         P!free(x, c) \/ \E n \in Size : P!alloc(x, c, n)
  PROVE  ThreadInv'
  <1>1. UNCHANGED P!pvars /\ c \notin ctxs /\ \E v : size' = [size EXCEPT ![c] = v]
    BY DEF P!free, P!alloc, P!coro_stack_free, P!coro_stack_alloc
  <1>2. \A k \in ctxs \cap Stk : k \in P!Live => k \in P!Live'
    BY <1>1 DEF P!Live
  <1>3. Alive'
    BY <1>1, <1>2 DEF ThreadInv, Alive, P!pvars
  <1>4. QED
    BY <1>1, <1>3 DEF ThreadInv, ThreadTypes, P!RunnerLocks, Untouched, Joining, Baton, Creating,
                      Follower, P!pvars

\* Every step keeps the inductive invariant.
LEMMA NextInv ==
  ASSUME P!ThreadConstants, P!StackConstants, ThreadInv, [P!Next]_(P!vars)
  PROVE  ThreadInv'
  <1>1. CASE UNCHANGED P!vars
    BY <1>1 DEF P!vars, P!pvars, P!svars, ThreadInv, ThreadTypes, P!RunnerLocks, Untouched, Joining,
                Alive, P!Live, Baton, Creating, Follower
  <1>2. CASE \E x \in P!Actor : P!Library(x)
    BY <1>2, ThreadCreateTransferStep, ArgsStep, LockStep, ThreadInitTransferStep, WakeStep,
       CancelledStep, JoinStep, RelockStep DEF P!Library
  <1>3. CASE \E x \in P!Actor : P!Program(x) \/ P!spurious(x)
    BY <1>3, ThreadStep, CancelStep, StackStep, SwitchStep, ReturnsStep, SpuriousStep
    DEF P!Program
  <1>4. QED
    BY <1>1, <1>2, <1>3, EmptyStep DEF P!Next

\* The inductive invariant holds in every state.
LEMMA SpecInv ==
  ASSUME P!ThreadConstants, P!StackConstants
  PROVE  P!Spec => []ThreadInv
  <1>1. P!Init => ThreadInv
    BY ThreadInitInv
  <1>2. ThreadInv /\ [P!Next]_(P!vars) => ThreadInv'
    BY NextInv
  <1>3. QED
    BY <1>1, <1>2, PTL DEF P!Spec

\* At most one coroutine executes at a time, and it owns coro_mutex, even
\* after spurious wakeups.
THEOREM RunnerOwnsMutex == P!Spec => []RunnerLocks
  <1>1. ThreadInv => RunnerLocks
    BY DEF RunnerLocks, ThreadInv
  <1>2. QED
    BY <1>1, SpecInv, PthreadAssumption, PTL

\* coro_transfer passes control to the coroutine it names and to no other, as
\* long as no wait ends without a signal.
THEOREM ControlGoesWhereSent == P!Spec => []ControlFollows
  <1>1. ThreadInv => ControlFollows
    BY DEF ControlFollows, ThreadInv, P!ControlFollows, P!Runs, Baton, Follower
  <1>2. QED
    BY <1>1, SpecInv, PthreadAssumption, PTL

\* coro_create keeps the args of a new thread until the thread has read them,
\* as long as no wait ends without a signal.
THEOREM ArgsOutliveUse == P!Spec => []ArgsAlive
  <1>1. ThreadInv => ArgsAlive
    BY DEF ArgsAlive, ThreadInv, P!ArgsAlive, Baton
  <1>2. QED
    BY <1>1, SpecInv, PthreadAssumption, PTL

\* After a pthread_create that failed no coroutine runs any more, as long as no
\* wait ends without a signal.
THEOREM FailedCreateEndsAll == P!Spec => []FailedCreateIsFinal
  <1>1. ThreadInv => FailedCreateIsFinal
    BY DEF FailedCreateIsFinal, P!FailedCreateIsFinal, P!Threadless, P!Runs, P!Actor, ThreadInv,
           Baton, Creating, Follower
  <1>2. QED
    BY <1>1, SpecInv, PthreadAssumption, PTL

\* coro_destroy returns after the thread has ended, so a stack is freed when
\* nobody is on it.
THEOREM NoThreadOnFreedStack == P!Spec => []ThreadsOnStacks
  <1>1. ThreadInv => ThreadsOnStacks
    BY DEF ThreadsOnStacks, ThreadInv, Alive, P!ThreadsOnStacks
  <1>2. QED
    BY <1>1, SpecInv, PthreadAssumption, PTL

-----------------------------------------------------------------------------
(***************************************************************************)
(* coro_stack_alloc and coro_stack_free.                                   *)
(***************************************************************************)
\* The pages of a stack, guard pages included.
Span(r) == P!Region(r.sptr - CORO_GUARDPAGES, r.ssze + CORO_GUARDPAGES)

StackInv ==
  /\ stack \in [Stk -> [sptr : Nat, ssze : Nat]]
  /\ size \in [Stk -> Nat \cup {NULL}]
  /\ prot \in [1 .. Pages -> {"none", "rw", NULL}]
  /\ bare \subseteq P!Live
  /\ \A k \in Stk : size[k] = 0 => stack[k].sptr = 0
  /\ \A k \in P!Live : /\ stack[k].sptr > CORO_GUARDPAGES
                       /\ stack[k].sptr + stack[k].ssze - 1 <= Pages
  /\ P!StacksSound

\* Rounding up to pages loses no byte.
LEMMA RoundedFits ==
  ASSUME P!StackConstants, NEW n \in Nat
  PROVE  P!Rounded(n) \in Nat /\ P!Rounded(n) * PAGESIZE >= n * Word
  <1>1. n * Word \in Nat
    BY DEF P!StackConstants
  <1> DEFINE a == n * Word
  <1>2. ASSUME NEW b \in Nat
        PROVE  /\ (b + PAGESIZE - 1) \div PAGESIZE \in Nat
               /\ ((b + PAGESIZE - 1) \div PAGESIZE) * PAGESIZE >= b
    BY DEF P!StackConstants
  <1>3. QED
    BY <1>1, <1>2 DEF P!Rounded

\* PagesAccounted without its local definition, now and after a step.
LEMMA PagesFacts ==
  /\ P!PagesAccounted <=>
       /\ \A p \in DOMAIN prot : prot[p] # NULL <=> \E k \in P!Live : p \in Span(stack[k])
       /\ \A k, l \in P!Live : k # l => Span(stack[k]) \cap Span(stack[l]) = {}
  /\ P!PagesAccounted' <=>
       /\ \A p \in DOMAIN prot' : prot'[p] # NULL <=> \E k \in P!Live' : p \in Span(stack'[k])
       /\ \A k, l \in P!Live' : k # l => Span(stack'[k]) \cap Span(stack'[l]) = {}
  BY DEF P!PagesAccounted, Span

\* An allocation takes only pages that nobody has.
LEMMA AllocStep ==
  ASSUME P!StackConstants, StackInv, NEW k \in Stk, NEW n \in Size, size[k] = NULL,
         P!coro_stack_alloc(k, n)
  PROVE  StackInv'
  <1> DEFINE words == IF n = 0 THEN DefaultSize ELSE n
             ssze == P!Rounded(words)
             G == CORO_GUARDPAGES
             every == ssze + G
  <1>1. words \in Nat \ {0} /\ ssze \in Nat /\ ssze * PAGESIZE >= words * Word
        /\ G \in Nat /\ Pages \in Nat
    BY RoundedFits DEF P!StackConstants
  <1> HIDE DEF words, ssze
  <1>2. CASE /\ stack' = [stack EXCEPT ![k] = P!NoStack(k, ssze)]
             /\ size' = [size EXCEPT ![k] = 0]
             /\ prot' = prot /\ bare' = bare
    <2>1. /\ P!Live' = P!Live /\ k \notin P!Live
          /\ stack' \in [Stk -> [sptr : Nat, ssze : Nat]] /\ stack'[k].sptr = 0
          /\ \A l \in Stk : l # k => stack'[l] = stack[l] /\ size'[l] = size[l]
      BY <1>1, <1>2 DEF StackInv, P!Live, P!NoStack
    <2>2. \A l \in P!Live : stack'[l] = stack[l]
      BY <2>1 DEF P!Live
    <2>3. P!StacksUsable'
      BY <1>2, <2>1 DEF StackInv, P!StacksSound, P!StacksUsable, P!Region, P!Live
    <2>4. P!PagesAccounted'
      BY <1>2, <2>1, <2>2, PagesFacts DEF StackInv, P!StacksSound
    <2>5. QED
      BY <1>2, <2>1, <2>3, <2>4 DEF StackInv, P!StacksSound, P!Live
  <1>3. ASSUME NEW b \in P!Room(every),
               NEW g \in {"none", "rw"},
               prot' = [p \in DOMAIN prot |->
                          IF p \in P!Region(b, G) THEN g
                          ELSE IF p \in P!Region(b, every) THEN "rw" ELSE prot[p]],
               stack' = [stack EXCEPT ![k] = [sptr |-> b + G, ssze |-> ssze]],
               size' = [size EXCEPT ![k] = words],
               bare' = IF g = "rw" THEN bare \cup {k} ELSE bare
        PROVE  StackInv'
    <2>1. /\ b \in 1 .. Pages /\ b + every - 1 <= Pages
          /\ \A p \in b .. b + every - 1 : prot[p] = NULL
      <3>1. b \in 1 .. Pages /\ b + every - 1 <= Pages /\ \A i \in 0 .. every - 1 : prot[b + i] = NULL
        BY <1>3 DEF P!Room
      <3>2. ASSUME NEW p \in b .. b + every - 1 PROVE prot[p] = NULL
        <4>1. p - b \in 0 .. every - 1 /\ b + (p - b) = p
          BY <1>1, <3>1
        <4>2. QED
          BY <3>1, <4>1
      <3>3. QED
        BY <3>1, <3>2
    <2>2. /\ P!Live' = P!Live \cup {k} /\ k \notin P!Live
          /\ stack' \in [Stk -> [sptr : Nat, ssze : Nat]]
          /\ stack'[k].sptr = b + G /\ stack'[k].ssze = ssze /\ size'[k] = words
          /\ \A l \in Stk : l # k => stack'[l] = stack[l] /\ size'[l] = size[l]
      <3>1. b + G \in Nat /\ [sptr |-> b + G, ssze |-> ssze] \in [sptr : Nat, ssze : Nat]
        BY <1>1, <2>1
      <3>2. /\ stack' \in [Stk -> [sptr : Nat, ssze : Nat]]
            /\ stack'[k] = [sptr |-> b + G, ssze |-> ssze] /\ size'[k] = words
            /\ \A l \in Stk : l # k => stack'[l] = stack[l] /\ size'[l] = size[l]
        BY <1>3, <3>1 DEF StackInv
      <3>3. P!Live' = P!Live \cup {k} /\ k \notin P!Live
        BY <1>1, <3>2 DEF P!Live, P!StackConstants
      <3>4. QED
        BY <3>2, <3>3
    <2>3. /\ Span(stack'[k]) = b .. b + every - 1
          /\ \A l \in P!Live : Span(stack'[l]) = Span(stack[l])
      <3>1. (b + G) - G = b /\ b + (ssze + G) - 1 = b + every - 1
        BY <1>1, <2>1
      <3>2. Span(stack'[k]) = b .. b + every - 1
        BY <2>2, <3>1 DEF Span, P!Region
      <3>3. \A l \in P!Live : l \in Stk /\ l # k
        BY <2>2 DEF P!Live
      <3>4. QED
        BY <2>2, <3>2, <3>3
    <2>4. /\ DOMAIN prot' = 1 .. Pages /\ DOMAIN prot = 1 .. Pages
          /\ prot' \in [1 .. Pages -> {"none", "rw", NULL}]
          /\ \A p \in b .. b + G - 1 : prot'[p] = g
          /\ \A p \in b + G .. b + every - 1 : prot'[p] = "rw"
          /\ \A p \in 1 .. Pages : p \notin b .. b + every - 1 => prot'[p] = prot[p]
      BY <1>1, <1>3, <2>1 DEF StackInv, P!Region
    <2>5. \A l \in P!Live : /\ Span(stack[l]) \cap (b .. b + every - 1) = {}
                            /\ Span(stack[l]) \subseteq 1 .. Pages
      <3>1. ASSUME NEW l \in P!Live, NEW p \in Span(stack[l]) PROVE p \in 1 .. Pages
        <4>1. /\ stack[l].sptr \in Nat /\ stack[l].ssze \in Nat
              /\ stack[l].sptr > G /\ stack[l].sptr + stack[l].ssze - 1 <= Pages
          BY DEF StackInv, P!Live
        <4>2. QED
          BY <1>1, <4>1 DEF Span, P!Region
      <3>2. \A l \in P!Live : \A p \in Span(stack[l]) : prot[p] # NULL
        BY <2>4, <3>1, PagesFacts DEF StackInv, P!StacksSound
      <3>3. QED
        BY <2>1, <3>1, <3>2
    <2>6. P!StacksUsable'
      <3>1. ASSUME NEW l \in P!Live
            PROVE  /\ stack[l].ssze * PAGESIZE >= size[l] * Word
                   /\ \A p \in P!Region(stack[l].sptr, stack[l].ssze) : prot'[p] = "rw"
                   /\ \A p \in P!Region(stack[l].sptr - G, G) :
                        prot'[p] = IF l \in bare THEN "rw" ELSE "none"
        <4>1. /\ stack[l].sptr \in Nat /\ stack[l].ssze \in Nat
              /\ stack[l].sptr > G
          BY DEF StackInv, P!Live
        <4>2. /\ P!Region(stack[l].sptr, stack[l].ssze) \subseteq Span(stack[l])
              /\ P!Region(stack[l].sptr - G, G) \subseteq Span(stack[l])
          BY <1>1, <4>1 DEF Span, P!Region
        <4>3. \A p \in Span(stack[l]) : prot'[p] = prot[p]
          BY <2>4, <2>5
        <4>4. QED
          BY <4>2, <4>3 DEF StackInv, P!StacksSound, P!StacksUsable
      <3>2. /\ ssze * PAGESIZE >= words * Word
            /\ \A p \in P!Region(b + G, ssze) : prot'[p] = "rw"
            /\ \A p \in P!Region(b + G - G, G) : prot'[p] = g
        BY <1>1, <2>1, <2>4 DEF P!Region
      <3>3. \A l \in P!Live : l \in Stk /\ l # k
        BY <2>2 DEF P!Live
      <3>4. ASSUME NEW l \in P!Live'
            PROVE  /\ stack'[l].ssze * PAGESIZE >= size'[l] * Word
                   /\ \A p \in P!Region(stack'[l].sptr, stack'[l].ssze) : prot'[p] = "rw"
                   /\ \A p \in P!Region(stack'[l].sptr - G, G) :
                        prot'[p] = IF l \in bare' THEN "rw" ELSE "none"
        <4>1. CASE l = k
          <5>1. stack'[l].sptr = b + G /\ stack'[l].ssze = ssze /\ size'[l] = words
            BY <2>2, <4>1
          <5>2. stack'[l].ssze * PAGESIZE >= size'[l] * Word
            BY <3>2, <5>1, Zenon
          <5>3. \A p \in P!Region(stack'[l].sptr, stack'[l].ssze) : prot'[p] = "rw"
            BY <3>2, <5>1, Zenon
          <5>4. \A p \in P!Region(stack'[l].sptr - G, G) : prot'[p] = g
            BY <1>1, <2>1, <2>4, <5>1 DEF P!Region
          <5>5. g = IF l \in bare' THEN "rw" ELSE "none"
            BY <1>3, <2>2, <4>1 DEF StackInv
          <5>6. QED
            BY <5>2, <5>3, <5>4, <5>5
        <4>2. CASE l # k
          <5>1. l \in P!Live /\ (l \in bare' <=> l \in bare)
            BY <1>3, <2>2, <3>4, <4>2
          <5>2. stack'[l] = stack[l] /\ size'[l] = size[l]
            BY <2>2, <3>3, <4>2, <5>1
          <5>3. QED
            BY <3>1, <5>1, <5>2
        <4>3. QED
          BY <4>1, <4>2
      <3>5. QED
        BY <3>4 DEF P!StacksUsable
    <2>7. P!PagesAccounted'
      <3>1. \A l, m \in P!Live' : l # m => Span(stack'[l]) \cap Span(stack'[m]) = {}
        <4>1. \A l, m \in P!Live : l # m => Span(stack[l]) \cap Span(stack[m]) = {}
          BY PagesFacts DEF StackInv, P!StacksSound
        <4>2. QED
          BY <2>2, <2>3, <2>5, <4>1
      <3>2. ASSUME NEW p \in 1 .. Pages
            PROVE  prot'[p] # NULL <=> \E l \in P!Live' : p \in Span(stack'[l])
        <4>1. prot[p] # NULL <=> \E l \in P!Live : p \in Span(stack[l])
          BY <2>4, PagesFacts DEF StackInv, P!StacksSound
        <4>2. CASE p \in b .. b + every - 1
          <5>1. prot'[p] # NULL
            <6>1. p \in b .. b + G - 1 \/ p \in b + G .. b + every - 1
              BY <1>1, <2>1, <4>2
            <6>2. QED
              BY <2>4, <6>1 DEF P!StackConstants
          <5>2. QED
            BY <2>2, <2>3, <4>2, <5>1
        <4>3. CASE p \notin b .. b + every - 1
          BY <2>2, <2>3, <2>4, <4>1, <4>3
        <4>4. QED
          BY <4>2, <4>3
      <3>3. QED
        BY <2>4, <3>1, <3>2, PagesFacts
    <2>8. \A l \in P!Live' : /\ stack'[l].sptr > G
                             /\ stack'[l].sptr + stack'[l].ssze - 1 <= Pages
      <3>1. stack'[k].sptr > G /\ stack'[k].sptr + stack'[k].ssze - 1 <= Pages
        BY <1>1, <2>1, <2>2
      <3>2. QED
        BY <2>2, <3>1 DEF StackInv, P!Live
    <2>9. size' \in [Stk -> Nat \cup {NULL}] /\ bare' \subseteq P!Live'
      BY <1>1, <1>3, <2>2 DEF StackInv
    <2>10. \A l \in Stk : size'[l] = 0 => stack'[l].sptr = 0
      BY <1>1, <2>2 DEF StackInv
    <2>11. QED
      BY <2>2, <2>4, <2>6, <2>7, <2>8, <2>9, <2>10 DEF StackInv, P!StacksSound
  <1>4. QED
    BY <1>2, <1>3 DEF P!coro_stack_alloc, words, ssze

\* A free takes away exactly the pages of the stack, and nothing at all after
\* a failed allocation, although the pointer was never cleared.
LEMMA FreeStep ==
  ASSUME P!StackConstants, StackInv, NEW k \in Stk, size[k] # NULL, P!coro_stack_free(k)
  PROVE  StackInv'
  <1>1. /\ stack' = stack /\ size' = [size EXCEPT ![k] = NULL] /\ bare' = bare \ {k}
        /\ prot' = [p \in DOMAIN prot |->
                      IF stack[k].sptr # 0 /\ p \in Span(stack[k]) THEN NULL ELSE prot[p]]
    BY DEF P!coro_stack_free, Span
  <1>2. /\ stack \in [Stk -> [sptr : Nat, ssze : Nat]] /\ size \in [Stk -> Nat \cup {NULL}]
        /\ prot \in [1 .. Pages -> {"none", "rw", NULL}]
        /\ NULL \notin Nat \cup {"none", "rw"}
    BY DEF StackInv, P!StackConstants
  <1>3. /\ P!Live' = P!Live \ {k} /\ size' \in [Stk -> Nat \cup {NULL}]
        /\ \A l \in Stk : l # k => size'[l] = size[l]
        /\ size'[k] = NULL
    BY <1>1, <1>2 DEF P!Live
  <1>4. k \in P!Live <=> stack[k].sptr # 0
    <2>1. k \in P!Live <=> size[k] # 0
      BY DEF P!Live
    <2>2. k \in P!Live => stack[k].sptr > CORO_GUARDPAGES
      BY DEF StackInv
    <2>3. size[k] = 0 => stack[k].sptr = 0
      BY DEF StackInv
    <2>4. k \in P!Live => stack[k].sptr # 0
      BY <1>2, <2>2 DEF P!StackConstants
    <2>5. QED
      BY <2>1, <2>3, <2>4
  <1>5. /\ \A p \in 1 .. Pages : prot[p] # NULL <=> \E l \in P!Live : p \in Span(stack[l])
        /\ \A l, m \in P!Live : l # m => Span(stack[l]) \cap Span(stack[m]) = {}
    BY <1>2, PagesFacts DEF StackInv, P!StacksSound
  <1>6. prot' \in [1 .. Pages -> {"none", "rw", NULL}]
        /\ \A p \in 1 .. Pages :
             /\ k \in P!Live /\ p \in Span(stack[k]) => prot'[p] = NULL
             /\ ~(k \in P!Live /\ p \in Span(stack[k])) => prot'[p] = prot[p]
    BY <1>1, <1>2, <1>4
  <1>7. \A l \in P!Live : Span(stack[l]) \subseteq 1 .. Pages
    <2>1. ASSUME NEW l \in P!Live
          PROVE  /\ stack[l].sptr \in Nat /\ stack[l].ssze \in Nat
                 /\ stack[l].sptr > CORO_GUARDPAGES
                 /\ stack[l].sptr + stack[l].ssze - 1 <= Pages
      BY DEF StackInv, P!Live
    <2>2. QED
      BY <2>1 DEF Span, P!Region, P!StackConstants
  <1>8. P!StacksUsable'
    <2>1. ASSUME NEW l \in P!Live'
          PROVE  /\ stack'[l].ssze * PAGESIZE >= size'[l] * Word
                 /\ \A p \in P!Region(stack'[l].sptr, stack'[l].ssze) : prot'[p] = "rw"
                 /\ \A p \in P!Region(stack'[l].sptr - CORO_GUARDPAGES, CORO_GUARDPAGES) :
                      prot'[p] = IF l \in bare' THEN "rw" ELSE "none"
      <3>1. l \in P!Live /\ l # k /\ l \in Stk
        BY <1>3, <2>1 DEF P!Live
      <3>2. /\ stack[l].ssze * PAGESIZE >= size[l] * Word
            /\ \A p \in P!Region(stack[l].sptr, stack[l].ssze) : prot[p] = "rw"
            /\ \A p \in P!Region(stack[l].sptr - CORO_GUARDPAGES, CORO_GUARDPAGES) :
                 prot[p] = IF l \in bare THEN "rw" ELSE "none"
            /\ (l \in bare' <=> l \in bare)
        BY <1>1, <3>1 DEF StackInv, P!StacksSound, P!StacksUsable
      <3>3. /\ stack[l].sptr \in Nat /\ stack[l].ssze \in Nat
            /\ stack[l].sptr > CORO_GUARDPAGES /\ CORO_GUARDPAGES \in Nat
        BY <3>1 DEF StackInv, P!StackConstants
      <3>4. /\ P!Region(stack[l].sptr, stack[l].ssze) \subseteq Span(stack[l])
            /\ P!Region(stack[l].sptr - CORO_GUARDPAGES, CORO_GUARDPAGES) \subseteq Span(stack[l])
        BY <3>3 DEF Span, P!Region
      <3>5. \A p \in Span(stack[l]) : prot'[p] = prot[p]
        BY <1>5, <1>6, <1>7, <3>1
      <3>6. QED
        BY <1>1, <1>3, <3>1, <3>2, <3>4, <3>5
    <2>2. QED
      BY <2>1 DEF P!StacksUsable
  <1>9. P!PagesAccounted'
    <2>1. ASSUME NEW p \in 1 .. Pages
          PROVE  prot'[p] # NULL <=> \E l \in P!Live' : p \in Span(stack'[l])
      BY <1>1, <1>3, <1>5, <1>6
    <2>2. \A l, m \in P!Live' : l # m => Span(stack'[l]) \cap Span(stack'[m]) = {}
      BY <1>1, <1>3, <1>5
    <2>3. DOMAIN prot' = 1 .. Pages
      BY <1>6
    <2>4. QED
      BY <2>1, <2>2, <2>3, PagesFacts
  <1>10. /\ \A l \in Stk : size'[l] = 0 => stack'[l].sptr = 0
         /\ \A l \in P!Live' : /\ stack'[l].sptr > CORO_GUARDPAGES
                               /\ stack'[l].sptr + stack'[l].ssze - 1 <= Pages
    <2>1. \A l \in Stk : size'[l] = 0 => size[l] = 0
      BY <1>2, <1>3
    <2>2. QED
      BY <1>1, <1>3, <2>1 DEF StackInv
  <1>11. bare' \subseteq P!Live'
    BY <1>1, <1>3 DEF StackInv
  <1>12. QED
    BY <1>1, <1>2, <1>3, <1>6, <1>8, <1>9, <1>10, <1>11 DEF StackInv, P!StacksSound

\* Whatever the coroutines do, and in every order of successful and failed
\* allocations and frees, each stack in use has its size, and its guard pages
\* unless mprotect failed, no page belongs to two of them and none leaks.
THEOREM StacksAlwaysSound == P!Spec => []StacksSound
  <1> USE PthreadAssumption
  <1>1. P!Init => StackInv
    <2>1. ASSUME P!Init
          PROVE  /\ stack \in [Stk -> [sptr : Nat, ssze : Nat]]
                 /\ size \in [Stk -> Nat \cup {NULL}] /\ P!Live = {} /\ bare = {}
                 /\ prot \in [1 .. Pages -> {"none", "rw", NULL}]
                 /\ \A k \in Stk : stack[k].sptr = 0
                 /\ \A p \in 1 .. Pages : prot[p] = NULL
      BY <2>1 DEF P!Init, P!StackInit, P!Live
    <2>2. QED
      BY <2>1, PagesFacts DEF StackInv, P!StacksSound, P!StacksUsable
  <1>2. StackInv /\ [P!Next]_(P!vars) => StackInv'
    <2>1. ASSUME StackInv, UNCHANGED P!svars PROVE StackInv'
      <3>1. P!Live' = P!Live
        BY <2>1 DEF P!svars, P!Live
      <3>2. QED
        BY <2>1, <3>1 DEF P!svars, StackInv, P!StacksSound, P!StacksUsable, P!PagesAccounted
    <2>2. ASSUME StackInv, NEW x \in P!Actor, NEW c \in Stk,
                 P!free(x, c) \/ \E n \in Size : P!alloc(x, c, n)
          PROVE  StackInv'
      BY <2>2, AllocStep, FreeStep DEF P!free, P!alloc
    <2>3. CASE UNCHANGED P!vars
      BY <2>1, <2>3 DEF P!vars
    <2>4. CASE P!create_empty \/ \E x \in P!Actor : P!Library(x) \/ P!spurious(x)
      BY <2>1, <2>4
      DEF P!create_empty, P!Library, P!create_transfer, P!init_args, P!init_lock, P!init_transfer, P!wake,
          P!cancelled, P!destroy_join, P!destroy_lock, P!spurious
    <2>5. CASE \E x \in P!Actor : P!Program(x)
      BY <2>1, <2>2, <2>5 DEF P!Program, P!create_thread, P!destroy_cancel, P!switch, P!func_returns
    <2>6. QED
      BY <2>3, <2>4, <2>5 DEF P!Next
  <1>3. StackInv => StacksSound
    BY DEF StacksSound, StackInv
  <1>4. QED
    BY <1>1, <1>2, <1>3, PTL DEF P!Spec

-----------------------------------------------------------------------------
(***************************************************************************)
(* The assembler back end, for every set of threads and of coroutines and   *)
(* every number of calls of coro_create, as long as one thread spawns: the *)
(* static variables of coro_create belong to it alone then.                *)
(*                                                                         *)
(* The argument is ownership.  A thread holds the stack it is on, the      *)
(* coroutines of its queue, the one it is switching to, the one it is      *)
(* making and the one that waits in coro_create; no two threads hold the   *)
(* same (Disjoint), every step changes only stacks that its thread holds   *)
(* or that nobody does, and what a thread relies on (Local) is about the   *)
(* stacks it holds.                                                        *)
(***************************************************************************)

\* cs_coro.h asks the caller of coro_create for a lock; the library has none,
\* and the program spawns from one thread.
OneSpawner == \A t, u \in Spawner : t = u

Frame == [new : Coro \cup {NULL}, func : Nat \cup {NULL}, arg : Nat \cup {NULL},
          prev : Context \cup {NULL}, next : Context \cup {NULL}, then : Label \cup {NULL}]

TypeOK ==
  /\ statics \in [func : Nat \cup {NULL}, arg : Nat \cup {NULL},
                  new : Context \cup {NULL}, create : Context \cup {NULL}]
  /\ pos \in [Thread -> Stack]
  /\ pc \in [Stack -> Label]
  /\ frame \in [Stack -> Frame]
  /\ saved \in [Context -> [stack : Stack, at : Label] \cup {NULL}]
  /\ job \in [Coro -> Nat]
  /\ count \in Nat
  /\ ready \in [Thread -> SUBSET Coro]
  /\ halt \in {NULL, "abort"}

-----------------------------------------------------------------------------
(***************************************************************************)
(* What a thread is doing and what it relies on.                           *)
(***************************************************************************)
Point(s, label) == [stack |-> s, at |-> label]

\* The context of a coroutine that can be switched to.
Waiting(c) == pc[c] \in {"start", "run"} /\ saved[<<c, "ctx">>] = Point(c, pc[c])

\* The scheduler of a thread that is in a coroutine can be switched back to.
Home(t) == pc[t] = "run" /\ saved[<<t, "ctx">>] = Point(t, "run")

\* Stack s is in coro_transfer (prev, next) and will be resumed at then.
Flying(s, prev, next, then) ==
  /\ pc[s] \in {"save", "load"}
  /\ frame[s].prev = prev /\ frame[s].next = next /\ frame[s].then = then
  /\ pc[s] = "load" => saved[prev] = Point(s, then)

\* coro_create may be called on stack s of thread t.
CallerStack(t, s) == s = t \/ (s \in Coro \ ready[t] /\ Home(t))

\* The stores of coro_create on stack s for coroutine n, as far as it has got.
Stored(s, n) ==
  /\ pc[s] \in {"arg", "new", "create", "prepare"} => statics.func = job[n]
  /\ pc[s] \in {"new", "create", "prepare"} => statics.arg = job[n]
  /\ pc[s] \in {"create", "prepare"} => statics.new = <<n, "ctx">>
  /\ pc[s] = "prepare" => statics.create = <<s, "nctx">>

AllStored(s, n) ==
  statics = [func |-> job[n], arg |-> job[n], new |-> <<n, "ctx">>, create |-> <<s, "nctx">>]

Scheduling(t) == pos[t] = t /\ pc[t] = "run"

\* The scheduler switches to a coroutine, or sched_run_once does, which has put
\* the running coroutine into the queue already.
Switching(t) == /\ pos[t] = t \/ (pos[t] \in Coro /\ Home(t))
                /\ \E c \in Coro \ (ready[t] \cup {pos[t]}) :
                     Waiting(c) /\ Flying(pos[t], <<pos[t], "ctx">>, <<c, "ctx">>, "run")

Running(t) == pos[t] \in Coro \ ready[t] /\ pc[pos[t]] \in {"start", "run"} /\ Home(t)

\* coro_yield has put the coroutine into the queue already.
Yielding(t) == /\ pos[t] \in Coro /\ Home(t)
               /\ \E then \in {"run", "exit"} :
                    /\ Flying(pos[t], <<pos[t], "ctx">>, <<t, "ctx">>, then)
                    /\ pos[t] \in ready[t] => then = "run"

\* In coro_create, up to the preparation of the new stack.
Storing(t) == LET n == frame[pos[t]].new
              IN  /\ pc[pos[t]] \in {"func", "arg", "new", "create", "prepare"}
                  /\ pc[n] = "reserved"
                  /\ Stored(pos[t], n)

\* In coro_create, on the way to the new stack.
Entering(t) == LET n == frame[pos[t]].new
               IN  /\ pc[n] = "init" /\ saved[<<n, "ctx">>] = Point(n, "init")
                   /\ AllStored(pos[t], n)
                   /\ \/ pc[pos[t]] = "enter"
                      \/ Flying(pos[t], <<pos[t], "nctx">>, <<n, "ctx">>, "created")

\* In coro_create, back from the new stack.
Returning(t) == LET n == frame[pos[t]].new
                IN  /\ pc[pos[t]] = "created"
                    /\ pc[n] = "start" /\ saved[<<n, "ctx">>] = Point(n, "start")

Making(t) == /\ t \in Spawner
             /\ CallerStack(t, pos[t])
             /\ frame[pos[t]].new \in Coro \ ready[t]
             /\ frame[pos[t]].new # pos[t]
             /\ Storing(t) \/ Entering(t) \/ Returning(t)

\* In coro_init, called for the coro_create on stack p.
InitFor(t, p) ==
  /\ CallerStack(t, p) /\ p # pos[t]
  /\ frame[p].new = pos[t] /\ pc[p] = "created"
  /\ saved[<<p, "nctx">>] = Point(p, "created")
  /\ AllStored(p, pos[t])
  /\ \/ pc[pos[t]] \in {"init", "init_arg", "leave"}
     \/ Flying(pos[t], <<pos[t], "ctx">>, <<p, "nctx">>, "start")

Initing(t) == /\ t \in Spawner
              /\ pos[t] \in Coro \ ready[t]
              /\ \E p \in Stack : InitFor(t, p)

Doing(t) == \/ Scheduling(t) \/ Switching(t) \/ Running(t) \/ Yielding(t)
            \/ Making(t) \/ Initing(t)

Queue(t) == \A c \in ready[t] : c # pos[t] => Waiting(c)

Local(t) == Doing(t) /\ Queue(t)

\* The coroutines that thread t holds.
Holds(t, c) ==
  \/ pos[t] = c
  \/ c \in ready[t]
  \/ /\ pc[pos[t]] \in {"save", "load"}
     /\ frame[pos[t]].next \in {<<c, "ctx">>, <<c, "nctx">>}
  \/ /\ pc[pos[t]] \in {"func", "arg", "new", "create", "prepare", "enter", "created"}
     /\ frame[pos[t]].new = c
  \/ /\ pc[pos[t]] \in {"init", "init_arg", "leave"}
     /\ statics.create = <<c, "nctx">>

Held(t) == {c \in Coro : Holds(t, c)}

\* A coroutine that nobody holds: free, at its end, or suspended.
AtRest(c) == pc[c] \in {"none", "exit"} \/ Waiting(c)

\* The function and argument that coro_init has copied to the new stack.
Copied(c) ==
  /\ pc[c] \notin {"none", "reserved", "init"} => frame[c].func = job[c]
  /\ pc[c] \notin {"none", "reserved", "init", "init_arg"} => frame[c].arg = job[c]

Disjoint == \A t, u \in Thread : t # u => Held(t) \cap Held(u) = {}
Locals   == \A t \in Thread : Local(t)
Rest     == \A c \in Coro : (\A t \in Thread : c \notin Held(t)) => AtRest(c)
Copies   == \A c \in Coro : Copied(c)

\* The inductive invariant.
IInv == TypeOK /\ Disjoint /\ Locals /\ Rest /\ Copies
-----------------------------------------------------------------------------
(***************************************************************************)
(* Ownership: what a step of one thread leaves alone.                      *)
(***************************************************************************)
USE ContextsAssumption

\* What lies on stack s and in its contexts stays.
Keeps(s) == /\ pc'[s] = pc[s] /\ frame'[s] = frame[s]
            /\ saved'[<<s, "ctx">>] = saved[<<s, "ctx">>]
            /\ saved'[<<s, "nctx">>] = saved[<<s, "nctx">>]
            /\ s \in Coro => job'[s] = job[s]

\* A thread that is in coro_create or coro_init is the one that spawns.
LEMMA MakersSpawn ==
  ASSUME NEW t \in Thread, Doing(t),
         pc[pos[t]] \in {"init", "init_arg", "leave", "func", "arg", "new", "create",
                        "prepare", "enter", "created"}
  PROVE  t \in Spawner
  BY DEF Doing, Scheduling, Switching, Running, Yielding, Making, Initing, Flying

\* What a thread holds depends on nothing but what it holds.
LEMMA HeldFrame ==
  ASSUME TypeOK, NEW t \in Thread, Doing(t), pos'[t] = pos[t], ready'[t] = ready[t],
         Keeps(pos[t]), t \in Spawner => statics' = statics
  PROVE  Held(t)' = Held(t)
<1>1. pc'[pos'[t]] = pc[pos[t]] /\ frame'[pos'[t]] = frame[pos[t]]
  BY DEF Keeps
<1>2. pc[pos[t]] \in {"init", "init_arg", "leave"} => statics' = statics
  BY MakersSpawn
<1> QED BY <1>1, <1>2 DEF Held, Holds

\* What a thread relies on survives the steps of the others.
LEMMA LocalFrame ==
  ASSUME TypeOK, NEW t \in Thread, Local(t), pos'[t] = pos[t], ready'[t] = ready[t],
         \A s \in {t} \cup Held(t) : Keeps(s),
         t \in Spawner => statics' = statics
  PROVE  Local(t)'
<1> DEFINE s == pos[t]
<1>0. s \in Stack /\ ready[t] \subseteq Coro
  BY DEF TypeOK
<1>1. Keeps(s)
  BY DEF Local, Doing, Scheduling, Switching, Running, Yielding, Making, Initing,
         CallerStack, Held, Holds
<1>2. pc'[pos'[t]] = pc[s] /\ frame'[pos'[t]] = frame[s] /\ pos'[t] = s
  BY <1>1 DEF Keeps
<1>3. Keeps(t)
  OBVIOUS
<1>4. Home(t) => Home(t)'
  BY <1>3 DEF Keeps, Home, Point
<1>5. \A prev, next, then :
        Flying(s, prev, next, then) /\ prev \in {<<s, "ctx">>, <<s, "nctx">>}
          => Flying(s, prev, next, then)'
  BY <1>1 DEF Keeps, Flying, Point
<1>6. ASSUME NEW c \in Held(t), Waiting(c) PROVE Waiting(c)'
  BY <1>6 DEF Keeps, Waiting, Point
<1>7. Queue(t)'
  <2>1. \A c \in ready[t] : c \in Held(t)
    BY <1>0 DEF Held, Holds
  <2> QED BY <1>6, <2>1 DEF Local, Queue
<1>8. CASE Scheduling(t)
  BY <1>2, <1>7, <1>8 DEF Local, Doing, Scheduling
<1>9. CASE Switching(t)
  <2>1. PICK c \in Coro \ (ready[t] \cup {s}) :
          Waiting(c) /\ Flying(s, <<s, "ctx">>, <<c, "ctx">>, "run")
    BY <1>9 DEF Switching
  <2>2. c \in Held(t)
    BY <2>1 DEF Flying, Held, Holds
  <2>3. Waiting(c)' /\ Flying(s, <<s, "ctx">>, <<c, "ctx">>, "run")'
    BY <1>5, <1>6, <2>1, <2>2
  <2>4. Switching(t)'
    BY <1>2, <1>4, <1>9, <2>1, <2>3 DEF Switching
  <2> QED BY <1>7, <2>4 DEF Local, Doing
<1>10. CASE Running(t)
  BY <1>2, <1>4, <1>7, <1>10 DEF Local, Doing, Running
<1>11. CASE Yielding(t)
  <2>1. PICK then \in {"run", "exit"} :
          /\ Flying(s, <<s, "ctx">>, <<t, "ctx">>, then)
          /\ s \in ready[t] => then = "run"
    BY <1>11 DEF Yielding
  <2>2. Flying(s, <<s, "ctx">>, <<t, "ctx">>, then)'
    BY <1>5, <2>1
  <2>3. Yielding(t)'
    BY <1>2, <1>4, <1>11, <2>1, <2>2 DEF Yielding
  <2> QED BY <1>7, <2>3 DEF Local, Doing
<1>12. CASE Making(t)
  <2> DEFINE n == frame[s].new
  <2>0. t \in Spawner /\ statics' = statics /\ n \in Coro \ ready[t] /\ n # s
        /\ CallerStack(t, s)
    BY <1>12 DEF Making
  <2>1. n \in Held(t)
    BY <1>12, <2>0 DEF Making, Storing, Entering, Returning, Flying, Held, Holds
  <2>2. Keeps(n) /\ job'[n] = job[n]
    BY <2>0, <2>1 DEF Keeps
  <2>3. Storing(t) => Storing(t)'
    BY <1>2, <2>0, <2>2 DEF Storing, Stored, Keeps
  <2>4. AllStored(s, n) => AllStored(s, n)'
    BY <1>2, <2>0, <2>2 DEF AllStored
  <2>5. Entering(t) => Entering(t)'
    BY <1>2, <1>5, <2>0, <2>2, <2>4 DEF Entering, Keeps, Point
  <2>6. Returning(t) => Returning(t)'
    BY <1>2, <2>2 DEF Returning, Keeps, Point
  <2>7. CallerStack(t, s)'
    BY <1>4, <2>0 DEF CallerStack
  <2>8. Making(t)'
    BY <1>2, <1>12, <2>0, <2>3, <2>5, <2>6, <2>7 DEF Making
  <2> QED BY <1>7, <2>8 DEF Local, Doing
<1>13. CASE Initing(t)
  <2>0. t \in Spawner /\ statics' = statics /\ s \in Coro \ ready[t]
    BY <1>13 DEF Initing
  <2>1. PICK p \in Stack : InitFor(t, p)
    BY <1>13 DEF Initing
  <2>2. p = t \/ p \in Coro \ ready[t]
    BY <2>1 DEF InitFor, CallerStack
  <2>3. p = t \/ p \in Held(t)
    BY <2>1, <2>2 DEF InitFor, AllStored, Flying, Held, Holds
  <2>4. Keeps(p) /\ job'[s] = job[s]
    BY <1>1, <2>0, <2>3 DEF Keeps
  <2>5. AllStored(p, s) => AllStored(p, s)'
    BY <2>0, <2>4 DEF AllStored
  <2>6. CallerStack(t, p)'
    BY <1>4, <2>1 DEF CallerStack, InitFor
  <2>7. InitFor(t, p)'
    BY <1>2, <1>5, <2>1, <2>4, <2>5, <2>6 DEF InitFor, Keeps, Point
  <2>8. Initing(t)'
    BY <1>2, <2>0, <2>1, <2>7 DEF Initing
  <2> QED BY <1>7, <2>8 DEF Local, Doing
<1> QED BY <1>8, <1>9, <1>10, <1>11, <1>12, <1>13 DEF Local, Doing
\* A step of thread t that touches only what t holds and coroutines of C that
\* nobody held keeps the invariant if it does so for what it touches.
LEMMA StepOfThread ==
  ASSUME IInv, OneSpawner, TypeOK', NEW t \in Thread, NEW C \in SUBSET Coro,
         \A u \in Thread : Held(u) \cap C = {},
         \A u \in Thread \ {t} : pos'[u] = pos[u] /\ ready'[u] = ready[u],
         \A s \in Stack \ ({t} \cup Held(t) \cup C) : Keeps(s),
         t \in Spawner \/ statics' = statics,
         Local(t)', Held(t)' \subseteq Held(t) \cup C,
         \A c \in Held(t) \cup C : Copied(c)' /\ (c \in Held(t)' \/ AtRest(c)')
  PROVE  IInv'
<1>1. TypeOK /\ Disjoint /\ Locals /\ Rest /\ Copies
  BY DEF IInv
<1>2. \A u \in Thread : Held(u) \subseteq Coro
  BY DEF Held
<1>3. ASSUME NEW u \in Thread, u # t
      PROVE  Local(u)' /\ Held(u)' = Held(u)
  <2>1. \A s \in {u} \cup Held(u) : s \in Stack \ ({t} \cup Held(t) \cup C)
    BY <1>1, <1>2, <1>3 DEF Disjoint, Stack
  <2>2. \A s \in {u} \cup Held(u) : Keeps(s)
    BY <2>1
  <2>3. pos'[u] = pos[u] /\ ready'[u] = ready[u]
    BY <1>3
  <2>4. u \in Spawner => statics' = statics
    BY <1>3 DEF OneSpawner
  <2>5. Local(u) /\ Doing(u)
    BY <1>1 DEF Locals, Local
  <2>6. pos[u] \in {u} \cup Held(u)
    BY <2>5 DEF Doing, Scheduling, Switching, Running, Yielding, Making, Initing,
                CallerStack, Held, Holds
  <2>7. Local(u)'
    BY <1>1, <2>2, <2>3, <2>4, <2>5, LocalFrame
  <2>8. Held(u)' = Held(u)
    BY <1>1, <2>2, <2>3, <2>4, <2>5, <2>6, HeldFrame
  <2> QED BY <2>7, <2>8
<1>4. Disjoint'
  <2>1. ASSUME NEW u \in Thread, NEW v \in Thread, u # v
        PROVE  Held(u)' \cap Held(v)' = {}
    <3>1. CASE u = t
      BY <1>1, <1>3, <2>1, <3>1 DEF Disjoint
    <3>2. CASE v = t
      BY <1>1, <1>3, <2>1, <3>2 DEF Disjoint
    <3>3. CASE u # t /\ v # t
      BY <1>1, <1>3, <2>1, <3>3 DEF Disjoint
    <3> QED BY <3>1, <3>2, <3>3
  <2> QED BY <2>1 DEF Disjoint
<1>5. Locals'
  BY <1>3 DEF Locals
<1>6. ASSUME NEW c \in Coro
      PROVE  /\ (\A u \in Thread : c \notin Held(u)') => AtRest(c)'
             /\ Copied(c)'
  <2>1. CASE c \in Held(t) \cup C
    BY <2>1
  <2>2. CASE c \notin Held(t) \cup C
    <3>1. Keeps(c)
      BY <2>2 DEF Stack
    <3>2. Copied(c)'
      BY <1>1, <3>1 DEF Copies, Copied, Keeps
    <3>3. ASSUME \A u \in Thread : c \notin Held(u)' PROVE AtRest(c)'
      <4>1. \A u \in Thread : c \notin Held(u)
        BY <1>3, <2>2, <3>3
      <4>2. AtRest(c)
        BY <1>1, <4>1 DEF Rest
      <4> QED BY <3>1, <4>2 DEF AtRest, Waiting, Keeps, Point
    <3> QED BY <3>2, <3>3
  <2> QED BY <2>1, <2>2
<1>7. Rest' /\ Copies'
  BY <1>6 DEF Rest, Copies
<1> QED BY <1>4, <1>5, <1>7 DEF IInv

-----------------------------------------------------------------------------
(***************************************************************************)
(* coro_transfer.                                                          *)
(***************************************************************************)
\* The call leaves everything but the three arguments in place.
LEMMA TransferEffect ==
  ASSUME TypeOK, NEW t \in Thread, NEW prev \in Context, NEW next \in Context,
         NEW then \in Label, Transfer(t, prev, next, then)
  PROVE  /\ pc' = [pc EXCEPT ![pos[t]] = "save"] /\ pc' \in [Stack -> Label]
         /\ frame' \in [Stack -> Frame]
         /\ \A s \in Stack : s # pos[t] => frame'[s] = frame[s]
         /\ frame'[pos[t]].prev = prev /\ frame'[pos[t]].next = next
         /\ frame'[pos[t]].then = then
         /\ frame'[pos[t]].new = frame[pos[t]].new
         /\ frame'[pos[t]].func = frame[pos[t]].func
         /\ frame'[pos[t]].arg = frame[pos[t]].arg
<1>1. pos[t] \in Stack
  BY DEF TypeOK
<1>2. pc' = [pc EXCEPT ![pos[t]] = "save"] /\ pc' \in [Stack -> Label]
  BY <1>1 DEF TypeOK, Transfer, Goto, Here, Label
<1> DEFINE r == frame[pos[t]]
           q == frame'[pos[t]]
<1>3. /\ \A s \in Stack : s # pos[t] => frame'[s] = frame[s]
      /\ frame' = [s \in Stack |-> frame'[s]]
  BY <1>1 DEF TypeOK, Transfer, Here
<1>4. r \in Frame /\ q = [r EXCEPT !.prev = prev, !.next = next, !.then = then]
  BY <1>1 DEF TypeOK, Transfer, Here, Frame
<1>5. /\ q \in Frame
      /\ q.prev = prev /\ q.next = next /\ q.then = then
      /\ q.new = r.new /\ q.func = r.func /\ q.arg = r.arg
  <2> HIDE DEF r, q
  <2> QED BY <1>4 DEF Frame
<1>6. frame' \in [Stack -> Frame]
  BY <1>3, <1>5 DEF TypeOK
<1> QED BY <1>2, <1>3, <1>5, <1>6
\* A thread is on its own stack or on the one of a coroutine it holds.
LEMMA OnStack ==
  ASSUME TypeOK, NEW t \in Thread, Doing(t)
  PROVE  pos[t] \in Stack /\ (pos[t] = t \/ pos[t] \in Held(t))
  BY DEF TypeOK, Doing, Scheduling, Switching, Running, Yielding, Making, Initing,
         CallerStack, Held, Holds

\* coro_transfer saves into a context of the stack it is called on.
LEMMA SavesOwn ==
  ASSUME TypeOK, NEW t \in Thread, Doing(t), pc[pos[t]] \in {"save", "load"}
  PROVE  /\ frame[pos[t]].prev \in {<<pos[t], "ctx">>, <<pos[t], "nctx">>}
         /\ frame[pos[t]].then \in {"run", "exit", "created", "start"}
  BY DEF Doing, Scheduling, Switching, Running, Yielding, Making, Initing, Storing, Entering,
         Returning, InitFor, Flying

\* The stack pointer is saved.
LEMMA SaveStep ==
  ASSUME IInv, OneSpawner, NEW t \in Thread, transfer_save(t)
  PROVE  IInv'
<1> DEFINE s == pos[t]
           x == frame[s].prev
           then == frame[s].then
<1>0. TypeOK /\ Local(t) /\ Doing(t) /\ Queue(t) /\ ready[t] \subseteq Coro
  BY DEF IInv, TypeOK, Locals, Local
<1>1. s \in Stack /\ (s = t \/ s \in Held(t))
  BY <1>0, OnStack
<1>2. pc[s] = "save" /\ x \in {<<s, "ctx">>, <<s, "nctx">>} /\ x \in Context /\ then \in Label
  BY <1>0, <1>1, SavesOwn DEF transfer_save, At, Here, Context, Label
<1>3. /\ saved' = [saved EXCEPT ![x] = Point(s, then)]
      /\ pc' = [pc EXCEPT ![s] = "load"]
      /\ UNCHANGED <<statics, pos, frame, job, count, ready, halt>>
  BY DEF transfer_save, Goto, Here, Point
<1>4. TypeOK'
  BY <1>0, <1>1, <1>2, <1>3 DEF TypeOK, Label, Point
<1>5. \A y \in Stack : y # s => Keeps(y)
  BY <1>0, <1>1, <1>2, <1>3 DEF Keeps, TypeOK, Context
<1>6. pc'[s] = "load" /\ saved'[x] = Point(s, then)
  BY <1>0, <1>1, <1>2, <1>3 DEF TypeOK
<1>7. \A next, lab : Flying(s, x, next, lab) => Flying(s, x, next, lab)'
  BY <1>3, <1>6 DEF Flying, Point
<1>8. \A c \in Coro : c # s /\ Waiting(c) => Waiting(c)'
  BY <1>5 DEF Waiting, Keeps, Point, Stack
<1>9. s # t /\ Home(t) => Home(t)'
  BY <1>5 DEF Home, Keeps, Point, Stack
<1>10. Doing(t)'
  <2>1. CASE Switching(t)
    <3>1. PICK c \in Coro \ (ready[t] \cup {s}) :
            Waiting(c) /\ Flying(s, <<s, "ctx">>, <<c, "ctx">>, "run")
      BY <2>1 DEF Switching
    <3>2. x = <<s, "ctx">> /\ c # s
      BY <3>1 DEF Flying
    <3>3. Waiting(c)'
      BY <1>8, <3>1, <3>2
    <3>4. Flying(s, <<s, "ctx">>, <<c, "ctx">>, "run")'
      BY <1>3, <1>7, <3>1, <3>2
    <3>5. s = t \/ (s \in Coro /\ Home(t)')
      BY <1>9, <2>1 DEF Switching
    <3> QED BY <1>3, <3>1, <3>3, <3>4, <3>5 DEF Doing, Switching
  <2>2. CASE Yielding(t)
    <3>1. PICK lab \in {"run", "exit"} :
            /\ Flying(s, <<s, "ctx">>, <<t, "ctx">>, lab)
            /\ s \in ready[t] => lab = "run"
      BY <2>2 DEF Yielding
    <3>2. s \in Coro /\ s # t /\ Home(t) /\ x = <<s, "ctx">>
      BY <2>2, <3>1 DEF Yielding, Flying
    <3>3. Home(t)'
      BY <1>9, <3>2
    <3>4. Flying(s, <<s, "ctx">>, <<t, "ctx">>, lab)'
      BY <1>3, <1>7, <3>1, <3>2
    <3>5. pos'[t] = s /\ (s \in ready'[t] => lab = "run")
      BY <1>3, <3>1
    <3>6. Yielding(t)'
      BY <3>2, <3>3, <3>4, <3>5 DEF Yielding
    <3> QED BY <3>6 DEF Doing
  <2>3. CASE Making(t)
    <3> DEFINE n == frame[s].new
    <3>1. n \in Coro \ ready[t] /\ n # s /\ t \in Spawner /\ CallerStack(t, s) /\ Entering(t)
      BY <1>2, <2>3 DEF Making, Storing, Returning
    <3>2. Flying(s, <<s, "nctx">>, <<n, "ctx">>, "created") /\ x = <<s, "nctx">>
      BY <1>2, <3>1 DEF Entering, Flying
    <3>3. Flying(s, <<s, "nctx">>, <<n, "ctx">>, "created")'
      BY <1>3, <1>7, <3>2
    <3>4. Keeps(n)
      BY <1>5, <3>1 DEF Stack
    <3>5. AllStored(s, n)'
      BY <1>3, <3>1 DEF AllStored, Entering
    <3>6. Entering(t)'
      BY <1>3, <3>1, <3>3, <3>4, <3>5 DEF Entering, Keeps, Point
    <3>7. CallerStack(t, s)'
      BY <1>3, <1>9, <3>1 DEF CallerStack
    <3> QED BY <1>3, <3>1, <3>6, <3>7 DEF Doing, Making
  <2>4. CASE Initing(t)
    <3>1. PICK p \in Stack : InitFor(t, p)
      BY <2>4 DEF Initing
    <3>2. Flying(s, <<s, "ctx">>, <<p, "nctx">>, "start") /\ x = <<s, "ctx">> /\ p # s
          /\ CallerStack(t, p) /\ s # t
      BY <1>2, <2>4, <3>1 DEF InitFor, Flying, Initing
    <3>3. Flying(s, <<s, "ctx">>, <<p, "nctx">>, "start")'
      BY <1>3, <1>7, <3>2
    <3>4. Keeps(p)
      BY <1>5, <3>2
    <3>5. CallerStack(t, p)'
      BY <1>3, <1>9, <3>2 DEF CallerStack
    <3>6. AllStored(p, s)'
      BY <1>3, <3>1 DEF AllStored, InitFor
    <3>7. InitFor(t, p)'
      BY <1>3, <3>1, <3>3, <3>4, <3>5, <3>6 DEF InitFor, Keeps, Point
    <3> QED BY <1>3, <2>4, <3>7 DEF Doing, Initing
  <2> QED BY <1>0, <1>2, <2>1, <2>2, <2>3, <2>4 DEF Doing, Scheduling, Running
<1>11. Local(t)'
  BY <1>0, <1>3, <1>8, <1>10 DEF Local, Queue
<1>12. Held(t)' = Held(t)
  BY <1>2, <1>3, <1>6 DEF Held, Holds
<1>13. \A c \in Held(t) : Copied(c)'
  <2>1. \A c \in Coro : Copied(c)
    BY DEF IInv, Copies
  <2> QED BY <1>2, <1>3, <1>5, <1>6, <2>1 DEF Copied, Held, Keeps, Stack
<1> QED BY <1>1, <1>3, <1>4, <1>5, <1>11, <1>12, <1>13, StepOfThread
\* A good stack pointer is loaded: the thread goes on where it was saved.
LEMMA LoadEffect ==
  ASSUME TypeOK, NEW t \in Thread, transfer_load(t), NEW y \in Stack, pos[t] \in Stack,
         frame[pos[t]].then \in Label,
         saved[frame[pos[t]].next] = Point(y, pc[y])
  PROVE  /\ pos' = [pos EXCEPT ![t] = y]
         /\ pc' = [pc EXCEPT ![pos[t]] = frame[pos[t]].then]
         /\ UNCHANGED <<statics, frame, saved, job, count, ready, halt>>
         /\ TypeOK'
<1> DEFINE x == saved[frame[pos[t]].next]
<1>1. x.stack = y /\ x.at = pc[y]
  BY DEF Point
<1>2. x # NULL
  <2>1. pc[y] \in Label
    BY DEF TypeOK
  <2>2. Point(y, pc[y]) \in [stack : Thread \cup Coro, at : Label]
    BY <2>1 DEF Point, Stack
  <2> QED BY <2>2
<1> HIDE DEF x
<1>3. /\ pos' = [pos EXCEPT ![t] = y]
      /\ pc' = [pc EXCEPT ![pos[t]] = frame[pos[t]].then]
      /\ UNCHANGED <<statics, frame, saved, job, count, ready, halt>>
  BY <1>1, <1>2 DEF transfer_load, Here, Goto, x
<1> QED BY <1>3 DEF TypeOK

\* The other stack pointer is loaded.
LEMMA LoadStep ==
  ASSUME IInv, OneSpawner, NEW t \in Thread, transfer_load(t)
  PROVE  IInv'
<1> DEFINE s == pos[t]
           then == frame[s].then
<1>0. TypeOK /\ Local(t) /\ Doing(t) /\ Queue(t) /\ ready[t] \subseteq Coro
  BY DEF IInv, TypeOK, Locals, Local
<1>1. s \in Stack /\ (s = t \/ s \in Held(t))
  BY <1>0, OnStack
<1>2. pc[s] = "load" /\ then \in {"run", "exit", "created", "start"} /\ then \in Label
  BY <1>0, <1>1, SavesOwn DEF transfer_load, At, Here, Label
<1>3. \A c \in Coro : Copied(c)
  BY DEF IInv, Copies
<1>4. SUFFICES ASSUME NEW y \in Stack, pos' = [pos EXCEPT ![t] = y],
                      pc' = [pc EXCEPT ![s] = then],
                      UNCHANGED <<statics, frame, saved, job, count, ready, halt>>,
                      saved[frame[s].next] = Point(y, pc[y]), TypeOK'
               PROVE  /\ Local(t)' /\ Held(t)' \subseteq Held(t)
                      /\ \A c \in Held(t) : c \in Held(t)' \/ AtRest(c)'
  <2>1. PICK y \in Stack : saved[frame[s].next] = Point(y, pc[y])
    <3>1. CASE Switching(t)
      BY <3>1 DEF Switching, Flying, Waiting, Stack
    <3>2. CASE Yielding(t)
      BY <3>2 DEF Yielding, Flying, Home, Stack
    <3>3. CASE Making(t)
      BY <1>2, <3>3 DEF Making, Storing, Entering, Returning, Flying, Stack
    <3>4. CASE Initing(t)
      BY <1>2, <3>4 DEF Initing, InitFor, Flying
    <3> QED BY <1>0, <1>2, <3>1, <3>2, <3>3, <3>4 DEF Doing, Scheduling, Running
  <2>2. /\ pos' = [pos EXCEPT ![t] = y] /\ pc' = [pc EXCEPT ![s] = then]
        /\ UNCHANGED <<statics, frame, saved, job, count, ready, halt>> /\ TypeOK'
    BY <1>0, <1>1, <1>2, <2>1, LoadEffect
  <2>3. \A x \in Stack : x # s => Keeps(x)
    BY <1>0, <2>2 DEF Keeps, TypeOK
  <2>4. \A c \in Held(t) : Copied(c)'
    BY <1>0, <1>1, <1>2, <1>3, <2>2 DEF Copied, Held, TypeOK
  <2>5. \A u \in Thread \ {t} : pos'[u] = pos[u] /\ ready'[u] = ready[u]
    BY <1>0, <2>2 DEF TypeOK
  <2>6. /\ Local(t)' /\ Held(t)' \subseteq Held(t)
        /\ \A c \in Held(t) : c \in Held(t)' \/ AtRest(c)'
    BY <1>4, <2>1, <2>2
  <2> QED BY <1>1, <2>2, <2>3, <2>4, <2>5, <2>6, StepOfThread
<1>5. pos'[t] = y /\ ready' = ready /\ frame' = frame /\ saved' = saved /\ statics' = statics
      /\ job' = job /\ pc'[s] = then /\ \A x \in Stack : x # s => pc'[x] = pc[x]
  BY <1>0, <1>1, <1>4 DEF TypeOK
<1>6. \A c \in Coro : c # s /\ Waiting(c) => Waiting(c)'
  BY <1>5 DEF Waiting, Point, Stack
<1>7. s # t /\ Home(t) => Home(t)'
  BY <1>5 DEF Home, Point, Stack
<1>8. CASE Switching(t)
  <2>1. PICK c \in Coro \ (ready[t] \cup {s}) :
          Waiting(c) /\ Flying(s, <<s, "ctx">>, <<c, "ctx">>, "run")
    BY <1>8 DEF Switching
  <2>2. /\ then = "run" /\ frame[s].next = <<c, "ctx">> /\ c # s
        /\ saved[<<s, "ctx">>] = Point(s, "run")
        /\ s = t \/ (s \in Coro /\ s # t /\ Home(t))
    BY <1>2, <1>8, <2>1 DEF Switching, Flying
  <2>3. y = c
    BY <1>4, <2>1, <2>2 DEF Waiting, Point
  <2>4. Home(t)'
    BY <1>5, <1>7, <2>2 DEF Home
  <2>5. Running(t)'
    BY <1>5, <2>1, <2>2, <2>3, <2>4 DEF Running, Waiting, Stack
  <2>6. \A d \in Coro : d = s => Waiting(d)'
    BY <1>5, <2>2 DEF Waiting, Point
  <2>7. Queue(t)'
    BY <1>0, <1>5, <1>6, <2>6 DEF Queue
  <2>8. \A d \in Coro : Holds(t, d) <=> d \in {c, s} \cup ready[t]
    BY <1>2, <2>2 DEF Holds
  <2>9. pc'[c] \in {"start", "run"}
    BY <1>5, <2>1, <2>2 DEF Waiting, Stack
  <2>10. \A d \in Coro : Holds(t, d)' <=> d \in {c} \cup ready[t]
    BY <1>5, <2>3, <2>9 DEF Holds
  <2>11. Held(t)' \subseteq Held(t)
    BY <2>8, <2>10 DEF Held
  <2>12. \A d \in Held(t) : d \in Held(t)' \/ AtRest(d)'
    BY <2>6, <2>8, <2>10 DEF Held, AtRest
  <2> QED BY <2>5, <2>7, <2>11, <2>12 DEF Local, Doing
<1>9. CASE Yielding(t)
  <2>1. PICK lab \in {"run", "exit"} :
          /\ Flying(s, <<s, "ctx">>, <<t, "ctx">>, lab)
          /\ s \in ready[t] => lab = "run"
    BY <1>9 DEF Yielding
  <2>2. /\ s \in Coro /\ s # t /\ then = lab /\ frame[s].next = <<t, "ctx">> /\ Home(t)
        /\ saved[<<s, "ctx">>] = Point(s, then)
    BY <1>2, <1>9, <2>1 DEF Yielding, Flying
  <2>3. y = t
    BY <1>4, <2>2 DEF Home, Point
  <2>4. Scheduling(t)'
    BY <1>5, <1>7, <2>2, <2>3 DEF Scheduling, Home
  <2>5. \A c \in Coro : c = s /\ then = "run" => Waiting(c)'
    BY <1>5, <2>2 DEF Waiting, Point
  <2>6. Queue(t)'
    BY <1>0, <1>5, <1>6, <2>1, <2>2, <2>5 DEF Queue
  <2>7. \A c \in Coro : c = s => AtRest(c)'
    BY <1>5, <2>1, <2>2, <2>5 DEF AtRest
  <2>8. Held(t) = {s} \cup ready[t]
    BY <1>0, <1>2, <2>2 DEF Held, Holds
  <2>9. Held(t)' = ready[t]
    BY <1>0, <1>5, <2>3, <2>4 DEF Held, Holds, Scheduling
  <2> QED BY <2>2, <2>4, <2>6, <2>7, <2>8, <2>9 DEF Local, Doing
<1>10. CASE Making(t)
  <2> DEFINE n == frame[s].new
  <2>1. n \in Coro \ ready[t] /\ n # s /\ t \in Spawner /\ CallerStack(t, s) /\ Entering(t)
    BY <1>2, <1>10 DEF Making, Storing, Returning
  <2>2. /\ then = "created" /\ frame[s].next = <<n, "ctx">>
        /\ saved[<<s, "nctx">>] = Point(s, "created")
        /\ pc[n] = "init" /\ saved[<<n, "ctx">>] = Point(n, "init") /\ AllStored(s, n)
    BY <1>2, <2>1 DEF Entering, Flying
  <2>3. y = n
    BY <1>4, <2>2 DEF Point
  <2>4. pc'[n] = "init" /\ pc'[s] = "created"
    BY <1>5, <2>1, <2>2 DEF Stack
  <2>5. CallerStack(t, s) => (s = t \/ (s \in Coro \ ready'[t] /\ Home(t)'))
    BY <1>5, <1>7 DEF CallerStack
  <2>6. AllStored(s, n) =>
          statics' = [func |-> job'[n], arg |-> job'[n], new |-> <<n, "ctx">>,
                      create |-> <<s, "nctx">>]
    BY <1>5 DEF AllStored
  <2>7. \E p \in Stack : InitFor(t, p)'
    <3>1. \A p \in Stack : p = s => InitFor(t, p)'
      BY <1>1, <1>5, <2>1, <2>2, <2>3, <2>4, <2>5, <2>6
         DEF InitFor, CallerStack, AllStored, Point
    <3> QED BY <1>1, <3>1
  <2>8. Initing(t)'
    BY <1>5, <2>1, <2>3, <2>7 DEF Initing
  <2>9. Queue(t)'
    <3>1. \A c \in ready[t] : c # s
      BY <1>0, <2>1 DEF CallerStack
    <3> QED BY <1>0, <1>5, <1>6, <3>1 DEF Queue
  <2>10. Held(t)' = Held(t)
    <3>1. Held(t) = {n} \cup ready[t] \cup ({s} \cap Coro)
      BY <1>0, <1>2, <2>1, <2>2 DEF Held, Holds
    <3>2. statics'.create = <<s, "nctx">>
      BY <2>2, <2>6
    <3>3. Held(t)' = {n} \cup ready[t] \cup ({s} \cap Coro)
      BY <1>0, <1>5, <2>1, <2>3, <2>4, <3>2 DEF Held, Holds
    <3> QED BY <3>1, <3>3
  <2> QED BY <2>8, <2>9, <2>10 DEF Local, Doing
<1>11. CASE Initing(t)
  <2>1. PICK p \in Stack : InitFor(t, p)
    BY <1>11 DEF Initing
  <2>2. /\ s \in Coro \ ready[t] /\ p # s /\ t \in Spawner /\ CallerStack(t, p) /\ s # t
        /\ then = "start" /\ frame[s].next = <<p, "nctx">> /\ frame[p].new = s
        /\ saved[<<s, "ctx">>] = Point(s, "start")
        /\ pc[p] = "created" /\ saved[<<p, "nctx">>] = Point(p, "created")
    BY <1>2, <1>11, <2>1 DEF Initing, InitFor, Flying
  <2>3. y = p
    BY <1>4, <2>2 DEF Point
  <2>4. pc'[p] = "created" /\ pc'[s] = "start"
    BY <1>5, <2>2
  <2>5. p = t \/ (p \in Coro \ ready'[t] /\ Home(t)')
    BY <1>5, <1>7, <2>2 DEF CallerStack
  <2>6. Making(t)'
    BY <1>5, <2>2, <2>3, <2>4, <2>5 DEF Making, CallerStack, Returning, Point
  <2>7. Queue(t)'
    BY <1>0, <1>5, <1>6, <2>2 DEF Queue
  <2>8. Held(t)' = Held(t)
    <3>1. Held(t) = {s} \cup ready[t] \cup ({p} \cap Coro)
      BY <1>0, <1>2, <2>2 DEF Held, Holds
    <3>2. Held(t)' = {s} \cup ready[t] \cup ({p} \cap Coro)
      BY <1>0, <1>5, <2>2, <2>3, <2>4 DEF Held, Holds
    <3> QED BY <3>1, <3>2
  <2> QED BY <2>6, <2>7, <2>8 DEF Local, Doing
<1> QED BY <1>0, <1>2, <1>8, <1>9, <1>10, <1>11 DEF Doing, Scheduling, Running
-----------------------------------------------------------------------------
(***************************************************************************)
(* coro_create and coro_init.                                              *)
(***************************************************************************)
\* A step of thread t that changes nothing but its place in the code, the
\* frame on the stack it is on and its queue, and holds what it held.
LEMMA StepOnStack ==
  ASSUME IInv, OneSpawner, TypeOK', NEW t \in Thread,
         t \in Spawner \/ statics' = statics,
         pos' = pos, saved' = saved, job' = job,
         \A u \in Thread \ {t} : ready'[u] = ready[u],
         \A x \in Stack \ {pos[t]} : pc'[x] = pc[x] /\ frame'[x] = frame[x],
         \A c \in ready'[t] : c # pos[t] => Waiting(c),
         Doing(t)', Held(t)' = Held(t),
         \A c \in Coro : c = pos[t] => Copied(c)'
  PROVE  IInv'
<1>1. TypeOK /\ Doing(t) /\ Copies
  BY DEF IInv, Locals, Local
<1>2. pos[t] = t \/ pos[t] \in Held(t)
  BY <1>1, OnStack
<1>3. \A x \in Stack \ {pos[t]} : Keeps(x)
  BY DEF Keeps
<1>4. \A c \in Coro : c # pos[t] => Copied(c)'
  BY <1>1, <1>3 DEF Copies, Copied, Keeps, Stack
<1>5. Queue(t)'
  <2>1. ready'[t] \subseteq Coro
    BY DEF TypeOK
  <2>2. \A c \in Coro : c # pos[t] /\ Waiting(c) => Waiting(c)'
    BY <1>3 DEF Waiting, Keeps, Point, Stack
  <2> QED BY <2>1, <2>2 DEF Queue
<1>6. Local(t)'
  BY <1>5 DEF Local
<1>7. \A c \in Held(t) : Copied(c)'
  BY <1>4 DEF Held
<1> QED BY <1>2, <1>3, <1>6, <1>7, StepOfThread

\* The coroutines that a thread holds are alive, and the suspended ones among
\* them are where it can find them.
LEMMA HeldLabels ==
  ASSUME TypeOK, NEW u \in Thread, Local(u), NEW c \in Held(u)
  PROVE  /\ pc[c] \notin {"none", "exit"}
         /\ pc[c] = "run" => \/ pos[u] = c \/ c \in ready[u]
                            \/ /\ pc[pos[u]] \in {"save", "load"}
                               /\ frame[pos[u]].next = <<c, "ctx">>
<1> c \in Coro /\ Holds(u, c) /\ Doing(u) /\ Queue(u)
  BY DEF Held, Local
<1>1. CASE pos[u] = c
  BY <1>1 DEF Doing, Scheduling, Switching, Running, Yielding, Making, Initing, Storing,
              Entering, Returning, InitFor, Flying
<1>2. CASE c \in ready[u] /\ pos[u] # c
  BY <1>2 DEF Queue, Waiting
<1>3. CASE pos[u] # c /\ c \notin ready[u]
  <2>1. CASE Scheduling(u) \/ Running(u)
    BY <1>3, <2>1 DEF Scheduling, Running, Holds
  <2>2. CASE Switching(u)
    BY <1>3, <2>2 DEF Switching, Flying, Waiting, Holds
  <2>3. CASE Yielding(u)
    BY <1>3, <2>3 DEF Yielding, Flying, Holds
  <2>4. CASE Making(u)
    BY <1>3, <2>4 DEF Making, Storing, Entering, Returning, Flying, Holds
  <2>5. CASE Initing(u)
    BY <1>3, <2>5 DEF Initing, InitFor, AllStored, Flying, Holds
  <2> QED BY <2>1, <2>2, <2>3, <2>4, <2>5 DEF Doing
<1> QED BY <1>1, <1>2, <1>3

\* A frame with one field changed.
LEMMA FrameField ==
  ASSUME NEW r \in Frame, NEW c \in Coro, NEW v \in Nat \cup {NULL}
  PROVE  /\ [r EXCEPT !.new = c] \in Frame
         /\ [r EXCEPT !.func = v] \in Frame
         /\ [r EXCEPT !.arg = v] \in Frame
  BY DEF Frame

\* coro_create is called, with memory that nobody uses.
LEMMA CreateCallStep ==
  ASSUME IInv, OneSpawner, NEW t \in Thread, NEW c \in Coro, create_call(t, c)
  PROVE  IInv'
<1> DEFINE s == pos[t]
<1>0. TypeOK /\ Local(t) /\ Doing(t) /\ Queue(t) /\ ready[t] \subseteq Coro
  BY DEF IInv, TypeOK, Locals, Local
<1>1. s \in Stack /\ (s = t \/ s \in Held(t))
  BY <1>0, OnStack
<1>2. t \in Spawner /\ pc[s] = "run" /\ pc[c] = "none" /\ c # s /\ c \in Stack /\ c # t
  BY DEF create_call, At, Here, Stack
<1>3. /\ job' = [job EXCEPT ![c] = count'] /\ count' = count + 1
      /\ pc' = [pc EXCEPT ![s] = "func", ![c] = "reserved"]
      /\ frame' = [frame EXCEPT ![s].new = c]
      /\ UNCHANGED <<statics, pos, saved, ready, halt>>
  BY DEF create_call, Here
<1>4. /\ frame'[s].new = c /\ frame'[s].func = frame[s].func /\ frame'[s].arg = frame[s].arg
      /\ \A x \in Stack : x # s => frame'[x] = frame[x]
  BY <1>0, <1>1, <1>3 DEF TypeOK, Frame
<1>5. TypeOK'
  <2>1. frame[s] \in Frame /\ [frame[s] EXCEPT !.new = c] \in Frame
    BY <1>0, <1>1, FrameField DEF TypeOK
  <2>2. frame' \in [Stack -> Frame]
    BY <1>0, <1>1, <1>3, <2>1 DEF TypeOK
  <2> QED BY <1>0, <1>1, <1>2, <1>3, <2>2 DEF TypeOK, Label
<1>6. /\ pc'[s] = "func" /\ pc'[c] = "reserved"
      /\ \A x \in Stack : x # s /\ x # c => Keeps(x)
  BY <1>0, <1>1, <1>2, <1>3, <1>4 DEF TypeOK, Keeps
<1>7. \A u \in Thread : c \notin Held(u)
  BY <1>0, <1>2, HeldLabels DEF IInv, Locals
<1>8. s = t \/ (s \in Coro \ ready[t] /\ Home(t))
  BY <1>0, <1>2 DEF Doing, Scheduling, Switching, Running, Yielding, Making, Initing,
                    Storing, Entering, Returning, InitFor, Flying
<1>9. c \notin ready[t]
  BY <1>7 DEF Held, Holds
<1>10. CallerStack(t, s)'
  <2>1. s # t => Keeps(t)
    BY <1>2, <1>6 DEF Stack
  <2> QED BY <1>3, <1>8, <2>1 DEF CallerStack, Home, Keeps, Point
<1>11. Making(t)'
  BY <1>2, <1>3, <1>4, <1>6, <1>9, <1>10 DEF Making, Storing, Stored
<1>12. Queue(t)'
  <2>1. \A x \in ready[t] : x # s /\ x # c /\ x \in Stack
    BY <1>0, <1>8, <1>9 DEF Stack
  <2>2. \A x \in ready[t] : Keeps(x) /\ Waiting(x)
    BY <1>0, <1>6, <2>1 DEF Queue
  <2> QED BY <1>3, <2>2 DEF Queue, Waiting, Keeps, Point
<1>13. Held(t)' = Held(t) \cup {c}
  BY <1>0, <1>1, <1>2, <1>3, <1>4, <1>6 DEF Held, Holds
<1>14. \A x \in Held(t) \cup {c} : Copied(x)'
  <2>1. \A x \in Coro : Copied(x)
    BY DEF IInv, Copies
  <2>2. job \in [Coro -> Nat]
    BY <1>0 DEF TypeOK
  <2>3. \A x \in Coro : x # c => job'[x] = job[x]
    BY <1>3, <2>2
  <2>4. \A x \in Coro : x = s => Copied(x)'
    BY <1>2, <1>4, <1>6, <2>1, <2>3 DEF Copied
  <2>5. \A x \in Coro : x # s /\ x # c => Copied(x)'
    BY <1>6, <2>1 DEF Copied, Keeps, Stack
  <2>6. Copied(c)'
    BY <1>6 DEF Copied
  <2> QED BY <2>4, <2>5, <2>6 DEF Held
<1> DEFINE C == {c}
<1>15. C \in SUBSET Coro /\ \A u \in Thread : Held(u) \cap C = {}
  BY <1>7
<1>16. \A x \in Stack \ ({t} \cup Held(t) \cup C) : Keeps(x)
  BY <1>1, <1>6
<1>17. Local(t)'
  BY <1>11, <1>12 DEF Local, Doing
<1>18. \A u \in Thread \ {t} : pos'[u] = pos[u] /\ ready'[u] = ready[u]
  BY <1>3
<1> QED BY <1>2, <1>5, <1>13, <1>14, <1>15, <1>16, <1>17, <1>18, StepOfThread
\* The labels of coro_create and of coro_init say what a thread is doing.
LEMMA MakerAt ==
  ASSUME NEW t \in Thread, Doing(t),
         pc[pos[t]] \in {"func", "arg", "new", "create", "prepare", "enter", "created"}
  PROVE  Making(t)
  BY DEF Doing, Scheduling, Switching, Running, Yielding, Initing, InitFor, Flying

LEMMA InitAt ==
  ASSUME NEW t \in Thread, Doing(t), pc[pos[t]] \in {"init", "init_arg", "leave"}
  PROVE  Initing(t)
  BY DEF Doing, Scheduling, Switching, Running, Yielding, Making, Storing, Entering,
         Returning, Flying

\* One static variable is assigned.
LEMMA StoreEffect ==
  ASSUME TypeOK, NEW t \in Thread, NEW v \in {"func", "arg", "new", "create"},
         create_store(t, v), pos[t] \in Stack, frame[pos[t]].new \in Coro
  PROVE  LET s == pos[t]
             n == frame[s].new
         IN  /\ pc[s] = v
             /\ pc' = [pc EXCEPT ![s] = AfterStore[v]] /\ AfterStore[v] \in Label
             /\ statics'.func = IF v = "func" THEN job[n] ELSE statics.func
             /\ statics'.arg = IF v = "arg" THEN job[n] ELSE statics.arg
             /\ statics'.new = IF v = "new" THEN <<n, "ctx">> ELSE statics.new
             /\ statics'.create = IF v = "create" THEN <<s, "nctx">> ELSE statics.create
             /\ UNCHANGED <<pos, frame, saved, job, count, ready, halt>>
             /\ TypeOK'
<1> DEFINE s == pos[t]
           n == frame[s].new
           value == [func |-> job[n], arg |-> job[n], new |-> <<n, "ctx">>,
                     create |-> <<s, "nctx">>]
<1>1. /\ pc[s] = v /\ pc' = [pc EXCEPT ![s] = AfterStore[v]]
      /\ statics' = [statics EXCEPT ![v] = value[v]]
      /\ UNCHANGED <<pos, frame, saved, job, count, ready, halt>>
  BY DEF create_store, At, Here, Goto
<1>2. AfterStore[v] \in Label
  BY DEF AfterStore, Label
<1>3. job[n] \in Nat /\ <<n, "ctx">> \in Context /\ <<s, "nctx">> \in Context
  BY DEF TypeOK, Context, Stack
<1>4. /\ statics'.func = IF v = "func" THEN job[n] ELSE statics.func
      /\ statics'.arg = IF v = "arg" THEN job[n] ELSE statics.arg
      /\ statics'.new = IF v = "new" THEN <<n, "ctx">> ELSE statics.new
      /\ statics'.create = IF v = "create" THEN <<s, "nctx">> ELSE statics.create
      /\ statics' \in [func : Nat \cup {NULL}, arg : Nat \cup {NULL},
                      new : Context \cup {NULL}, create : Context \cup {NULL}]
  BY <1>1, <1>3 DEF TypeOK
<1> QED BY <1>1, <1>2, <1>4 DEF TypeOK

\* The stores to the static variables: no other thread writes them.
LEMMA CreateStoreStep ==
  ASSUME IInv, OneSpawner, NEW t \in Thread, NEW v \in {"func", "arg", "new", "create"},
         create_store(t, v)
  PROVE  IInv'
<1> DEFINE s == pos[t]
           n == frame[s].new
<1>0. TypeOK /\ Local(t) /\ Doing(t) /\ Queue(t) /\ s \in Stack
  BY OnStack DEF IInv, Locals, Local
<1>1. pc[s] = v
  BY DEF create_store, At, Here
<1>2. Making(t) /\ Storing(t)
  <2>1. Making(t)
    BY <1>0, <1>1, MakerAt
  <2> QED BY <1>1, <2>1 DEF Making, Entering, Returning, Flying
<1>3. n \in Coro \ ready[t] /\ n # s /\ t \in Spawner /\ CallerStack(t, s)
  BY <1>2 DEF Making
<1>4. /\ pc' = [pc EXCEPT ![s] = AfterStore[v]]
      /\ statics'.func = IF v = "func" THEN job[n] ELSE statics.func
      /\ statics'.arg = IF v = "arg" THEN job[n] ELSE statics.arg
      /\ statics'.new = IF v = "new" THEN <<n, "ctx">> ELSE statics.new
      /\ statics'.create = IF v = "create" THEN <<s, "nctx">> ELSE statics.create
      /\ UNCHANGED <<pos, frame, saved, job, count, ready, halt>>
      /\ TypeOK'
  BY <1>0, <1>3, StoreEffect
<1>5. /\ pc'[s] = AfterStore[v] /\ AfterStore[v] \in {"arg", "new", "create", "prepare"}
      /\ \A x \in Stack : x # s => pc'[x] = pc[x]
  BY <1>0, <1>4 DEF TypeOK, AfterStore
<1>6. Storing(t)'
  <2>1. pc'[n] = "reserved"
    BY <1>2, <1>3, <1>5 DEF Storing, Stack
  <2>2. Stored(s, n)'
    BY <1>1, <1>2, <1>4, <1>5 DEF Storing, Stored, AfterStore
  <2> QED BY <1>4, <1>5, <2>1, <2>2 DEF Storing
<1>7. CallerStack(t, s)'
  BY <1>3, <1>4, <1>5 DEF CallerStack, Home, Point, Stack
<1>8. Doing(t)'
  BY <1>3, <1>4, <1>6, <1>7 DEF Doing, Making
<1>9. Held(t)' = Held(t)
  BY <1>1, <1>4, <1>5 DEF Held, Holds
<1>10. \A c \in Coro : c = s => Copied(c)'
  <2>1. \A c \in Coro : Copied(c)
    BY DEF IInv, Copies
  <2> QED BY <1>1, <1>4, <1>5, <2>1 DEF Copied
<1>11. \A c \in ready'[t] : c # s => Waiting(c)
  BY <1>0, <1>4 DEF Queue
<1> QED BY <1>3, <1>4, <1>5, <1>8, <1>9, <1>10, <1>11, StepOnStack

\* The new stack is prepared.
LEMMA CreatePrepareStep ==
  ASSUME IInv, OneSpawner, NEW t \in Thread, create_prepare(t)
  PROVE  IInv'
<1> DEFINE s == pos[t]
           n == frame[s].new
<1>0. TypeOK /\ Local(t) /\ Doing(t) /\ Queue(t) /\ ready[t] \subseteq Coro
  BY DEF IInv, TypeOK, Locals, Local
<1>1. s \in Stack /\ (s = t \/ s \in Held(t)) /\ pc[s] = "prepare"
  BY <1>0, OnStack DEF create_prepare, At, Here
<1>2. Making(t) /\ Storing(t)
  <2>1. Making(t)
    BY <1>0, <1>1, MakerAt
  <2> QED BY <1>1, <2>1 DEF Making, Entering, Returning, Flying
<1>3. /\ n \in Coro \ ready[t] /\ n # s /\ t \in Spawner /\ CallerStack(t, s)
      /\ n \in Held(t) /\ n \in Stack /\ <<n, "ctx">> \in Context /\ n # t
  BY <1>1, <1>2 DEF Making, Held, Holds, Stack, Context
<1>4. /\ saved' = [saved EXCEPT ![<<n, "ctx">>] = Point(n, "init")]
      /\ pc' = [pc EXCEPT ![n] = "init", ![s] = "enter"]
      /\ UNCHANGED <<statics, pos, frame, job, count, ready, halt>>
  BY DEF create_prepare, Here, Point
<1>5. TypeOK'
  BY <1>0, <1>1, <1>3, <1>4 DEF TypeOK, Label, Point
<1>6. /\ pc'[s] = "enter" /\ pc'[n] = "init" /\ saved'[<<n, "ctx">>] = Point(n, "init")
      /\ \A x \in Stack : x # s /\ x # n => Keeps(x)
  BY <1>0, <1>1, <1>3, <1>4 DEF TypeOK, Keeps, Context
<1>7. AllStored(s, n)'
  <2>1. /\ statics.func = job[n] /\ statics.arg = job[n] /\ statics.new = <<n, "ctx">>
        /\ statics.create = <<s, "nctx">>
    BY <1>1, <1>2 DEF Storing, Stored
  <2>2. statics = [func |-> job[n], arg |-> job[n], new |-> <<n, "ctx">>,
                   create |-> <<s, "nctx">>]
    BY <1>0, <2>1 DEF TypeOK
  <2> QED BY <1>4, <2>2 DEF AllStored
<1>8. Entering(t)'
  BY <1>4, <1>6, <1>7 DEF Entering, Point
<1>9. CallerStack(t, s)'
  <2>1. s # t => Keeps(t)
    BY <1>3, <1>6 DEF Stack
  <2> QED BY <1>3, <1>4, <2>1 DEF CallerStack, Home, Keeps, Point
<1>10. Making(t)'
  BY <1>3, <1>4, <1>8, <1>9 DEF Making
<1>11. Queue(t)'
  <2>1. \A x \in ready[t] : x # s /\ x # n /\ x \in Stack
    BY <1>0, <1>3 DEF Stack, CallerStack
  <2>2. \A x \in ready[t] : Keeps(x) /\ Waiting(x)
    BY <1>0, <1>6, <2>1 DEF Queue
  <2> QED BY <1>4, <2>2 DEF Queue, Waiting, Keeps, Point
<1>12. Held(t)' = Held(t)
  BY <1>1, <1>4, <1>6 DEF Held, Holds
<1>13. \A x \in Held(t) : Copied(x)'
  <2>1. \A x \in Coro : Copied(x)
    BY DEF IInv, Copies
  <2>2. \A x \in Coro : x = s => Copied(x)'
    BY <1>1, <1>4, <1>6, <2>1 DEF Copied
  <2>3. \A x \in Coro : x # s /\ x # n => Copied(x)'
    BY <1>6, <2>1 DEF Copied, Keeps, Stack
  <2>4. \A x \in Coro : x = n => Copied(x)'
    BY <1>6 DEF Copied
  <2> QED BY <2>2, <2>3, <2>4 DEF Held
<1>14. Local(t)'
  BY <1>10, <1>11 DEF Local, Doing
<1>15. \A x \in Stack \ ({t} \cup Held(t)) : Keeps(x)
  BY <1>1, <1>3, <1>6
<1> QED BY <1>4, <1>5, <1>12, <1>13, <1>14, <1>15, StepOfThread
\* coro_create switches to the new stack.
LEMMA CreateTransferStep ==
  ASSUME IInv, OneSpawner, NEW t \in Thread, create_transfer(t)
  PROVE  IInv'
<1> DEFINE s == pos[t]
           n == frame[s].new
<1>0. TypeOK /\ Local(t) /\ Doing(t) /\ Queue(t) /\ s \in Stack
  BY OnStack DEF IInv, Locals, Local
<1>1. pc[s] = "enter"
  BY DEF create_transfer, At, Here
<1>2. Making(t) /\ Entering(t)
  <2>1. Making(t)
    BY <1>0, <1>1, MakerAt
  <2> QED BY <1>1, <2>1 DEF Making, Storing, Returning
<1>3. /\ n \in Coro \ ready[t] /\ n # s /\ t \in Spawner /\ CallerStack(t, s)
      /\ statics.create = <<s, "nctx">> /\ statics.new = <<n, "ctx">> /\ n \in Stack
  BY <1>2 DEF Making, Entering, AllStored, Stack
<1>4. /\ Transfer(t, <<s, "nctx">>, <<n, "ctx">>, "created")
      /\ UNCHANGED <<statics, pos, saved, job, count, ready, halt>>
  BY <1>3 DEF create_transfer
<1>5. <<s, "nctx">> \in Context /\ <<n, "ctx">> \in Context /\ "created" \in Label
  BY <1>0, <1>3 DEF Context, Label
<1>6. /\ pc' = [pc EXCEPT ![s] = "save"] /\ pc' \in [Stack -> Label]
      /\ frame' \in [Stack -> Frame]
      /\ \A x \in Stack : x # s => frame'[x] = frame[x]
      /\ frame'[s].prev = <<s, "nctx">> /\ frame'[s].next = <<n, "ctx">>
      /\ frame'[s].then = "created"
      /\ frame'[s].new = n /\ frame'[s].func = frame[s].func /\ frame'[s].arg = frame[s].arg
  BY <1>0, <1>4, <1>5, TransferEffect
<1>7. TypeOK'
  BY <1>0, <1>4, <1>6 DEF TypeOK
<1>8. pc'[s] = "save" /\ \A x \in Stack : x # s => pc'[x] = pc[x]
  BY <1>0, <1>6 DEF TypeOK
<1>9. Entering(t)'
  BY <1>2, <1>3, <1>4, <1>6, <1>8 DEF Entering, Flying, AllStored, Point
<1>10. CallerStack(t, s)'
  BY <1>3, <1>4, <1>8 DEF CallerStack, Home, Point, Stack
<1>11. Doing(t)'
  BY <1>3, <1>4, <1>6, <1>9, <1>10 DEF Doing, Making
<1>12. Held(t)' = Held(t)
  BY <1>1, <1>3, <1>4, <1>6, <1>8 DEF Held, Holds
<1>13. \A c \in Coro : c = s => Copied(c)'
  <2>1. \A c \in Coro : Copied(c)
    BY DEF IInv, Copies
  <2> QED BY <1>1, <1>4, <1>6, <1>8, <2>1 DEF Copied
<1>14. \A c \in ready'[t] : c # s => Waiting(c)
  BY <1>0, <1>4 DEF Queue
<1> QED BY <1>3, <1>4, <1>6, <1>7, <1>8, <1>11, <1>12, <1>13, <1>14, StepOnStack

\* coro_init copies the static variables: they are still the ones of its own
\* coro_create.
LEMMA InitCopyStep ==
  ASSUME IInv, OneSpawner, NEW t \in Thread, init_func(t) \/ init_arg(t)
  PROVE  IInv'
<1> DEFINE s == pos[t]
<1>0. TypeOK /\ Local(t) /\ Doing(t) /\ Queue(t) /\ s \in Stack
  BY OnStack DEF IInv, Locals, Local
<1>1. pc[s] \in {"init", "init_arg"}
  BY DEF init_func, init_arg, At, Here
<1>2. Initing(t)
  BY <1>0, <1>1, InitAt
<1>3. PICK p \in Stack : InitFor(t, p)
  BY <1>2 DEF Initing
<1>4. /\ s \in Coro \ ready[t] /\ p # s /\ t \in Spawner /\ CallerStack(t, p) /\ s # t
      /\ statics.func = job[s] /\ statics.arg = job[s] /\ job[s] \in Nat
  BY <1>0, <1>2, <1>3 DEF Initing, InitFor, AllStored, TypeOK
<1>5. UNCHANGED <<statics, pos, saved, job, count, ready, halt>>
  BY DEF init_func, init_arg
<1>6. /\ frame' \in [Stack -> Frame]
      /\ \A x \in Stack : x # s => frame'[x] = frame[x]
      /\ pc'[s] \in {"init_arg", "leave"} /\ pc' = [pc EXCEPT ![s] = pc'[s]]
      /\ frame'[s].func = job[s] /\ (pc'[s] = "leave" => frame'[s].arg = job[s])
  <2>1. /\ frame[s] \in Frame /\ [frame[s] EXCEPT !.func = job[s]] \in Frame
        /\ [frame[s] EXCEPT !.arg = job[s]] \in Frame
    BY <1>0, <1>4, FrameField DEF TypeOK
  <2>2. CASE init_func(t)
    <3>1. frame' = [frame EXCEPT ![s].func = job[s]] /\ pc' = [pc EXCEPT ![s] = "init_arg"]
      BY <1>4, <2>2 DEF init_func, Goto, Here
    <3>2. frame'[s].func = job[s]
      BY <1>0, <3>1 DEF TypeOK, Frame
    <3> QED BY <1>0, <2>1, <3>1, <3>2 DEF TypeOK
  <2>3. CASE init_arg(t)
    <3>1. frame' = [frame EXCEPT ![s].arg = job[s]] /\ pc' = [pc EXCEPT ![s] = "leave"]
          /\ pc[s] = "init_arg"
      BY <1>4, <2>3 DEF init_arg, Goto, Here, At
    <3>2. frame'[s].arg = job[s] /\ frame'[s].func = frame[s].func
      BY <1>0, <3>1 DEF TypeOK, Frame
    <3>3. frame[s].func = job[s]
      BY <1>4, <3>1 DEF IInv, Copies, Copied
    <3> QED BY <1>0, <2>1, <3>1, <3>2, <3>3 DEF TypeOK
  <2> QED BY <2>2, <2>3
<1>7. TypeOK'
  BY <1>0, <1>5, <1>6 DEF TypeOK, Label
<1>8. \A x \in Stack : x # s => pc'[x] = pc[x]
  BY <1>0, <1>6 DEF TypeOK
<1>9. CallerStack(t, p)'
  BY <1>4, <1>5, <1>8 DEF CallerStack, Home, Point, Stack
<1>10. InitFor(t, p)'
  BY <1>3, <1>4, <1>5, <1>6, <1>8, <1>9 DEF InitFor, AllStored, Point
<1>11. Doing(t)'
  BY <1>4, <1>5, <1>10 DEF Doing, Initing
<1>12. Held(t)' = Held(t)
  BY <1>1, <1>5, <1>6 DEF Held, Holds
<1>13. \A c \in Coro : c = s => Copied(c)'
  BY <1>5, <1>6 DEF Copied
<1>14. \A c \in ready'[t] : c # s => Waiting(c)
  BY <1>0, <1>5 DEF Queue
<1> QED BY <1>4, <1>5, <1>6, <1>7, <1>8, <1>11, <1>12, <1>13, <1>14, StepOnStack

\* coro_init switches back.
LEMMA InitTransferStep ==
  ASSUME IInv, OneSpawner, NEW t \in Thread, init_transfer(t)
  PROVE  IInv'
<1> DEFINE s == pos[t]
<1>0. TypeOK /\ Local(t) /\ Doing(t) /\ Queue(t) /\ s \in Stack
  BY OnStack DEF IInv, Locals, Local
<1>1. pc[s] = "leave"
  BY DEF init_transfer, At, Here
<1>2. Initing(t)
  BY <1>0, <1>1, InitAt
<1>3. PICK p \in Stack : InitFor(t, p)
  BY <1>2 DEF Initing
<1>4. /\ s \in Coro \ ready[t] /\ p # s /\ t \in Spawner /\ CallerStack(t, p) /\ s # t
      /\ statics.new = <<s, "ctx">> /\ statics.create = <<p, "nctx">>
  BY <1>2, <1>3 DEF Initing, InitFor, AllStored
<1>5. /\ Transfer(t, <<s, "ctx">>, <<p, "nctx">>, "start")
      /\ UNCHANGED <<statics, pos, saved, job, count, ready, halt>>
  BY <1>4 DEF init_transfer
<1>6. <<s, "ctx">> \in Context /\ <<p, "nctx">> \in Context /\ "start" \in Label
  BY <1>0 DEF Context, Label
<1>7. /\ pc' = [pc EXCEPT ![s] = "save"] /\ pc' \in [Stack -> Label]
      /\ frame' \in [Stack -> Frame]
      /\ \A x \in Stack : x # s => frame'[x] = frame[x]
      /\ frame'[s].prev = <<s, "ctx">> /\ frame'[s].next = <<p, "nctx">>
      /\ frame'[s].then = "start"
      /\ frame'[s].func = frame[s].func /\ frame'[s].arg = frame[s].arg
  BY <1>0, <1>5, <1>6, TransferEffect
<1>8. TypeOK'
  BY <1>0, <1>5, <1>7 DEF TypeOK
<1>9. pc'[s] = "save" /\ \A x \in Stack : x # s => pc'[x] = pc[x]
  BY <1>0, <1>7 DEF TypeOK
<1>10. CallerStack(t, p)'
  BY <1>4, <1>5, <1>9 DEF CallerStack, Home, Point, Stack
<1>11. InitFor(t, p)'
  BY <1>3, <1>4, <1>5, <1>7, <1>9, <1>10 DEF InitFor, AllStored, Flying, Point
<1>12. Doing(t)'
  BY <1>4, <1>5, <1>11 DEF Doing, Initing
<1>13. Held(t)' = Held(t)
  BY <1>1, <1>4, <1>5, <1>7, <1>9 DEF Held, Holds
<1>14. \A c \in Coro : c = s => Copied(c)'
  <2>1. \A c \in Coro : Copied(c)
    BY DEF IInv, Copies
  <2> QED BY <1>1, <1>5, <1>7, <1>9, <2>1 DEF Copied
<1>15. \A c \in ready'[t] : c # s => Waiting(c)
  BY <1>0, <1>5 DEF Queue
<1> QED BY <1>4, <1>5, <1>7, <1>8, <1>9, <1>12, <1>13, <1>14, <1>15, StepOnStack

\* coro_create returns and the new coroutine is queued: it can be switched to.
LEMMA CreateReturnStep ==
  ASSUME IInv, OneSpawner, NEW t \in Thread, create_return(t)
  PROVE  IInv'
<1> DEFINE s == pos[t]
           n == frame[s].new
<1>0. TypeOK /\ Local(t) /\ Doing(t) /\ Queue(t) /\ s \in Stack
  BY OnStack DEF IInv, Locals, Local
<1>1. pc[s] = "created"
  BY DEF create_return, At, Here
<1>2. Making(t) /\ Returning(t)
  <2>1. Making(t)
    BY <1>0, <1>1, MakerAt
  <2> QED BY <1>1, <2>1 DEF Making, Storing, Entering, Flying
<1>3. n \in Coro \ ready[t] /\ n # s /\ t \in Spawner /\ CallerStack(t, s) /\ Waiting(n)
  BY <1>2 DEF Making, Returning, Waiting
<1>4. /\ ready' = [ready EXCEPT ![t] = @ \cup {n}] /\ pc' = [pc EXCEPT ![s] = "run"]
      /\ UNCHANGED <<statics, pos, frame, saved, job, count, halt>>
  BY DEF create_return, Goto, Here
<1>5. TypeOK' /\ ready'[t] = ready[t] \cup {n}
  BY <1>0, <1>3, <1>4 DEF TypeOK, Label
<1>6. pc'[s] = "run" /\ \A x \in Stack : x # s => pc'[x] = pc[x]
  BY <1>0, <1>4 DEF TypeOK
<1>7. Doing(t)'
  <2>1. CASE s = t
    BY <1>4, <1>6, <2>1 DEF Doing, Scheduling
  <2>2. CASE s # t
    <3>1. s \in Coro \ ready[t] /\ Home(t)
      BY <1>3, <2>2 DEF CallerStack
    <3>2. Home(t)'
      BY <1>4, <1>6, <2>2, <3>1 DEF Home, Point, Stack
    <3> QED BY <1>3, <1>4, <1>5, <1>6, <3>1, <3>2 DEF Doing, Running
  <2> QED BY <2>1, <2>2
<1>8. Held(t)' = Held(t)
  BY <1>1, <1>4, <1>5, <1>6 DEF Held, Holds
<1>9. \A c \in Coro : c = s => Copied(c)'
  <2>1. \A c \in Coro : Copied(c)
    BY DEF IInv, Copies
  <2> QED BY <1>1, <1>4, <1>6, <2>1 DEF Copied
<1>10. \A c \in ready'[t] : c # s => Waiting(c)
  BY <1>0, <1>3, <1>5 DEF Queue
<1>11. \A u \in Thread \ {t} : ready'[u] = ready[u]
  BY <1>0, <1>4 DEF TypeOK
<1> QED BY <1>3, <1>4, <1>5, <1>6, <1>7, <1>8, <1>9, <1>10, <1>11, StepOnStack

\* The function of the coroutine is called.
LEMMA InitStartStep ==
  ASSUME IInv, OneSpawner, NEW t \in Thread, init_start(t)
  PROVE  IInv'
<1> DEFINE s == pos[t]
<1>0. TypeOK /\ Local(t) /\ Doing(t) /\ Queue(t) /\ s \in Stack
  BY OnStack DEF IInv, Locals, Local
<1>1. pc[s] = "start"
  BY DEF init_start, At, Here
<1>2. Running(t)
  BY <1>0, <1>1 DEF Doing, Scheduling, Switching, Yielding, Making, Initing, InitFor, Storing,
                    Entering, Returning, Flying
<1>3. /\ pc' = [pc EXCEPT ![s] = "run"]
      /\ UNCHANGED <<statics, pos, frame, saved, job, count, ready, halt>>
  BY DEF init_start, Goto, Here
<1>4. TypeOK'
  BY <1>0, <1>3 DEF TypeOK, Label
<1>5. pc'[s] = "run" /\ \A x \in Stack : x # s => pc'[x] = pc[x]
  BY <1>0, <1>3 DEF TypeOK
<1>6. Doing(t)'
  BY <1>2, <1>3, <1>5 DEF Doing, Running, Home, Point, Stack
<1>7. Held(t)' = Held(t)
  BY <1>1, <1>3, <1>5 DEF Held, Holds
<1>8. \A c \in Coro : c = s => Copied(c)'
  <2>1. \A c \in Coro : Copied(c)
    BY DEF IInv, Copies
  <2> QED BY <1>1, <1>3, <1>5, <2>1 DEF Copied
<1>9. \A c \in ready'[t] : c # s => Waiting(c)
  BY <1>0, <1>3 DEF Queue
<1> QED BY <1>3, <1>4, <1>5, <1>6, <1>7, <1>8, <1>9, StepOnStack
-----------------------------------------------------------------------------
(***************************************************************************)
(* The schedulers and the program.                                         *)
(***************************************************************************)
\* The scheduler switches to a coroutine of its queue.
LEMMA SchedSwitchStep ==
  ASSUME IInv, OneSpawner, NEW t \in Thread, NEW c \in Coro, sched_switch(t, c)
  PROVE  IInv'
<1>0. TypeOK /\ Local(t) /\ Queue(t) /\ t \in Stack
  BY DEF IInv, Locals, Local, Stack
<1>1. pos[t] = t /\ pc[t] = "run" /\ c \in ready[t] /\ c # t /\ c \in Stack
  BY DEF sched_switch, InScheduler, At, Here, Stack
<1>2. /\ ready' = [ready EXCEPT ![t] = @ \ {c}]
      /\ Transfer(t, <<t, "ctx">>, <<c, "ctx">>, "run")
      /\ UNCHANGED <<statics, pos, saved, job, count, halt>>
  BY DEF sched_switch
<1>3. <<t, "ctx">> \in Context /\ <<c, "ctx">> \in Context /\ "run" \in Label
  BY <1>0, <1>1 DEF Context, Label
<1>4. /\ pc' = [pc EXCEPT ![t] = "save"] /\ pc' \in [Stack -> Label]
      /\ frame' \in [Stack -> Frame]
      /\ \A x \in Stack : x # t => frame'[x] = frame[x]
      /\ frame'[t].prev = <<t, "ctx">> /\ frame'[t].next = <<c, "ctx">>
      /\ frame'[t].then = "run"
  BY <1>0, <1>1, <1>2, <1>3, TransferEffect
<1>5. /\ TypeOK' /\ ready'[t] = ready[t] \ {c}
      /\ \A u \in Thread \ {t} : ready'[u] = ready[u]
  BY <1>0, <1>2, <1>4 DEF TypeOK
<1>6. pc'[t] = "save" /\ \A x \in Stack : x # t => pc'[x] = pc[x]
  BY <1>0, <1>4 DEF TypeOK
<1>7. Waiting(c) /\ Waiting(c)'
  <2>1. Waiting(c)
    BY <1>0, <1>1 DEF Queue
  <2> QED BY <1>1, <1>2, <1>6, <2>1 DEF Waiting, Point
<1>8. Doing(t)'
  <2>1. Flying(t, <<t, "ctx">>, <<c, "ctx">>, "run")'
    BY <1>4, <1>6 DEF Flying
  <2>2. Switching(t)'
    BY <1>1, <1>2, <1>5, <1>7, <2>1 DEF Switching
  <2> QED BY <2>2 DEF Doing
<1>9. Held(t)' = Held(t)
  BY <1>1, <1>2, <1>4, <1>5, <1>6 DEF Held, Holds
<1>10. \A x \in ready'[t] : x # pos[t] => Waiting(x)
  BY <1>0, <1>5 DEF Queue
<1> QED BY <1>1, <1>2, <1>4, <1>5, <1>6, <1>8, <1>9, <1>10, StepOnStack

\* A coroutine that has put itself into the queue switches to another one of
\* the queue, past the scheduler.
LEMMA RunOnceStep ==
  ASSUME IInv, OneSpawner, NEW t \in Thread, NEW c \in Coro, sched_run_once(t, c)
  PROVE  IInv'
<1> DEFINE s == pos[t]
<1>0. TypeOK /\ Local(t) /\ Doing(t) /\ Queue(t) /\ s \in Stack /\ ready[t] \subseteq Coro
  BY OnStack DEF IInv, Locals, Local, TypeOK
<1>1. s \in Coro /\ pc[s] = "run" /\ s # t /\ c \in ready[t] /\ c \in Stack
  BY DEF sched_run_once, InCoroutine, At, Here, Stack
<1>2. Running(t)
  BY <1>0, <1>1 DEF Doing, Scheduling, Switching, Yielding, Making, Initing, InitFor, Storing,
                    Entering, Returning, Flying
<1>3. c # s /\ s \notin ready[t] /\ Home(t)
  BY <1>1, <1>2 DEF Running
<1>4. /\ ready' = [ready EXCEPT ![t] = (@ \ {c}) \cup {s}]
      /\ Transfer(t, <<s, "ctx">>, <<c, "ctx">>, "run")
      /\ UNCHANGED <<statics, pos, saved, job, count, halt>>
  BY DEF sched_run_once, Here
<1>5. <<s, "ctx">> \in Context /\ <<c, "ctx">> \in Context /\ "run" \in Label
  BY <1>0, <1>1 DEF Context, Label
<1>6. /\ pc' = [pc EXCEPT ![s] = "save"] /\ pc' \in [Stack -> Label]
      /\ frame' \in [Stack -> Frame]
      /\ \A x \in Stack : x # s => frame'[x] = frame[x]
      /\ frame'[s].prev = <<s, "ctx">> /\ frame'[s].next = <<c, "ctx">>
      /\ frame'[s].then = "run"
      /\ frame'[s].func = frame[s].func /\ frame'[s].arg = frame[s].arg
  BY <1>0, <1>4, <1>5, TransferEffect
<1>7. /\ TypeOK' /\ ready'[t] = (ready[t] \ {c}) \cup {s}
      /\ \A u \in Thread \ {t} : ready'[u] = ready[u]
  BY <1>0, <1>1, <1>4, <1>6 DEF TypeOK
<1>8. pc'[s] = "save" /\ \A x \in Stack : x # s => pc'[x] = pc[x]
  BY <1>0, <1>6 DEF TypeOK
<1>9. Waiting(c) /\ Waiting(c)'
  <2>1. Waiting(c)
    BY <1>0, <1>1, <1>3 DEF Queue
  <2> QED BY <1>1, <1>3, <1>4, <1>8, <2>1 DEF Waiting, Point
<1>10. Home(t)'
  BY <1>1, <1>3, <1>4, <1>8 DEF Home, Point, Stack
<1>11. Doing(t)'
  <2>1. Flying(s, <<s, "ctx">>, <<c, "ctx">>, "run")'
    BY <1>4, <1>6, <1>8 DEF Flying
  <2>2. Switching(t)'
    BY <1>1, <1>3, <1>4, <1>7, <1>9, <1>10, <2>1 DEF Switching
  <2> QED BY <2>2 DEF Doing
<1>12. Held(t)' = Held(t)
  <2>1. \A d \in Coro : Holds(t, d) <=> d \in {s} \cup ready[t]
    BY <1>1 DEF Holds
  <2>2. \A d \in Coro : Holds(t, d)' <=> d \in {s, c} \cup ready'[t]
    BY <1>4, <1>6, <1>8 DEF Holds
  <2>3. {s} \cup ready[t] = {s, c} \cup ready'[t]
    BY <1>1, <1>7
  <2> QED BY <2>1, <2>2, <2>3 DEF Held
<1>13. \A x \in Coro : x = s => Copied(x)'
  <2>1. \A x \in Coro : Copied(x)
    BY DEF IInv, Copies
  <2> QED BY <1>1, <1>4, <1>6, <1>8, <2>1 DEF Copied
<1>14. \A x \in ready'[t] : x # pos[t] => Waiting(x)
  BY <1>0, <1>7 DEF Queue
<1> QED BY <1>4, <1>6, <1>7, <1>8, <1>11, <1>12, <1>13, <1>14, StepOnStack

\* A coroutine leaves for the scheduler of its thread: coro_yield, coro_exit
\* and coro_switch.
LEMMA LeaveStep ==
  ASSUME IInv, OneSpawner, NEW t \in Thread, InCoroutine(t), NEW lab \in {"run", "exit"},
         Transfer(t, <<Here(t), "ctx">>, <<t, "ctx">>, lab),
         UNCHANGED <<statics, pos, saved, job, count, halt>>,
         \/ ready' = ready
         \/ ready' = [ready EXCEPT ![t] = @ \cup {Here(t)}] /\ lab = "run"
  PROVE  IInv'
<1> DEFINE s == pos[t]
<1>0. TypeOK /\ Local(t) /\ Doing(t) /\ Queue(t) /\ s \in Stack /\ ready[t] \subseteq Coro
  BY OnStack DEF IInv, Locals, Local, TypeOK
<1>1. s \in Coro /\ pc[s] = "run" /\ s # t
  BY DEF InCoroutine, At, Here
<1>2. Running(t)
  BY <1>0, <1>1 DEF Doing, Scheduling, Switching, Yielding, Making, Initing, InitFor, Storing,
                    Entering, Returning, Flying
<1>3. <<s, "ctx">> \in Context /\ <<t, "ctx">> \in Context /\ lab \in Label
  BY <1>0 DEF Context, Label, Stack
<1>4. /\ pc' = [pc EXCEPT ![s] = "save"] /\ pc' \in [Stack -> Label]
      /\ frame' \in [Stack -> Frame]
      /\ \A x \in Stack : x # s => frame'[x] = frame[x]
      /\ frame'[s].prev = <<s, "ctx">> /\ frame'[s].next = <<t, "ctx">>
      /\ frame'[s].then = lab
      /\ frame'[s].func = frame[s].func /\ frame'[s].arg = frame[s].arg
  BY <1>0, <1>3, TransferEffect DEF Here
<1>5. /\ TypeOK'
      /\ ready'[t] = ready[t] \/ (ready'[t] = ready[t] \cup {s} /\ lab = "run")
      /\ \A u \in Thread \ {t} : ready'[u] = ready[u]
  BY <1>0, <1>1, <1>4 DEF TypeOK, Here
<1>6. pc'[s] = "save" /\ \A x \in Stack : x # s => pc'[x] = pc[x]
  BY <1>0, <1>4 DEF TypeOK
<1>7. Home(t)'
  BY <1>1, <1>2, <1>6 DEF Running, Home, Point, Stack
<1>8. Doing(t)'
  <2>1. Flying(s, <<s, "ctx">>, <<t, "ctx">>, lab)'
    BY <1>4, <1>6 DEF Flying
  <2>2. pos'[t] = s /\ (s \in ready'[t] => lab = "run")
    BY <1>2, <1>5 DEF Running
  <2>3. Yielding(t)'
    BY <1>1, <1>7, <2>1, <2>2 DEF Yielding
  <2> QED BY <2>3 DEF Doing
<1>9. Held(t)' = Held(t)
  BY <1>1, <1>4, <1>5, <1>6 DEF Held, Holds
<1>10. \A c \in Coro : c = s => Copied(c)'
  <2>1. \A c \in Coro : Copied(c)
    BY DEF IInv, Copies
  <2> QED BY <1>1, <1>4, <1>6, <2>1 DEF Copied
<1>11. \A x \in ready'[t] : x # pos[t] => Waiting(x)
  BY <1>0, <1>5 DEF Queue
<1> QED BY <1>4, <1>5, <1>6, <1>8, <1>9, <1>10, <1>11, StepOnStack

\* The master scheduler frees a coroutine that has exited: nobody holds it.
LEMMA DeallocStep ==
  ASSUME IInv, OneSpawner, NEW t \in Thread, NEW c \in Coro, coro_dealloc(t, c)
  PROVE  IInv'
<1>0. TypeOK /\ Local(t) /\ Doing(t)
  BY DEF IInv, Locals, Local
<1>1. pc[c] = "exit" /\ c \in Stack /\ c # t
  BY DEF coro_dealloc, Stack
<1>2. /\ pc' = [pc EXCEPT ![c] = "none"]
      /\ UNCHANGED <<statics, pos, frame, saved, job, count, ready, halt>>
  BY DEF coro_dealloc
<1>3. TypeOK' /\ pc'[c] = "none" /\ \A x \in Stack : x # c => Keeps(x)
  BY <1>0, <1>1, <1>2 DEF TypeOK, Label, Keeps
<1>4. \A u \in Thread : c \notin Held(u)
  BY <1>0, <1>1, HeldLabels DEF IInv, Locals
<1>5. \A x \in {t} \cup Held(t) : Keeps(x)
  BY <1>1, <1>3, <1>4 DEF Held, Stack
<1>6. Local(t)'
  BY <1>0, <1>2, <1>5, LocalFrame
<1>7. Held(t)' = Held(t)
  BY <1>0, <1>2, <1>5, HeldFrame, OnStack
<1>8. Copied(c)' /\ AtRest(c)'
  BY <1>3 DEF Copied, AtRest
<1>9. \A x \in Held(t) : Copied(x)'
  BY <1>5 DEF IInv, Copies, Copied, Keeps, Held
<1> DEFINE C == {c}
<1>10. C \in SUBSET Coro /\ \A u \in Thread : Held(u) \cap C = {}
  BY <1>4
<1>11. \A x \in Stack \ ({t} \cup Held(t) \cup C) : Keeps(x)
  BY <1>3
<1> QED BY <1>2, <1>3, <1>6, <1>7, <1>8, <1>9, <1>10, <1>11, StepOfThread

\* A coroutine that waits and that nobody holds can be put into a queue.
LEMMA QueueGrows ==
  ASSUME TypeOK, NEW t \in Thread, Local(t), NEW c \in Coro, c \notin Held(t), Waiting(c),
         ready'[t] = ready[t] \cup {c},
         UNCHANGED <<statics, pos, pc, frame, saved, job>>
  PROVE  Local(t)' /\ Held(t)' = Held(t) \cup {c}
<1> DEFINE s == pos[t]
<1>0. Doing(t) /\ Queue(t) /\ ~Holds(t, c)
  BY DEF Local, Held
<1>1. Held(t)' = Held(t) \cup {c}
  BY DEF Held, Holds
<1>2. Queue(t)'
  BY <1>0 DEF Queue, Waiting, Point
<1>3. Home(t) => Home(t)'
  BY DEF Home, Point
<1>4. \A x, prev, next, then : Flying(x, prev, next, then) => Flying(x, prev, next, then)'
  BY DEF Flying, Point
<1> SUFFICES Doing(t)'
  BY <1>1, <1>2 DEF Local
<1>5. CASE Scheduling(t)
  BY <1>5 DEF Doing, Scheduling
<1>6. CASE Switching(t)
  <2>1. PICK d \in Coro \ (ready[t] \cup {s}) :
          Waiting(d) /\ Flying(s, <<s, "ctx">>, <<d, "ctx">>, "run")
    BY <1>6 DEF Switching
  <2>2. d # c
    BY <1>0, <2>1 DEF Holds, Flying
  <2>3. Waiting(d)' /\ Flying(s, <<s, "ctx">>, <<d, "ctx">>, "run")'
    BY <1>4, <2>1 DEF Waiting, Point
  <2> QED BY <1>3, <1>6, <2>1, <2>2, <2>3 DEF Doing, Switching
<1>7. CASE Running(t)
  BY <1>0, <1>3, <1>7 DEF Doing, Running, Holds
<1>8. CASE Yielding(t)
  <2>1. PICK lab \in {"run", "exit"} :
          /\ Flying(s, <<s, "ctx">>, <<t, "ctx">>, lab)
          /\ s \in ready[t] => lab = "run"
    BY <1>8 DEF Yielding
  <2>2. Flying(s, <<s, "ctx">>, <<t, "ctx">>, lab)' /\ s # c
    BY <1>0, <1>4, <2>1 DEF Holds
  <2>3. pos'[t] = s /\ (s \in ready'[t] => lab = "run") /\ s \in Coro
    BY <1>8, <2>1, <2>2 DEF Yielding
  <2>4. Yielding(t)'
    BY <1>3, <1>8, <2>2, <2>3 DEF Yielding
  <2> QED BY <2>4 DEF Doing
<1>9. CASE Making(t)
  <2>1. frame[s].new # c /\ s # c
    BY <1>0, <1>9 DEF Making, Storing, Entering, Returning, Flying, Holds
  <2>2. CallerStack(t, s)'
    BY <1>3, <1>9, <2>1 DEF Making, CallerStack
  <2>3. (Storing(t) => Storing(t)') /\ (Returning(t) => Returning(t)')
    BY DEF Storing, Stored, Returning, Point
  <2>4. Entering(t) => Entering(t)'
    BY <1>4 DEF Entering, AllStored, Point
  <2> QED BY <1>9, <2>1, <2>2, <2>3, <2>4 DEF Doing, Making
<1>10. CASE Initing(t)
  <2>1. PICK p \in Stack : InitFor(t, p)
    BY <1>10 DEF Initing
  <2>2. p # c /\ s # c
    BY <1>0, <2>1 DEF InitFor, AllStored, Flying, Holds
  <2>3. CallerStack(t, p)'
    BY <1>3, <2>1, <2>2 DEF InitFor, CallerStack
  <2>4. InitFor(t, p)'
    BY <1>4, <2>1, <2>3 DEF InitFor, AllStored, Point
  <2> QED BY <1>10, <2>2, <2>4 DEF Doing, Initing
<1> QED BY <1>0, <1>5, <1>6, <1>7, <1>8, <1>9, <1>10 DEF Doing
\* coro_ready finds a suspended coroutine, which no thread is about to run.
LEMMA ReadyStep ==
  ASSUME IInv, OneSpawner, NEW t \in Thread, NEW c \in Coro, coro_ready(t, c)
  PROVE  IInv'
<1>0. TypeOK /\ Local(t) /\ Doing(t)
  BY DEF IInv, Locals, Local
<1>1. \A u \in Thread : c \notin Held(u)
  <2>1. pc[c] = "run" /\ Suspended(c)
    BY DEF coro_ready, Suspended
  <2> QED BY <1>0, <2>1, HeldLabels DEF IInv, Locals, Suspended, Here
<1>2. Waiting(c)
  <2>1. pc[c] = "run" /\ AtRest(c)
    BY <1>1 DEF IInv, Rest, coro_ready, Suspended
  <2> QED BY <2>1 DEF AtRest
<1>3. /\ ready' = [ready EXCEPT ![t] = @ \cup {c}]
      /\ UNCHANGED <<statics, pos, pc, frame, saved, job, count, halt>>
  BY DEF coro_ready
<1>4. /\ TypeOK' /\ ready'[t] = ready[t] \cup {c}
      /\ \A u \in Thread \ {t} : pos'[u] = pos[u] /\ ready'[u] = ready[u]
  BY <1>0, <1>3 DEF TypeOK
<1>5. Local(t)' /\ Held(t)' = Held(t) \cup {c}
  BY <1>0, <1>1, <1>2, <1>3, <1>4, QueueGrows
<1>6. \A x \in Stack : Keeps(x)
  BY <1>3 DEF Keeps
<1>7. \A x \in Coro : Copied(x)'
  BY <1>3 DEF IInv, Copies, Copied
<1> DEFINE C == {c}
<1>8. C \in SUBSET Coro /\ \A u \in Thread : Held(u) \cap C = {}
  BY <1>1
<1>9. Held(t) \cup C \subseteq Coro
  BY DEF Held
<1> QED BY <1>3, <1>4, <1>5, <1>6, <1>7, <1>8, <1>9, StepOfThread

\* The master scheduler hands a coroutine of its queue over, or drops it.
LEMMA SentParallelStep ==
  ASSUME IInv, OneSpawner, NEW u \in Thread, NEW c \in Coro, coro_sent_parallel(u, c)
  PROVE  IInv'
<1>0. TypeOK /\ Local(Main) /\ Queue(Main) /\ Main \in Thread
  BY DEF IInv, Locals, Local
<1>1. pos[Main] = Main /\ pc[Main] = "run" /\ c \in ready[Main] /\ u # Main
  BY DEF coro_sent_parallel, InScheduler, At, Here
<1>2. UNCHANGED <<statics, pos, pc, frame, saved, job, count, halt>>
  BY DEF coro_sent_parallel
<1>3. /\ TypeOK' /\ ready'[Main] = ready[Main] \ {c}
      /\ ready'[u] = ready[u] \/ ready'[u] = ready[u] \cup {c}
      /\ \A v \in Thread \ {Main, u} : ready'[v] = ready[v]
  BY <1>0, <1>1, <1>2 DEF coro_sent_parallel, TypeOK
<1>4. Held(Main) = ready[Main] /\ Held(Main)' = ready[Main] \ {c}
  <2>1. ready[Main] \subseteq Coro
    BY <1>0 DEF TypeOK
  <2> QED BY <1>1, <1>2, <1>3, <2>1 DEF Held, Holds
<1>5. Local(Main)'
  <2>1. Scheduling(Main)'
    BY <1>1, <1>2 DEF Scheduling
  <2>2. Queue(Main)'
    BY <1>0, <1>1, <1>2, <1>3 DEF Queue, Waiting, Point
  <2> QED BY <2>1, <2>2 DEF Local, Doing
<1>6. Waiting(c) /\ Waiting(c)'
  <2>1. Waiting(c)
    BY <1>0, <1>1 DEF Queue
  <2> QED BY <1>2, <2>1 DEF Waiting, Point
<1>7. \A x \in Stack : Keeps(x)
  BY <1>2 DEF Keeps
<1>8. \A x \in Coro : Copied(x)'
  BY <1>2 DEF IInv, Copies, Copied
<1>9. ASSUME NEW v \in Thread, ready'[v] = ready[v]
      PROVE  Local(v)' /\ Held(v)' = Held(v)
  <2>1. Local(v) /\ Doing(v) /\ pos[v] \in Stack
    BY <1>0, OnStack DEF IInv, Locals, Local
  <2>2. \A x \in {v} \cup Held(v) : Keeps(x)
    BY <1>7 DEF Held, Stack
  <2> QED BY <1>0, <1>2, <1>7, <1>9, <2>1, <2>2, LocalFrame, HeldFrame
<1>10. CASE ready'[u] = ready[u]
  <2>1. \A v \in Thread \ {Main} : pos'[v] = pos[v] /\ ready'[v] = ready[v]
    BY <1>2, <1>3, <1>10
  <2>2. AtRest(c)'
    BY <1>6 DEF AtRest
  <2>3. \A x \in Held(Main) : Copied(x)' /\ (x \in Held(Main)' \/ AtRest(x)')
    BY <1>4, <1>8, <2>2 DEF Held
  <2> QED BY <1>0, <1>2, <1>3, <1>4, <1>5, <1>7, <2>1, <2>3, StepOfThread
<1>11. CASE ready'[u] = ready[u] \cup {c}
  <2>1. Local(u) /\ c \notin Held(u)
    BY <1>0, <1>1, <1>4 DEF IInv, Locals, Disjoint
  <2>2. Local(u)' /\ Held(u)' = Held(u) \cup {c}
    BY <1>0, <1>2, <1>6, <1>11, <2>1, QueueGrows
  <2>3. \A v \in Thread \ {Main, u} : Local(v)' /\ Held(v)' = Held(v)
    BY <1>3, <1>9
  <2>4. Locals'
    BY <1>5, <2>2, <2>3 DEF Locals
  <2>5. Disjoint /\ Rest
    BY DEF IInv
  <2>6. Disjoint'
    <3>1. \A v \in Thread : /\ c \in Held(v)' => v = u
                            /\ \A x \in Held(v)' : x # c => x \in Held(v)
      <4>1. \A v \in Thread \ {Main} : c \notin Held(v)
        BY <1>0, <1>1, <1>4, <2>5 DEF Disjoint
      <4> QED BY <1>0, <1>4, <2>2, <2>3, <4>1
    <3>2. \A v, w \in Thread : v # w => Held(v)' \cap Held(w)' = {}
      BY <2>5, <3>1 DEF Disjoint
    <3> QED BY <3>2 DEF Disjoint
  <2>7. Rest'
    <3>1. ASSUME NEW x \in Coro, \A v \in Thread : x \notin Held(v)' PROVE AtRest(x)'
      <4>1. x # c
        BY <2>2, <3>1
      <4>2. \A v \in Thread : x \notin Held(v)
        BY <1>0, <1>4, <2>2, <2>3, <3>1, <4>1
      <4>3. AtRest(x)
        BY <2>5, <4>2 DEF Rest
      <4> QED BY <1>2, <4>3 DEF AtRest, Waiting, Point
    <3> QED BY <3>1 DEF Rest
  <2> QED BY <1>3, <1>8, <2>4, <2>6, <2>7 DEF IInv, Copies
<1> QED BY <1>3, <1>10, <1>11

-----------------------------------------------------------------------------
\* A step that changes only halt, or nothing.
LEMMA StutterStep ==
  ASSUME IInv, UNCHANGED <<statics, pos, pc, frame, saved, job, count, ready>>,
         halt' \in {halt, "abort"}
  PROVE  IInv'
<1>1. TypeOK'
  BY DEF IInv, TypeOK
<1>2. (\A t : Held(t)' = Held(t)) /\ (\A c : Waiting(c)' = Waiting(c))
  BY DEF Held, Holds, Waiting, Point
<1>3. Disjoint' /\ Rest' /\ Copies'
  BY <1>2 DEF IInv, Disjoint, Rest, AtRest, Copies, Copied
<1>4. \A s : Keeps(s)
  BY DEF Keeps
<1>5. Locals'
  BY <1>4, LocalFrame DEF IInv, Locals
<1> QED BY <1>1, <1>3, <1>5 DEF IInv

\* Nothing is queued, held or made at the start.
LEMMA InitInv == Init => IInv
<1> SUFFICES ASSUME Init PROVE IInv
  OBVIOUS
<1>1. TypeOK
  <2>1. /\ statics \in [func : Nat \cup {NULL}, arg : Nat \cup {NULL},
                       new : Context \cup {NULL}, create : Context \cup {NULL}]
        /\ pos \in [Thread -> Stack] /\ job \in [Coro -> Nat] /\ count \in Nat
        /\ ready \in [Thread -> SUBSET Coro] /\ halt \in {NULL, "abort"}
        /\ saved \in [Context -> [stack : Stack, at : Label] \cup {NULL}]
    BY DEF Init, Stack
  <2>2. pc \in [Stack -> Label]
    BY DEF Init, Label
  <2>3. frame \in [Stack -> Frame]
    BY DEF Init, Frame
  <2> QED BY <2>1, <2>2, <2>3 DEF TypeOK
<1>2. \A t \in Thread : pos[t] = t /\ pc[t] = "run" /\ ready[t] = {}
  BY DEF Init, Stack
<1>3. \A c \in Coro : pc[c] = "none"
  BY DEF Init, Stack
<1>4. \A t \in Thread : Held(t) = {} /\ Local(t)
  BY <1>2 DEF Held, Holds, Local, Doing, Scheduling, Queue
<1> QED BY <1>1, <1>3, <1>4 DEF IInv, Disjoint, Locals, Rest, AtRest, Copies, Copied

\* Every step of every thread keeps the invariant.
LEMMA NextStep ==
  ASSUME IInv, OneSpawner, Next
  PROVE  IInv'
<1>1. PICK t \in Thread : Library(t) \/ Program(t)
  BY DEF Next
<1>2. CASE Library(t)
  BY <1>2, SaveStep, LoadStep, CreateStoreStep, CreatePrepareStep, CreateTransferStep,
     CreateReturnStep, InitCopyStep, InitTransferStep, InitStartStep DEF Library
<1>3. CASE coro_yield(t)
  BY <1>3, LeaveStep DEF coro_yield
<1>4. CASE coro_exit(t)
  BY <1>4, LeaveStep DEF coro_exit
<1>5. CASE coro_switch(t)
  BY <1>5, LeaveStep DEF coro_switch
<1>6. CASE init_abort(t)
  BY <1>6, StutterStep DEF init_abort
<1>7. ASSUME NEW c \in Coro,
             \/ create_call(t, c) \/ sched_switch(t, c)
             \/ sched_run_once(t, c) \/ coro_dealloc(t, c)
      PROVE  IInv'
  BY <1>7, CreateCallStep, SchedSwitchStep, RunOnceStep, DeallocStep
<1>8. ASSUME NEW c \in Coro, coro_ready(t, c) \/ coro_sent_parallel(t, c)
      PROVE  IInv'
  BY <1>8, ReadyStep, SentParallelStep
<1> QED BY <1>1, <1>2, <1>3, <1>4, <1>5, <1>6, <1>7, <1>8 DEF Program

\* The invariant always holds.
LEMMA Invariance ==
  ASSUME OneSpawner
  PROVE  Spec => []IInv
<1>1. IInv /\ UNCHANGED vars => IInv'
  BY StutterStep DEF vars
<1>2. IInv /\ Next => IInv'
  BY NextStep
<1> QED BY InitInv, <1>1, <1>2, PTL DEF Spec

\* However coro_create, coro_transfer and the two schedulers interleave, every
\* function starts on its own stack with its own argument: coro_init has copied
\* the static variables before the spawning thread can write them again.
THEOREM FunctionsAreTheirOwn ==
  ASSUME OneSpawner
  PROVE  Spec => []OwnFunction
<1>1. IInv => OwnFunction
  BY DEF IInv, Copies, Copied, OwnFunction
<1> QED BY Invariance, <1>1, PTL

\* Two threads are never on one stack, no thread ever loads a stack pointer
\* that does not fit what lies on the stack, and every coroutine in a queue
\* can be switched to, the one that has been handed over included.
THEOREM ContextsStaySound ==
  ASSUME OneSpawner
  PROVE  Spec => []ContextsSound
<1>1. IInv => ContextsSound
  <2> SUFFICES ASSUME IInv PROVE ContextsSound
    OBVIOUS
  <2>1. halt # "broken"
    BY DEF IInv, TypeOK
  <2>2. ASSUME NEW t \in Thread, NEW u \in Thread, t # u PROVE pos[t] # pos[u]
    <3>1. /\ pos[t] = t \/ pos[t] \in Held(t)
          /\ pos[u] = u \/ pos[u] \in Held(u)
      BY OnStack DEF IInv, Locals, Local
    <3>2. Held(t) \cap Held(u) = {} /\ Held(t) \subseteq Coro /\ Held(u) \subseteq Coro
      BY <2>2 DEF IInv, Disjoint, Held
    <3> QED BY <2>2, <3>1, <3>2
  <2>3. WaitersSaved
    BY DEF IInv, Locals, Local, Queue, Waiting, Point, WaitersSaved, Here
  <2> QED BY <2>1, <2>2, <2>3 DEF ContextsSound, StacksExclusive
<1> QED BY Invariance, <1>1, PTL
=============================================================================
