# corosched: TLA+ models and proofs

corosched is a small coroutine library in C: a master scheduler that runs
coroutines in FIFO order on the main thread, a parallel scheduler on a second
thread for blocking work, a red-black tree of all coroutines, an epoll event
manager and a logger. This directory holds TLA+ models of its parts, the TLC
configurations that check them and TLAPS proofs of their main properties.
`PROJECT.json` maps every definition to the lines it models.

The models are of the build that `src/src/CMakeLists.txt` describes
(`-DCORO_ASM -DCS_ASSERT_PANIC`): a failed `ASSERT` aborts the process. There are two
exceptions: `CoroPthread` is the back end that `cs_coro.c` has for `-DCORO_PTHREAD`, and
`Stacks` the allocator that `cs_coro.c` offers and the library does not call
(`coro_alloc` takes its stacks from `malloc`).

## 1. The system

| Part | State | Operations | Interacts with |
|---|---|---|---|
| wait queues (`cs_queue.h`, wrappers in `cs_scheduler.c`) | head `{tqh_first, tqh_last}` per scheduler, one entry `ws_tqe` per coroutine | `insert_tail`, `insert_head`, `empty`, `pop` | both schedulers; the parallel queue is used by both threads |
| master scheduler (`cs_scheduler.c`) | `stop`, `current_coro`, the local `c` of `sched_run` | `env_run`, `sched_run`, `sched_run_once`, `env_stop` | coroutines (switches), tree, parallel queue |
| coroutines (`cs_coroutine.c`) | `status`, `sched`, `need_parallel`, the block itself | `coro_spawn`, `coro_ready`, `coro_ready_immediatly`, `coro_yield`, `coro_exit`, `coro_switch_to_parallel`, `coro_sent_parallel`, `coro_switch_to_master` | queues, tree |
| parallel scheduler (`cs_scheduler.c`) | the local `co` of `parallel_run`, `g_mutex` | `parallel_main`, `parallel_run` | parallel queue, schedule-back socket |
| schedule-back adapter | socket pair, `scbd_coro` | `coro_switch_to_master` sends, `scheduleback_run` would receive | parallel and master scheduler |
| registry (`cs_rbtree.c`) | tree, sentinel, nodes inside the coroutines | insert, delete, lookup, min | `coro_spawn`, `sched_run`, `sched_get_coro` |
| event manager (`cs_eventmgr.c`) | `g_eventmgr`, epoll descriptor | `eventmgr_init`, `register_event`, `remove_event`, `event_loop` | master scheduler |
| environment set-up | the globals | `env_init` | everything |
| contexts (`cs_coro.c`) | a stack pointer per coroutine, the static variables of `coro_create`; in the pthread back end a thread, a condition variable and `coro_mutex` | `coro_create`, `coro_transfer`, `coro_destroy` | both threads, the schedulers |
| stacks (`cs_coro.c`) | `sptr` and `ssze` per stack, the mapped pages | `coro_stack_alloc`, `coro_stack_free` | contexts |
| lists (`cs_queue.h`) | heads and entries of SLIST, STAILQ, LIST, TAILQ and CIRCLEQ | the macros that insert, remove, concatenate, swap and loop | none (only TAILQ is used) |
| socket helpers (`cs_util.c`) | descriptor flags, what is left of a message | `_cs_sendn`, `_cs_recvn`, `cs_set_blocking`, `cs_set_nonblocking`, `cs_resolve` | the peer, strings |
| strings (`cs_string.c`) | length and data, blocks on the heap | init, deinit, empty, duplicate, copy, compare, set | `cs_resolve` |
| logger (`cs_log.c`, `_vscnprintf`) | level, descriptor, error count; a buffer per call | init, deinit, reopen, levels, `_log`, `_log_stderr`, `_log_hexdump` | the process's descriptors |

What is hard here: two threads share one mutex, one queue and the entry of a
coroutine in transit, with `trylock`s that may fail; `sched_run` uses a local
variable after a switch during which other coroutines may have run
(`sched_run_once`); the queues are intrusive and unchecked; deletion in the
tree; allocations that fail half-way through `env_init`; a descriptor number
that outlives its file; static variables and stack frames through which a new
coroutine gets its arguments; waits without a predicate; transfers that move
part of a message. `PROJECT.json` lists these hazards line by line.

What makes the parts correct: a queue holds what was put into it; a coroutine
has one owner; nothing freed is reachable; the registry equals the set of
allocated coroutines; waiting coroutines run, in FIFO order; a stack carries one
flow of control, the one it was made for; a message arrives whole; the log stays in
its buffer and in its file.

## 2. Modules

| Module | What it is |
|---|---|
| `TailQueue` | the TAILQ macros as functions on a heap of links, and `Holds`, what the pointers stand for |
| `Deque` | abstract: a family of deques |
| `WaitQueue` | the wrappers driven by a disciplined caller; refines `Deque` |
| `TailQueueProofs` | lemmas on the TAILQ macros, for the wait queues and the schedulers |
| `ContainersProofs` | the wait queues (`PointersCorrect`, `ImplementsDeque`) and the lists (`ListsAreSound`, `LoopsVisitEverything`) |
| `FifoSched` | abstract: one running coroutine, a FIFO of waiting ones |
| `Scheduler` | both schedulers, both threads and every coroutine operation; refines `FifoSched` |
| `SchedulerProofs` | safety of the schedulers, `CooperativeNoCrash`, `NoCoroutineLost`, `CorruptionContained`, `ImplementsFifo` |
| `Registry` | abstract: a set of ids with lookup and minimum |
| `RBTree` | `cs_rbtree.c`; refines `Registry` (only model-checked) |
| `EnvInit` | `env_init` and `eventmgr_init` with failing calls |
| `EnvInitProofs` | `OkIsUsable`, `DeathsHaveTwoCauses` |
| `Logger` | the logger's level and descriptor, next to the other descriptors of the process |
| `LogBuffer` | the arithmetic of the log buffers |
| `LoggingProofs` | both parts of the logger: buffers (`BuffersSafe`, `DumpReadsData`) and descriptors (`LinesNeverStray`, `DescriptorsStaySound`) |
| `Lists` | the other macros of `cs_queue.h`, on the heap of `TailQueue`, and the loops |
| `Contexts` | the assembler back end of `cs_coro.c` under two schedulers, one load or store at a time |
| `Stacks` | the stack allocator, on the pages of an address space |
| `CoroPthread` | the pthread back end, on stacks of `Stacks` |
| `ContextsProofs` | the two back ends and the stacks |
| `Stream` | `_cs_sendn` and `_cs_recvn` at the two ends of a socket |
| `Strings` | `cs_string.c` on a heap that may be exhausted, and `cs_resolve` |
| `SocketsProofs` | the stream and the strings |
| `MCScheduler`, `MCEnvInit` | instances for TLC |
| `MCContainers`, `MCLogging`, `MCContexts`, `MCSockets` | instances of several modules that share no state: the initial state picks one of them (`part`, `build`), and it alone moves |

`Scheduler` extends `TailQueue`, so its queues are the real pointers. It uses
the registry as a set (`coroutine_rbt`); `RBTree` shows that the tree
implements that set. `Scheduler!Init` is the state that a fully successful
`env_init` leaves; `EnvInit` covers the others.

### Correspondence in `Scheduler`

* `mpc` and `ppc` are the positions of the two threads. The values of `mpc`
  follow the code: `main` (the program's main), `env_lock`, `env_crit`
  (`env_run`), `sched` (top of the loop of `sched_run`), `run` (a coroutine has
  the thread), `back` (it has switched back), `sent`, `sent_crit`, `sent_ok`
  (`coro_sent_parallel` before, inside and after the mutex), `returned`,
  `failed`. `ppc`: `main_lock`, `main_crit` (`parallel_main`), `loop`, `crit`,
  `run`, `back` (`parallel_run`).
* Granularity. A step ends wherever the other thread can interfere: at the
  acquisition and release of `g_mutex` and at the switches. Between those points
  the main thread touches only the master queue, the tree and coroutines that
  no other thread has; the parallel thread touches only the parallel queue (under
  the mutex) and the coroutine it runs. `sched_run_sent`, which makes the coroutine
  ready after the mutex was released, is a step of its own for that reason.
* `Uses` is the set of library calls the coroutines of the program make; each
  call is an action. `suspend` is a plain `coro_switch` to `sched_coro` by a
  coroutine that another one will wake with `coro_ready`, `set_need_parallel` the
  store into the field that asks for the parallel scheduler. A coroutine
  on the parallel thread makes `coro_yield`, `coro_exit` or a plain switch.
  A coroutine spawns on `g_mastersched` only; before the threads start the program's main may
  spawn on either scheduler (`main_spawn`). What this leaves out is the first point of section 5.
* `tq` is the memory of the queues; `qs` is a history variable with what
  has been inserted and not popped. All scheduling decisions read `tq` only.
* A process that dies (`proc`) takes no further step. When `main` has returned the
  parallel thread is gone too.
* `coro_switch_to_master` sends the first word of the coroutine, which is
  `tqe_next`, and compares the result with the size of the structure: it
  always reports `M_ERR`. `chan` holds the words sent.

In `TailQueue` a head and an entry have the same layout, so a cell is either; the
address of a link is named by the cell that holds it. A store through a nil
`tqe_prev` is `RemoveFaults`. In `RBTree` a node is named by its key (the
address of the coroutine), the sentinel by 0, and the two mirror images of each
case are one definition with a side as parameter. In `EnvInit` one call of
`env_init` is one action with the set of failing calls as its argument. `cs_free` sets the
pointer it gets to nil, so `eventmgr_init`, which frees the manager before it reads
`eventmgr->events`, ends the process when `evmgr_coro` cannot be allocated. In `LogBuffer` a step is
one call of `_vscnprintf`; the text is reduced to its length.

### Correspondence in the modules of the helpers

* `Contexts`. `pos` is the stack a thread's stack pointer is in, `saved` what
  `coro_transfer` stored into a context: the stack, and the place at which the code on it
  will go on. A load is right only if the code on that stack is still at that
  place; otherwise `halt` becomes `"broken"`. `frame` holds the arguments and
  locals a stack carries, `statics` the four static variables of `cs_coro.c`. The
  queues are sets (`Scheduler` has their order), `sched_run` and `sched_run_once` take any
  member, and the `ASSERT`s of the schedulers are left out: the model goes on after a hand-over,
  where in the code the `ASSERT` of `coro_ready_immediatly` ends the process. What is read of two
  static variables in a row is read in one step, which only two spawning threads could tell.
  Nothing in the library locks `coro_create`; `Spawner` is the set of threads on which
  the program calls it. The run has one, so `OwnFunction` and
  `CreateReturns` are about switches that come between the store and the copy of an argument, not
  about two threads in `coro_create` at once; with both threads TLC finds
  `ContextsSound` violated, as `cs_coro.h` warns ("not reentrant").
* `CoroPthread`. `create_thread` has both results of `pthread_create`, which the code does not
  look at; `Threadless` are the coroutines whose thread does not exist. `th` is where each thread is, `cv` the condition variable it waits on.
  A signal wakes one waiter or is lost; a woken thread still has to get the mutex;
  a cancelled one gets it and releases it in its cleanup handler.
  `strayed` records a wait that ended without a signal, or a function that returned
  (its thread ends and signals nobody): the back end has no answer to either, and the
  properties about control are stated without them. `RunnerLocks` holds in any case.
* `Stacks` counts in pages; `Room` is `mmap`. Failing even though there is
  room is always possible. `mprotect`, whose result the code ignores, may fail too; the history
  variable `bare` remembers the stacks that were returned without guard pages.
* `Stream`. A step is one call of `send` or `recv`. Besides `EINTR` they fail with `EAGAIN` on a
  descriptor that does not block, because the peer or the connection (`link`) is gone
  (`sendn_fail`, `recvn_fail`), or for a reason of the kernel's on any descriptor
  (`kernel_error`). A connection that is lost takes part of what is in the socket with it. `send` of a positive length
  does not return 0, so the branch for that has no step. Both programs know the sizes of
  the messages; the bytes are numbered through the whole stream, and `First` gives the
  number at which each message starts (any sizes can be given that way).
* `Strings`. Texts have no 0 inside (with one `strndup` would copy less than `len` bytes and
  `data[len] = 0` would miss the block). The functions are called in every state their `ASSERT`s
  judge: with a source that was never set, into a target in use, for 0 bytes. Only what no
  `ASSERT` looks at is left to the program: it does not free a constant, and it sets or
  initialises only strings that own no block. A `NULL` name of `cs_resolve` (the
  wildcard address) is its internet case, and ports are valid.
* `Lists`. `kind` selects the macros; heads and entries are cells of the heap of
  `TailQueue`. `cs_queue.h` defines `QUEUE_MACRO_SCRUB`, so `TRASHIT`
  clears the links of a removed entry.

## 3. Runs

Passing (all properties hold):

| Run | Bounds | Shows |
|---|---|---|
| `containers` | wait queues: 2 queues, 4 coroutines; tree: 6 keys; lists: 5 kinds, 2 lists, 3 elements | pointers hold the queues and the lists, loops visit every element; red-black search tree; refinement of `Deque` and of `Registry` |
| `sched_coop` | 4 coroutines, cooperative calls and `sched_run_once`, with fairness | no coroutine lost, no failing `ASSERT`, FIFO, a waiting coroutine runs |
| `sched_handoff` | 3 coroutines, all calls but `coro_switch_to_parallel` | queues, one owner, no use after free, mutual exclusion, in all interleavings |
| `sched_all` | 3 coroutines, all calls | registry in step with the allocations; what `coro_switch_to_parallel` damages is the master queue only, and then the main thread runs nothing any more (`DamageContained`) |
| `env_init` | up to 3 failures per call, 2 calls, 2 spawns | what `M_OK` guarantees; which failures kill the process |
| `logging` | logger: 6 descriptors, 1 counted write error; buffers: unit 21, 50 bytes of data | lines reach the log only, no foreign descriptor is touched, none is leaked; buffers and data stay in bounds, dumps end |
| `contexts` | assembler: 2 threads, 2 coroutines, 3 creations; pthread: main and 2 coroutines, 4 pages, 1 guard page, failing `pthread_create` and `mprotect`, at most one stray event | every function starts on its own stack with its own argument; control follows the transfers; no stack is shared or freed under a thread; `coro_create` returns and some coroutine always gets to run, unless a thread could not be created, which ends the program for good |
| `sockets` | stream: messages of 3, 0 and 2 bytes through a socket of 2; strings: 2 strings, 2 blocks, 5 texts, `sun_path` of 4 | messages arrive whole and in their own call, a short result means the end of the stream, no failure makes a byte arrive twice, out of order or, after a success, not at all (`StreamIntact`), calls return; strings own their blocks; paths fit |

Violated, each a disagreement between the code and what the repository says
(the quotations are under `findings` in `PROJECT.json`):

| Run | What happens |
|---|---|
| `startup_blocks` | `parallel_run` keeps `g_mutex` over an empty queue; `env_run` waits for ever |
| `stop_crashes` | `env_stop` stores through `g_eventmgr`, which is nil because `eventmgr_init` gets it by value |
| `exit_leaks` | a coroutine that was reached by `sched_run_once` and exits is not freed |
| `handoff_lost` | a coroutine sent to the parallel scheduler is dropped (busy mutex), or the `ASSERT` of `coro_ready_immediatly` fails |

Further behaviour of the code that the models contain and the passing
properties are stated around:

* `coro_switch_to_parallel` makes the caller ready twice, so its one entry is linked
  twice and `QueuesSound` does not hold for programs that call it. `DamageContained`
  says what is left: the damage is in the master queue, on which the main thread runs no coroutine
  any more, while the parallel thread may still run coroutines out of its own queue, which is intact.
* `register_event` fails `ASSERT(eventmgr)`, for the same reason as `env_stop`.
* `env_init` returns `M_OK` without the parallel `sched_coro` when that allocation
  fails; `CrashCause` names it.
* `log_deinit` leaves the closed number in `fd`, before `log_init` `fd` is 0, and a second `log_init`
  forgets the first file. `LinesGoHome` and `DescriptorsSound` hold for programs that log only
  between `log_init` and `log_deinit` (`Careless = FALSE`) and are violated with `Careless = TRUE`.
* `coro_alloc` calls `coro_create` without the mutex its header asks for (see `Contexts`).
* When `pthread_create` fails nobody is told: `coro_create` waits for a thread that does not exist
  and keeps everybody else waiting (`FailedCreateIsFinal`; `SomeoneRuns` is stated around it).
* When `mprotect` fails `coro_stack_alloc` returns a stack without guard pages; `StacksSound` says
  that this is the only way to get one.
* A spurious wakeup in the pthread back end makes a coroutine run that was not switched
  to; `coro_mutex` still lets only one run at a time.
* `coro_stack_free` leaves the pointer in the structure: a second free of the same
  structure would unmap pages that may be in use again. The program of the model frees
  once per allocation; a failed allocation clears the pointer.
* `_cs_sendn` and `_cs_recvn` return -1 for every `errno` but `EINTR`, without saying how much went
  through; `Framed` and `SentWhole` are about streams on which no call has failed,
  `StreamIntact` is about the others too.
* A string set to the empty text breaks the rule "no length, no data" that the
  `ASSERT`s of `cs_string.c` check. `AssertsJustified`: besides it they stop only a copy of nothing
  and a copy into a string in use; nothing that happened earlier makes a proper call fail.
* `string_compare` returns 1 for any two different lengths, in either order: the difference
  is unsigned. Only equal and different can be told apart (`CompareSound`, a part of `StringsSound`).
* `log_panic` does not abort when the logger has no descriptor.
* `_vscnprintf` returns -1 for size 0 and a non-empty text, although its comment says 0;
  `Fits` shows that the log functions never pass size 0.

Bounds. The queue code distinguishes an empty queue, one element, the first, the
last and an inner one: four elements reach all cases in two queues at once, and three
in the lists, where every kind has its own run of the macros. Three
coroutines give the threads one each and leave one waiting; `sched_run_once` needs a
third to separate the popped, the running and the exiting one. Six keys are
the fewest with which every case of the delete fixup occurs on both sides
(seven were checked once, with the same result). Three failures in one
`env_init` cover every mixture of a checked failure with the unchecked ones
before it. A buffer unit of 21 gives a dump buffer of 168 characters, in which
two full lines fit and the third is cut. Three creations let the memory of an
exited coroutine be used again while another one lives. Two stacks of one page with their guard pages, or one of two and its own, fit
into four pages and no more, so allocations fail for lack of room as well as by refusal. A message longer than the socket is cut at least
once on either side; the empty one never enters the loops. All counters are bounded in the guards
by the constants `Max...`; the schedulers need none.

Deadlock is checked except in `env_init`, `contexts` and `sockets`: their programs end (a
successful or failed start, an `abort`, all messages sent), and a wait without a
signal may leave every coroutine of the pthread back end waiting.

Fairness (`FairSpec`). `WF(EnvRun \/ SchedRun)`: the kernel runs the main thread
and its steps do not block once enabled (the lock in `env_run` is weakly fair
only: it is taken if the mutex stays free). `WF(GiveUp)`: coroutines are cooperative and
do give the thread back; without that no FIFO scheduler could promise
anything. `WF(Parallel)`: the kernel runs the second thread. Nothing is assumed
about which call a coroutine makes or that it exits. `LogBuffer` assumes only that a
call that has begun goes on; so do `Contexts` and `CoroPthread` for a thread
inside the library that can go on (weakly: a mutex is taken if it stays free).
In `Stream` the kernel completes a transfer that is possible; signals, calls and
closing are up to the programs.

## 4. Proofs

TLAPS checks every theorem for all values of the constants. The type invariants of
`WaitQueue`, `Scheduler` and `LogBuffer` are parts of the inductive invariants proved here
and are not listed in the runs again; those of `RBTree` and `Logger`
are parts of `TreeSound` and `DescriptorsSound`.

Every inductive invariant named below was checked by TLC on the run of its
component before it was proved.

**Queues.**

* `TailQueueProofs`: what each macro does to `Holds`. `Heap(tq, qs)` (all
  queues held, pairwise disjoint) is preserved by an insertion of an element that is in
  no queue and by the removal of a first element.
* The wait queues (`ContainersProofs`): with `IInv == TypeOK /\ PointersHoldQueues /\
  EntriesExclusive`. The third part is what makes the second inductive: an
  entry with a nil `tqe_prev` is in no queue, so inserting it overwrites no
  link. `ImplementsDeque` follows with the identity mapping.
* The lists (`ContainersProofs`). The macros of the five kinds store in different places and
  orders, and what they leave behind is the same: `InsertEffect` and `RemoveEffect` say it
  once for all kinds, `InsertKeeps` and `RemoveKeeps` show that it keeps the lists `Sound`, and one
  lemma per macro shows that the macro has the effect, for every position in the list.
  `Sound` is `ListsHold` with two strengthenings: no element is in two places (`Contents`), and an
  entry of a singly linked list that is in no list has a nil link (`Trashed`), so that the walk of
  `SLIST_REMOVE` and `STAILQ_REMOVE`, which is a recursive function over all cells, is
  defined and stops before the element (`WalkStops`, by well-founded induction on the
  distance). CONCAT and SWAP are shown list by list (`ConcatKeeps`, `SwapKeeps`).
  For the loops `Running` adds where a loop is: what it is still due to see is what the list
  holds from its place on, forward (`Ahead`) or in reverse (`Behind`), and removing the element
  it is at keeps that.

**Schedulers** (`SchedulerProofs`).

* `SchedulerSafe`, `QueuesNeverBroken`, `FreedIsUnreachable` and `ImplementsFifo` assume that
  the program does not call `coro_switch_to_parallel`, which corrupts the queue (see above).
  `IInv` adds `QueuedReady` (a queued coroutine is `M_READY` and its `sched`
  is the queue it waits in) and `ThreadsSound` (what each thread knows of its
  coroutine). They are needed because the code does not check that a coroutine is
  unlinked before it links it: that follows from `OneOwner` and from the
  position of the threads. In particular the `ASSERT` of
  `coro_ready_immediatly` always fails after a hand-over because the coroutine is
  `M_READY`; that failure is what keeps it from being linked twice. `SchedulerSafe` is
  about safety up to that point, not about the hand-over working.
  `ImplementsFifo` maps `waiting` to the master queue and `running` to the coroutine on
  the main thread.
* `CooperativeNoCrash` and `NoCoroutineLost` assume cooperative calls only.
* `RegistryInStep`, `SectionsExclude` and `CorruptionContained` hold for every program. The first
  two are inductive as they stand. `CorruptionContained` rests on `IInv \/ Broken`:
  `coro_switch_to_parallel` is the only step that leaves `IInv`, and it leads into `Broken`:
  the caller is first in the master queue (`Doomed`), asks for the parallel scheduler and is
  `M_READY`, so `sched_run` either faults in `TAILQ_REMOVE` or sends it and fails the
  `ASSERT` of `coro_ready_immediatly`. The parallel queue is intact because the insertion of
  `Doomed` into it touches no cell of it that `Doomed`'s own links name (`HoldsFrame`, `BrokenSent`),
  and the parallel thread may take from it what it likes (`BrokenParallelPop`).

**Set-up** (`EnvInitProofs`). `IInv` adds `MissingHasFailed` to the two properties: when
`env_init` has returned `M_OK` without the parallel `sched_coro`, that allocation has failed.

**Logger** (`LoggingProofs`). For the buffers `BufferInv == TypeOK /\ Fits /\ ReadsData` is
inductive as it stands; `ScnprintfFits` is the fact about `_vscnprintf` it rests on. For
the descriptors the hypothesis is `~Careless`, a program that logs only between `log_init` and
`log_deinit` (otherwise the property is false, see above). `LoggerInv` adds `OnlyFdIsLog` (a log file is
open under the number in `fd` only) and `FdIsOurs` (while the logger is in use that number is
its file's or stderr's); without them `log_reopen` could close a number that has been given
away. That `open` returns the lowest free number is
proved by well-founded induction on the numbers (`LowestIsFree`).

**Contexts** (`ContextsProofs`). The hypothesis is `OneSpawner`: one thread of the program
calls `coro_create`, which `cs_coro.h` asks for ("not reentrant"). `Contexts` is about single
loads and stores, so the invariant says who owns what at each of them: a stack belongs to
one thread or to one coroutine that is queued, being created or handed over (`Disjoint`,
`Rest`), the locals on a thread's stack describe the transfer it is in (`Locals`), and the
static variables, or the copies `coro_init` has made of them, belong to the coroutine that is
being created (`Copies`).

**Pthread back end and stacks** (`ContextsProofs`). Two invariants. `Baton`: as long as no
wait has ended without a signal, the actor that the last transfer named (`turn`) runs, is on its
way to run, or is creating or joining a thread, and every other one waits for a signal or has
ended (`Follower`); with it a signal always finds its waiter, and when
`pthread_create` has failed the turn is that of the missing thread for good
(`FailedCreateEndsAll`). `RunnerLocks` and `ThreadsOnStacks` do not need that premise. `StackInv` describes the pages
of each live stack; what `coro_stack_alloc` maps is disjoint from the others because `mmap`
returns free pages, and `coro_stack_free` computes the same range from `sptr` and `ssze`.

**Socket helpers** (`SocketsProofs`). `StreamInv` says that the buffer of the receiver and the
socket together hold the bytes from the start of the receiver's message up to the byte the
sender will pass to `send` next (`InStream`), and that nothing comes after a short result
(`Drained`). `Framed` alone is not inductive: it says nothing about bytes that are
still on their way. `FailuresKeepTheStream` needs more
(`IntactInv`): every byte that was delivered is below the one the sender will pass next
(`Behind`), and the part of the message under way that was sent is still held (`UnderWay`);
with the bytes of the earlier results, of the buffer and of the socket in ascending order
(`NoneTwice`) no later byte can repeat one, whichever calls fail. `StringsInv` describes the memory
behind every string to its first 0 (`Reads`), which is what makes `strndup` copy a
text and not a part of it, and adds that only texts that are not empty are copied. `AbortsAreMisuse` needs that only a string set to the empty
text is inconsistent (`InconsistentIsEmpty`), also after a `strndup` that failed.

**Assumptions.** Each module states what its constants are: numbers that are numbers,
a `NULL` that is no address and no object, texts without 0 inside
(`SchedulerAssumption`, `ContextsAssumption`, `StreamAssumption`, `ThreadConstants`,
`StackConstants`, `LoggerConstants`, `StringsConstants`). TLC evaluates all of them on the
runs. Beyond these there are only the hypotheses on the program named above.

Only model-checked: liveness (`WaitingRuns`, `Finishes`, `CreateReturns`,
`SomeoneRuns`, `CallsReturn`), which is out of the prover's reach; everything about the tree
(`TreeSound`, `RegistrySpec`), whose properties and rebalancing loops are recursive functions on
trees: what they compute for every tree is an induction over data.

## 5. Not modelled

* Insertions that nothing locks: `coro_spawn` and `coro_ready` of a coroutine on the parallel
  thread change the master queue, and `coro_spawn(g_parallelsched, ...)` of one on the main thread
  changes the parallel queue without `g_mutex`. `OneOwner`, `QueuesSound` and
  `Exclusion` are about programs that do neither. The run `sched_handoff`, which checks
  them, leaves `coro_switch_to_parallel` out as well; `sched_all` has it.
* The unsynchronised counters of the logger.
* `event_loop`, `event_callback` and `scheduleback_run`: their coroutines are allocated
  and never made ready or switched to. `remove_event` only calls `epoll_ctl`.
* The setjmp, ucontext and fiber back ends of `cs_coro.c`, and which registers are
  saved: what matters to the schedulers is the stack pointer.
* The optional checks and traces of `cs_queue.h`, which the build does not define, and
  `SLIST_FOREACH_PREVPTR`.
* The option setters of `cs_util.c` (one system call each), time, the formatting of
  addresses and the stack trace.
* Messages between coroutines, which the repository's README announces: there is no code.
* `coro_runin_parallel` reads `is_parallel_sched`, which nothing ever sets in a block
  that comes from `malloc`.

## 6. Plan

Done in this order: queues, schedulers, registry, environment, logger, lists, contexts and
stacks, socket helpers and strings; then the proofs of all their safety properties but those of the
tree. Next:

1. a module in which a coroutine on the parallel thread calls `coro_spawn` or
   `coro_ready` for the master, with the stores of `TAILQ_INSERT_TAIL` and
   `TAILQ_REMOVE` as single steps, since nothing locks the master queue;
2. the event manager as it would run if `g_eventmgr` were stored: `register_event`,
   `event_loop`, `event_callback` and the schedule-back coroutine.
