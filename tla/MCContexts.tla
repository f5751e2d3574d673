----------------------------- MODULE MCContexts -----------------------------
(***************************************************************************)
(* Two back ends of cs_coro.c, of which a build has one: a behaviour is    *)
(* one of the assembler or one of the pthread back end (build).            *)
(***************************************************************************)
EXTENDS Contexts

CONSTANTS Stk, Pages, PAGESIZE, Word, CORO_GUARDPAGES, DefaultSize, Size,  \* see Stacks
          MainCoro                                                    \* see CoroPthread

VARIABLES build, stack, size, prot, bare,
          once, mutex, th, cv, creating, joins, cancel, ctxs, turn, valid, strayed

P == INSTANCE CoroPthread

ASSUME PthreadAssumption == P!ThreadConstants /\ P!StackConstants

threadvars == <<stack, size, prot, bare, once, mutex, th, cv, creating, joins, cancel,
                ctxs, turn, valid, strayed>>
all        == <<build, vars, threadvars>>

MCInit == /\ build \in {"CORO_ASM", "CORO_PTHREAD"}
          /\ Init /\ P!Init

Asm(A)     == build = "CORO_ASM" /\ A /\ UNCHANGED <<build, threadvars>>
Pthread(A) == build = "CORO_PTHREAD" /\ A /\ UNCHANGED <<build, vars>>

MCSpec == /\ MCInit /\ [][Asm(Next) \/ Pthread(P!Next)]_all
          /\ \A t \in Thread : WF_all(Asm(Library(t)))
          /\ \A x \in P!Actor : WF_all(Pthread(P!Library(x)))

\* See CoroPthread: the running coroutine holds coro_mutex.
RunnerLocks == P!RunnerLocks

\* See CoroPthread: control goes where it was transferred to.
ControlFollows == P!ControlFollows

\* See CoroPthread: coro_create's arguments outlive their use.
ArgsAlive == P!ArgsAlive

\* See CoroPthread: no thread is on a freed stack.
ThreadsOnStacks == P!ThreadsOnStacks

\* See Stacks: stacks have their size and guard pages, and the mapped
\* pages are theirs.
StacksSound == P!StacksSound

\* See CoroPthread: after a failed pthread_create nobody runs.
FailedCreateIsFinal == P!FailedCreateIsFinal

\* See CoroPthread: some coroutine gets to run again and again.
SomeoneRuns == P!SomeoneRuns
=============================================================================
