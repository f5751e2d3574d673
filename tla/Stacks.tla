------------------------------- MODULE Stacks -------------------------------
(***************************************************************************)
(* Stack management of cs_coro.c: coro_stack_alloc and coro_stack_free on  *)
(* the pages of an address space.  mmap may refuse executable memory, or   *)
(* any memory, and mprotect may fail; its result is ignored.               *)
(***************************************************************************)
EXTENDS Naturals

CONSTANTS Stk,              \* the coro_stack structures
          Pages,            \* the pages mmap can give out are 1 .. Pages
          PAGESIZE, Word,   \* in bytes; Word is sizeof (void *)
          CORO_GUARDPAGES,
          DefaultSize,      \* 256 * 1024 words
          Size,             \* the sizes the program asks for, in words
          NULL

\* What the constants are in every build: mmap works in pages of at least a
\* byte, a word has one too, and no count is NULL.
StackConstants == /\ Pages \in Nat /\ PAGESIZE \in Nat \ {0} /\ Word \in Nat \ {0}
                  /\ CORO_GUARDPAGES \in Nat /\ DefaultSize \in Nat \ {0}
                  /\ Size \subseteq Nat
                  /\ NULL \notin Nat \cup {"none", "rw"}

VARIABLES stack,   \* sptr and ssze of every coro_stack, in pages
          size,    \* history: the words its owner got, 0 after a failure, NULL after a free
          prot,    \* the protection of every page, NULL when it is not mapped
          bare     \* history: the stacks whose guard pages mprotect did not protect

svars == <<stack, size, prot, bare>>

StackInit == /\ stack = [k \in Stk |-> [sptr |-> 0, ssze |-> 0]]
             /\ size = [k \in Stk |-> NULL]
             /\ prot = [p \in 1 .. Pages |-> NULL]
             /\ bare = {}

\* mmap: n unmapped pages in a row get protection prot.
Room(n) == {b \in 1 .. Pages : b + n - 1 <= Pages /\ \A i \in 0 .. n - 1 : prot[b + i] = NULL}

Region(b, n) == b .. b + n - 1

\* ssze, in pages.
Rounded(n) == (n * Word + PAGESIZE - 1) \div PAGESIZE

\* Mutant: a failed allocation leaves the pointer of an earlier one behind.
KeepsPointer(k, ssze) == [stack[k] EXCEPT !.ssze = ssze]

\* What a failed allocation leaves: sptr was cleared before mmap was tried.
NoStack(k, ssze) == [sptr |-> 0, ssze |-> ssze]

\* First an executable mapping is tried, then one that is not ("rw" stands for
\* both); each may fail even if there is room.  The guard pages are the lowest,
\* and stay as they were mapped when mprotect fails (g).
coro_stack_alloc(k, n) ==
  LET words == IF n = 0 THEN DefaultSize ELSE n
      ssze  == Rounded(words)
      all   == ssze + CORO_GUARDPAGES
  IN  \/ \E b \in Room(all), g \in {"none", "rw"} :
           /\ prot' = [p \in DOMAIN prot |->
                         IF p \in Region(b, CORO_GUARDPAGES) THEN g
                         ELSE IF p \in Region(b, all) THEN "rw" ELSE prot[p]]
           /\ stack' = [stack EXCEPT ![k] = [sptr |-> b + CORO_GUARDPAGES, ssze |-> ssze]]
           /\ size' = [size EXCEPT ![k] = words]
           /\ bare' = IF g = "rw" THEN bare \cup {k} ELSE bare
      \/ /\ stack' = [stack EXCEPT ![k] = NoStack(k, ssze)]
         /\ size' = [size EXCEPT ![k] = 0]
         /\ UNCHANGED <<prot, bare>>

\* munmap from below the guard pages, unless the allocation failed.  The
\* pointer stays in the structure.
coro_stack_free(k) ==
  /\ prot' = [p \in DOMAIN prot |->
                IF /\ stack[k].sptr # 0
                   /\ p \in Region(stack[k].sptr - CORO_GUARDPAGES,
                                   stack[k].ssze + CORO_GUARDPAGES)
                THEN NULL ELSE prot[p]]
  /\ size' = [size EXCEPT ![k] = NULL]
  /\ bare' = bare \ {k}
  /\ UNCHANGED stack

-----------------------------------------------------------------------------
Live == {k \in Stk : size[k] \notin {NULL, 0}}

\* Every stack in use has at least the size that was asked for, readable and
\* writable, and below it its guard pages, untouchable unless mprotect failed.
StacksUsable ==
  \A k \in Live :
    /\ stack[k].ssze * PAGESIZE >= size[k] * Word
    /\ \A p \in Region(stack[k].sptr, stack[k].ssze) : prot[p] = "rw"
    /\ \A p \in Region(stack[k].sptr - CORO_GUARDPAGES, CORO_GUARDPAGES) :
         prot[p] = IF k \in bare THEN "rw" ELSE "none"

\* The mapped pages are those of the stacks in use, each page of one stack:
\* nothing leaks, and freeing takes no page of another stack away, a free
\* after a failed allocation included.
PagesAccounted ==
  LET mine(k) == Region(stack[k].sptr - CORO_GUARDPAGES, stack[k].ssze + CORO_GUARDPAGES)
  IN  /\ \A p \in DOMAIN prot : prot[p] # NULL <=> \E k \in Live : p \in mine(k)
      /\ \A k, l \in Live : k # l => mine(k) \cap mine(l) = {}

\* coro_stack_alloc and coro_stack_free keep both, in every order of successful
\* and failed allocations and frees.
StacksSound == StacksUsable /\ PagesAccounted
=============================================================================
