-------------------------- MODULE SchedulerProofs --------------------------
(***************************************************************************)
(* The schedulers, for every number of coroutines: as long as the program  *)
(* does not call coro_switch_to_parallel, the queues stay sound, no        *)
(* coroutine has two owners and nothing freed is reached.  A program that  *)
(* stays on the master scheduler never fails an ASSERT and loses no        *)
(* coroutine.  In every program the registry is in step, the sections of   *)
(* g_mutex exclude each other, and a corrupted queue ends the process.     *)
(***************************************************************************)
EXTENDS Scheduler, TailQueueProofs

-----------------------------------------------------------------------------
(***************************************************************************)
(* Both queues together: a heap of pointers that holds disjoint queues.    *)
(***************************************************************************)
Heap(h, f) == /\ h \in TailQueueType
              /\ f \in [Queue -> Seq(Elem)]
              /\ \A q \in Queue : Holds(h, q, f[q])
              /\ \A q, r \in Queue : q # r => Members(f[q]) \cap Members(f[r]) = {}

\* The facts of Heap in terms of positions, as the lemmas on one queue want
\* them.
LEMMA HeapFacts ==
  ASSUME NEW h, NEW f, Heap(h, f)
  PROVE  /\ h \in TailQueueType
         /\ \A q \in Queue : f[q] \in Seq(Elem) /\ Holds(h, q, f[q])
         /\ \A q, r \in Queue : q # r =>
              \A i \in 1 .. Len(f[q]), j \in 1 .. Len(f[r]) : f[q][i] # f[r][j]
  <1>1. /\ h \in TailQueueType
        /\ \A q \in Queue : f[q] \in Seq(Elem) /\ Holds(h, q, f[q])
    BY DEF Heap
  <1>2. ASSUME NEW q \in Queue, NEW r \in Queue, q # r,
               NEW i \in 1 .. Len(f[q]), NEW j \in 1 .. Len(f[r])
        PROVE  f[q][i] # f[r][j]
    <2>1. Members(f[q]) \cap Members(f[r]) = {}
      BY <1>2 DEF Heap
    <2>2. f[q][i] \in Members(f[q]) /\ f[r][j] \in Members(f[r])
      BY DEF Members
    <2>3. QED
      BY <2>1, <2>2
  <1>3. QED
    BY <1>1, <1>2

Absent(f, e) == \A q \in Queue : e \notin Members(f[q])

\* Inserting a coroutine that is in no queue at the tail.
LEMMA HeapInsertTail ==
  ASSUME NEW h, NEW f, Heap(h, f), NEW q \in Queue, NEW e \in Elem, Absent(f, e)
  PROVE  Heap(TAILQ_INSERT_TAIL(h, q, e), [f EXCEPT ![q] = Append(f[q], e)])
  <1> DEFINE s == Append(f[q], e)
             g == [f EXCEPT ![q] = s]
             k == TAILQ_INSERT_TAIL(h, q, e)
  <1>1. \A r \in Queue : \A i \in 1 .. Len(f[r]) : f[r][i] # e
    BY DEF Absent, Members
  <1>2. k \in TailQueueType /\ Holds(k, q, s)
    BY <1>1, HeapFacts, InsertTailHolds
  <1>3. \A r \in Queue \ {q} : Holds(k, r, f[r])
    BY <1>1, HeapFacts, InsertTailFrame
  <1>4. s \in Seq(Elem) /\ Members(s) = Members(f[q]) \cup {e}
    <2>1. f[q] \in Seq(Elem)
      BY HeapFacts
    <2>2. s \in Seq(Elem)
      BY <2>1
    <2>3. Members(s) = Members(f[q]) \cup {e}
      BY <2>1, MembersFacts
    <2>4. QED
      BY <2>2, <2>3
  <1> HIDE DEF s, k
  <1>5. g \in [Queue -> Seq(Elem)] /\ g[q] = s /\ \A r \in Queue \ {q} : g[r] = f[r]
    BY <1>4 DEF Heap
  <1> HIDE DEF g
  <1>6. \A p, r \in Queue : p # r => Members(g[p]) \cap Members(g[r]) = {}
    <2> DEFINE M(x) == Members(f[x])
               N(x) == Members(g[x])
    <2>1. /\ N(q) = M(q) \cup {e}
          /\ \A r \in Queue : r # q => N(r) = M(r)
      BY <1>4, <1>5
    <2>2. \A p, r \in Queue : p # r => M(p) \cap M(r) = {}
      BY DEF Heap
    <2>3. \A r \in Queue : e \notin M(r)
      BY DEF Absent
    <2> HIDE DEF M, N
    <2>4. \A p, r \in Queue : p # r => N(p) \cap N(r) = {}
      BY <2>1, <2>2, <2>3
    <2>5. QED
      BY <2>4 DEF N
  <1>7. Heap(k, g)
    BY <1>2, <1>3, <1>5, <1>6 DEF Heap
  <1>8. QED
    BY <1>7 DEF k, g, s

\* Inserting a coroutine that is in no queue at the head.
LEMMA HeapInsertHead ==
  ASSUME NEW h, NEW f, Heap(h, f), NEW q \in Queue, NEW e \in Elem, Absent(f, e)
  PROVE  Heap(TAILQ_INSERT_HEAD(h, q, e), [f EXCEPT ![q] = <<e>> \o f[q]])
  <1> DEFINE s == <<e>> \o f[q]
             g == [f EXCEPT ![q] = s]
             k == TAILQ_INSERT_HEAD(h, q, e)
  <1>1. \A r \in Queue : \A i \in 1 .. Len(f[r]) : f[r][i] # e
    BY DEF Absent, Members
  <1>2. k \in TailQueueType /\ Holds(k, q, s)
    BY <1>1, HeapFacts, InsertHeadHolds
  <1>3. \A r \in Queue \ {q} : Holds(k, r, f[r])
    BY <1>1, HeapFacts, InsertHeadFrame
  <1>4. s \in Seq(Elem) /\ Members(s) = Members(f[q]) \cup {e}
    <2>1. f[q] \in Seq(Elem)
      BY HeapFacts
    <2>2. s \in Seq(Elem)
      BY <2>1
    <2>3. Members(s) = Members(f[q]) \cup {e}
      BY <2>1, MembersFacts
    <2>4. QED
      BY <2>2, <2>3
  <1> HIDE DEF s, k
  <1>5. g \in [Queue -> Seq(Elem)] /\ g[q] = s /\ \A r \in Queue \ {q} : g[r] = f[r]
    BY <1>4 DEF Heap
  <1> HIDE DEF g
  <1>6. \A p, r \in Queue : p # r => Members(g[p]) \cap Members(g[r]) = {}
    <2> DEFINE M(x) == Members(f[x])
               N(x) == Members(g[x])
    <2>1. /\ N(q) = M(q) \cup {e}
          /\ \A r \in Queue : r # q => N(r) = M(r)
      BY <1>4, <1>5
    <2>2. \A p, r \in Queue : p # r => M(p) \cap M(r) = {}
      BY DEF Heap
    <2>3. \A r \in Queue : e \notin M(r)
      BY DEF Absent
    <2> HIDE DEF M, N
    <2>4. \A p, r \in Queue : p # r => N(p) \cap N(r) = {}
      BY <2>1, <2>2, <2>3
    <2>5. QED
      BY <2>4 DEF N
  <1>7. Heap(k, g)
    BY <1>2, <1>3, <1>5, <1>6 DEF Heap
  <1>8. QED
    BY <1>7 DEF k, g, s

\* Removing the first coroutine of a queue that is not empty.
LEMMA HeapRemove ==
  ASSUME NEW h, NEW f, Heap(h, f), NEW q \in Queue, ~TAILQ_EMPTY(h, q)
  PROVE  /\ f[q] # << >>
         /\ TAILQ_FIRST(h, q) = Head(f[q])
         /\ TAILQ_FIRST(h, q) \in Elem
         /\ TAILQ_FIRST(h, q) \in Members(f[q])
         /\ ~RemoveFaults(h, TAILQ_FIRST(h, q))
         /\ Heap(TAILQ_REMOVE(h, q, TAILQ_FIRST(h, q)), [f EXCEPT ![q] = Tail(f[q])])
         /\ Members(Tail(f[q])) = Members(f[q]) \ {TAILQ_FIRST(h, q)}
  <1> DEFINE e == TAILQ_FIRST(h, q)
  <1>1. /\ f[q] # << >> /\ e = Head(f[q]) /\ e \in Elem /\ ~RemoveFaults(h, e)
    BY HeapFacts, HoldsNoFault
  <1>2. e \in Members(f[q]) /\ Members(Tail(f[q])) = Members(f[q]) \ {e}
    BY <1>1, HeapFacts, MembersFacts DEF Holds
  <1>3. Heap(TAILQ_REMOVE(h, q, e), [f EXCEPT ![q] = Tail(f[q])])
    <2> DEFINE s == Tail(f[q])
               g == [f EXCEPT ![q] = s]
               k == TAILQ_REMOVE(h, q, e)
    <2>1. k \in TailQueueType /\ Holds(k, q, s)
      BY <1>1, HeapFacts, RemoveHolds
    <2>2. \A r \in Queue \ {q} : Holds(k, r, f[r])
      BY <1>1, HeapFacts, RemoveFrame
    <2>3. s \in Seq(Elem) /\ Members(s) \subseteq Members(f[q])
      BY <1>1, <1>2, HeapFacts
    <2> HIDE DEF s, k
    <2>4. g \in [Queue -> Seq(Elem)] /\ g[q] = s /\ \A r \in Queue \ {q} : g[r] = f[r]
      BY <2>3 DEF Heap
    <2> HIDE DEF g
    <2>5. \A p, r \in Queue : p # r => Members(g[p]) \cap Members(g[r]) = {}
      <3> DEFINE M(x) == Members(f[x])
                 N(x) == Members(g[x])
      <3>1. /\ N(q) \subseteq M(q)
            /\ \A r \in Queue : r # q => N(r) = M(r)
        BY <2>3, <2>4
      <3>2. \A p, r \in Queue : p # r => M(p) \cap M(r) = {}
        BY DEF Heap
      <3> HIDE DEF M, N
      <3>3. \A p, r \in Queue : p # r => N(p) \cap N(r) = {}
        BY <3>1, <3>2
      <3>4. QED
        BY <3>3 DEF N
    <2>6. Heap(k, g)
      BY <2>1, <2>2, <2>4, <2>5 DEF Heap
    <2>7. QED
      BY <2>6 DEF k, g, s
  <1>4. QED
    BY <1>1, <1>2, <1>3

-----------------------------------------------------------------------------
(***************************************************************************)
(* The queue operations, as the actions use them.                          *)
(***************************************************************************)
LEMMA InvHeap ==
  ASSUME IInv
  PROVE  Heap(tq, qs)
  <1>1. /\ tq \in TailQueueType /\ qs \in [Queue -> Seq(Elem)]
        /\ \A q \in Queue : Holds(tq, q, qs[q])
    BY DEF IInv, TypeOK, QueuesSound, Coro
  <1>2. Members(qs[g_mastersched]) \cap Members(qs[g_parallelsched]) = {}
    BY DEF IInv, OneOwner, Waiting
  <1>3. \A q, r \in Queue : q # r => Members(qs[q]) \cap Members(qs[r]) = {}
    BY <1>2, SchedulerAssumption
  <1>4. QED
    BY <1>1, <1>3 DEF Heap

\* What is left to show of a step once its effect on the queues is known.
LEMMA SameQueues ==
  ASSUME IInv, tq' = tq, qs' = qs
  PROVE  Heap(tq, qs)' /\ \A q \in Queue : Waiting(q)' = Waiting(q)
  BY InvHeap DEF Heap, Waiting

\* A coroutine that is in no queue is inserted at an end of one: that queue
\* holds it as well and the other one is untouched.
LEMMA InsertEffect ==
  ASSUME IInv, NEW q \in Queue, NEW c \in Coro, ~Queued(c),
         insert_tail(q, c) \/ insert_head(q, c)
  PROVE  /\ Heap(tq, qs)'
         /\ Waiting(q)' = Waiting(q) \cup {c}
         /\ \A r \in Queue : r # q => Waiting(r)' = Waiting(r)
  <1>0. Heap(tq, qs)
    BY InvHeap
  <1>1. Absent(qs, c)
    BY DEF Queued, Waiting, Absent
  <1>2. c \in Elem
    BY DEF Coro
  <1>q. qs \in [Queue -> Seq(Elem)]
    BY <1>0 DEF Heap
  <1>3. CASE insert_tail(q, c)
    <2>1. tq' = TAILQ_INSERT_TAIL(tq, q, c) /\ qs' = [qs EXCEPT ![q] = Append(qs[q], c)]
      BY <1>3 DEF insert_tail
    <2>2. Heap(TAILQ_INSERT_TAIL(tq, q, c), [qs EXCEPT ![q] = Append(qs[q], c)])
      BY <1>0, <1>1, <1>2, HeapInsertTail
    <2>m. Members(Append(qs[q], c)) = Members(qs[q]) \cup {c}
      <3>1. qs[q] \in Seq(Elem)
        BY <1>q
      <3>2. QED
        BY <1>2, <3>1, MembersFacts
    <2>3. qs'[q] = Append(qs[q], c) /\ \A r \in Queue : r # q => qs'[r] = qs[r]
      BY <1>q, <2>1
    <2>4. Heap(tq', qs')
      BY <2>1, <2>2
    <2>5. QED
      BY <2>m, <2>3, <2>4 DEF Waiting, Heap
  <1>4. CASE insert_head(q, c)
    <2>1. tq' = TAILQ_INSERT_HEAD(tq, q, c) /\ qs' = [qs EXCEPT ![q] = <<c>> \o qs[q]]
      BY <1>4 DEF insert_head
    <2>2. Heap(TAILQ_INSERT_HEAD(tq, q, c), [qs EXCEPT ![q] = <<c>> \o qs[q]])
      BY <1>0, <1>1, <1>2, HeapInsertHead
    <2>m. Members(<<c>> \o qs[q]) = Members(qs[q]) \cup {c}
      <3>1. qs[q] \in Seq(Elem)
        BY <1>q
      <3>2. QED
        BY <1>2, <3>1, MembersFacts
    <2>3. qs'[q] = <<c>> \o qs[q] /\ \A r \in Queue : r # q => qs'[r] = qs[r]
      BY <1>q, <2>1
    <2>4. Heap(tq', qs')
      BY <2>1, <2>2
    <2>5. QED
      BY <2>m, <2>3, <2>4 DEF Waiting, Heap
  <1>5. QED
    BY <1>3, <1>4

\* Only coroutines wait.
LEMMA WaitingCoro ==
  ASSUME IInv, NEW q \in Queue
  PROVE  Waiting(q) \subseteq Coro
  <1>1. qs[q] \in Seq(Elem)
    BY DEF IInv, TypeOK, Coro
  <1>2. QED
    BY <1>1 DEF Waiting, Members, Coro

\* Taking the first coroutine out of a queue leaves the rest of it, and the
\* other queue, as they were.
LEMMA PopEffect ==
  ASSUME IInv, NEW q \in Queue, NEW c, ~TAILQ_EMPTY(tq, q), pop(q, c)
  PROVE  /\ Heap(tq, qs)'
         /\ c \in Coro /\ c \in Waiting(q)
         /\ c = Head(qs[q]) /\ qs[q] # << >> /\ qs'[q] = Tail(qs[q])
         /\ Waiting(q)' = Waiting(q) \ {c}
         /\ \A r \in Queue : r # q => Waiting(r)' = Waiting(r)
  <1>1. /\ qs \in [Queue -> Seq(Elem)]
        /\ qs[q] # << >> /\ c = TAILQ_FIRST(tq, q)
        /\ c = Head(qs[q]) /\ c \in Elem /\ c \in Members(qs[q])
        /\ Heap(TAILQ_REMOVE(tq, q, c), [qs EXCEPT ![q] = Tail(qs[q])])
        /\ Members(Tail(qs[q])) = Members(qs[q]) \ {c}
    <2>1. c = TAILQ_FIRST(tq, q)
      BY DEF pop
    <2>2. Heap(tq, qs) /\ qs \in [Queue -> Seq(Elem)]
      BY InvHeap DEF Heap
    <2>3. /\ qs[q] # << >>
          /\ TAILQ_FIRST(tq, q) = Head(qs[q])
          /\ TAILQ_FIRST(tq, q) \in Elem
          /\ TAILQ_FIRST(tq, q) \in Members(qs[q])
          /\ Heap(TAILQ_REMOVE(tq, q, TAILQ_FIRST(tq, q)), [qs EXCEPT ![q] = Tail(qs[q])])
          /\ Members(Tail(qs[q])) = Members(qs[q]) \ {TAILQ_FIRST(tq, q)}
      BY <2>2, HeapRemove
    <2>4. QED
      BY <2>1, <2>2, <2>3
  <1>2. tq' = TAILQ_REMOVE(tq, q, c) /\ qs' = [qs EXCEPT ![q] = Tail(qs[q])]
    BY <1>1 DEF pop
  <1>3. qs'[q] = Tail(qs[q]) /\ \A r \in Queue : r # q => qs'[r] = qs[r]
    BY <1>1, <1>2
  <1>4. Heap(tq', qs')
    BY <1>1, <1>2
  <1>5. QED
    BY <1>1, <1>3, <1>4 DEF Waiting, Heap, Coro

-----------------------------------------------------------------------------
(***************************************************************************)
(* One lemma per action: it preserves the inductive invariant.             *)
(***************************************************************************)

\* coro_spawn, from main or from a coroutine.
LEMMA SpawnStep ==
  ASSUME IInv, NEW s \in Queue, NEW c \in Coro, coro_spawn(s, c)
  PROVE  IInv'
  <1>1. /\ proc' = proc /\ mutex' = mutex /\ mpc' = mpc /\ stop' = stop
        /\ current_coro' = current_coro /\ pick' = pick /\ ppc' = ppc /\ pco' = pco
        /\ chan' = chan /\ status' = [status EXCEPT ![c] = "READY"]
        /\ sched' = [sched EXCEPT ![c] = s]
        /\ need_parallel' = [need_parallel EXCEPT ![c] = FALSE] /\ alloc' = alloc \cup {c}
        /\ coroutine_rbt' = coroutine_rbt \cup {c} /\ parked' = parked
        /\ c \notin alloc /\ insert_tail(s, c)
    BY DEF coro_spawn, mvars, pvars, qvars, cvars
  <1>2. /\ Heap(tq, qs)'
        /\ Waiting(s)' = Waiting(s) \cup {c}
        /\ \A r \in Queue : r # s => Waiting(r)' = Waiting(r)
    <2>1. c \in Coro /\ s \in Queue /\ ~Queued(c)
      BY <1>1, SchedulerAssumption
      DEF IInv, TypeOK, NoUseAfterFree
    <2>2. QED
      BY <1>1, <2>1, InsertEffect
  <1>3. TypeOK' /\ QueuesSound'
    BY <1>1, <1>2, SchedulerAssumption DEF IInv, TypeOK, QueuesSound, Heap, Coro
  <1>4. OneOwner'
    BY <1>1, <1>2, SchedulerAssumption
    DEF IInv, TypeOK, OneOwner, NoUseAfterFree, QueuedReady, ThreadsSound,
        Queued, OnMain, OnParallel, InHandoff, Retiring
  <1>5. NoUseAfterFree' /\ RegistrySound'
    BY <1>1, <1>2, SchedulerAssumption
    DEF IInv, TypeOK, OneOwner, NoUseAfterFree, QueuedReady, ThreadsSound, RegistrySound,
        Queued, OnMain, OnParallel, InHandoff, Retiring
  <1>6. QueuedReady'
    BY <1>1, <1>2, SchedulerAssumption
    DEF IInv, TypeOK, OneOwner, NoUseAfterFree, QueuedReady, ThreadsSound,
        Queued, OnMain, OnParallel, InHandoff, Retiring
  <1>7. ThreadsSound'
    BY <1>1, <1>2, SchedulerAssumption
    DEF IInv, TypeOK, OneOwner, NoUseAfterFree, QueuedReady, ThreadsSound,
        Queued, OnMain, OnParallel, InHandoff, Retiring
  <1>8. Exclusion'
    BY <1>1 DEF IInv, Exclusion
  <1>9. QED
    BY <1>3, <1>4, <1>5, <1>6, <1>7, <1>8 DEF IInv

\* sched_run takes the first coroutine and runs it, or goes on to hand it over.
LEMMA PopStep ==
  ASSUME IInv, NEW c \in Coro, sched_run_pop(c)
  PROVE  IInv'
  <1>1. /\ proc' = proc /\ mutex' = mutex /\ stop' = stop /\ pick' = c /\ ppc' = ppc
        /\ pco' = pco /\ chan' = chan /\ sched' = sched /\ need_parallel' = need_parallel
        /\ alloc' = alloc /\ coroutine_rbt' = coroutine_rbt /\ parked' = parked
        /\ mpc = "sched" /\ ~TAILQ_EMPTY(tq, g_mastersched) /\ pop(g_mastersched, c)
        /\ \/ mpc' = "sent" /\ status' = status /\ current_coro' = current_coro
           \/ mpc' = "run" /\ status' = [status EXCEPT ![c] = "RUN"] /\ current_coro' = c
    BY DEF sched_run_pop, mvars, pvars, qvars, cvars
  <1>2. /\ Heap(tq, qs)' /\ c \in Waiting(g_mastersched) /\ c \notin Waiting(g_parallelsched)
        /\ Waiting(g_mastersched)' = Waiting(g_mastersched) \ {c}
        /\ \A r \in Queue : r # g_mastersched => Waiting(r)' = Waiting(r)
    <2>1. c \in Waiting(g_mastersched) => c \notin Waiting(g_parallelsched)
      BY DEF IInv, OneOwner
    <2>2. QED
      BY <1>1, <2>1, PopEffect, SchedulerAssumption
  <1>3. TypeOK' /\ QueuesSound'
    BY <1>1, <1>2, SchedulerAssumption DEF IInv, TypeOK, QueuesSound, Heap, Coro
  <1>4. OneOwner'
    BY <1>1, <1>2, SchedulerAssumption
    DEF IInv, TypeOK, OneOwner, NoUseAfterFree, QueuedReady, ThreadsSound,
        Queued, OnMain, OnParallel, InHandoff, Retiring
  <1>5. NoUseAfterFree' /\ RegistrySound'
    BY <1>1, <1>2, SchedulerAssumption
    DEF IInv, TypeOK, OneOwner, NoUseAfterFree, QueuedReady, ThreadsSound, RegistrySound,
        Queued, OnMain, OnParallel, InHandoff, Retiring
  <1>6. QueuedReady'
    <2>1. ASSUME NEW r \in Queue, NEW x \in Waiting(r)'
          PROVE  status'[x] = "READY" /\ sched'[x] = r
      <3>1. x \in Waiting(r) /\ x # c
        BY <1>2, SchedulerAssumption
      <3>2. x \in Coro
        BY <3>1, WaitingCoro
      <3>3. status[x] = "READY" /\ sched[x] = r
        BY <3>1 DEF IInv, QueuedReady
      <3>4. status'[x] = status[x]
        BY <1>1, <3>1, <3>2 DEF IInv, TypeOK
      <3>5. QED
        BY <1>1, <3>3, <3>4
    <2>2. QED
      BY <2>1 DEF QueuedReady
  <1>7. ThreadsSound'
    BY <1>1, <1>2, SchedulerAssumption
    DEF IInv, TypeOK, OneOwner, NoUseAfterFree, QueuedReady, ThreadsSound,
        Queued, OnMain, OnParallel, InHandoff, Retiring
  <1>8. Exclusion'
    BY <1>1 DEF IInv, Exclusion
  <1>9. QED
    BY <1>3, <1>4, <1>5, <1>6, <1>7, <1>8 DEF IInv

\* coro_yield, when its ASSERTs hold.
LEMMA YieldStep ==
  ASSUME IInv, coro_yield, proc' = "up"
  PROVE  IInv'
  <1>1. /\ proc' = "up" /\ mutex' = mutex /\ mpc' = "back" /\ stop' = stop
        /\ current_coro' = current_coro /\ pick' = pick /\ ppc' = ppc /\ pco' = pco
        /\ chan' = chan /\ status' = [status EXCEPT ![current_coro] = "READY"]
        /\ sched' = sched /\ need_parallel' = need_parallel /\ alloc' = alloc
        /\ coroutine_rbt' = coroutine_rbt /\ parked' = parked
        /\ mpc = "run" /\ insert_tail(sched[current_coro], current_coro)
    BY DEF coro_yield, Running, Die, mvars, pvars, qvars, cvars
  <1>2. /\ Heap(tq, qs)'
        /\ Waiting(g_mastersched)' = Waiting(g_mastersched) \cup {current_coro}
        /\ \A r \in Queue : r # g_mastersched => Waiting(r)' = Waiting(r)
    <2>1. current_coro \in Coro /\ g_mastersched \in Queue /\ ~Queued(current_coro)
          /\ sched[current_coro] = g_mastersched
      BY <1>1, SchedulerAssumption
      DEF IInv, TypeOK, OneOwner, ThreadsSound, OnMain
    <2>2. QED
      BY <1>1, <2>1, InsertEffect
  <1>3. TypeOK' /\ QueuesSound'
    BY <1>1, <1>2, SchedulerAssumption DEF IInv, TypeOK, QueuesSound, Heap, Coro
  <1>4. OneOwner'
    BY <1>1, <1>2, SchedulerAssumption
    DEF IInv, TypeOK, OneOwner, NoUseAfterFree, QueuedReady, ThreadsSound,
        Queued, OnMain, OnParallel, InHandoff, Retiring
  <1>5. NoUseAfterFree' /\ RegistrySound'
    BY <1>1, <1>2, SchedulerAssumption
    DEF IInv, TypeOK, OneOwner, NoUseAfterFree, QueuedReady, ThreadsSound, RegistrySound,
        Queued, OnMain, OnParallel, InHandoff, Retiring
  <1>6. QueuedReady'
    BY <1>1, <1>2, SchedulerAssumption
    DEF IInv, TypeOK, OneOwner, NoUseAfterFree, QueuedReady, ThreadsSound,
        Queued, OnMain, OnParallel, InHandoff, Retiring
  <1>7. ThreadsSound'
    BY <1>1, <1>2, SchedulerAssumption
    DEF IInv, TypeOK, OneOwner, NoUseAfterFree, QueuedReady, ThreadsSound,
        Queued, OnMain, OnParallel, InHandoff, Retiring
  <1>8. Exclusion'
    BY <1>1 DEF IInv, Exclusion
  <1>9. QED
    BY <1>3, <1>4, <1>5, <1>6, <1>7, <1>8 DEF IInv

\* A failed ASSERT or a NULL dereference: nothing else changes.
LEMMA DieStep ==
  ASSUME IInv, NEW how \in {"abort", "segv"}, Die(how)
  PROVE  IInv'
  <1>1. /\ proc' = how /\ mutex' = mutex /\ mpc' = mpc /\ stop' = stop
        /\ current_coro' = current_coro /\ pick' = pick /\ ppc' = ppc /\ pco' = pco
        /\ chan' = chan /\ tq' = tq /\ qs' = qs /\ status' = status /\ sched' = sched
        /\ need_parallel' = need_parallel /\ alloc' = alloc /\ coroutine_rbt' = coroutine_rbt
        /\ parked' = parked
    BY DEF Die, mvars, pvars, qvars, cvars
  <1>2. Heap(tq, qs)' /\ \A q \in Queue : Waiting(q)' = Waiting(q)
    BY <1>1, SameQueues
  <1>3. TypeOK' /\ QueuesSound'
    BY <1>1, <1>2, SchedulerAssumption DEF IInv, TypeOK, QueuesSound, Heap, Coro
  <1>4. OneOwner'
    BY <1>1, <1>2, SchedulerAssumption
    DEF IInv, TypeOK, OneOwner, NoUseAfterFree, QueuedReady, ThreadsSound,
        Queued, OnMain, OnParallel, InHandoff, Retiring
  <1>5. NoUseAfterFree' /\ RegistrySound'
    BY <1>1, <1>2, SchedulerAssumption
    DEF IInv, TypeOK, OneOwner, NoUseAfterFree, QueuedReady, ThreadsSound, RegistrySound,
        Queued, OnMain, OnParallel, InHandoff, Retiring
  <1>6. QueuedReady'
    BY <1>1, <1>2, SchedulerAssumption
    DEF IInv, TypeOK, OneOwner, NoUseAfterFree, QueuedReady, ThreadsSound,
        Queued, OnMain, OnParallel, InHandoff, Retiring
  <1>7. ThreadsSound'
    BY <1>1, <1>2, SchedulerAssumption
    DEF IInv, TypeOK, OneOwner, NoUseAfterFree, QueuedReady, ThreadsSound,
        Queued, OnMain, OnParallel, InHandoff, Retiring
  <1>8. Exclusion'
    BY <1>1 DEF IInv, Exclusion
  <1>9. QED
    BY <1>3, <1>4, <1>5, <1>6, <1>7, <1>8 DEF IInv

\* pthread_create in env_run.
LEMMA EnvRunStep ==
  ASSUME IInv, env_run
  PROVE  IInv'
  <1>1. /\ proc' = proc /\ mutex' = mutex /\ mpc' = "env_lock" /\ stop' = stop
        /\ current_coro' = current_coro /\ pick' = pick /\ ppc' = "main_lock" /\ pco' = pco
        /\ chan' = chan /\ tq' = tq /\ qs' = qs /\ status' = status /\ sched' = sched
        /\ need_parallel' = need_parallel /\ alloc' = alloc /\ coroutine_rbt' = coroutine_rbt
        /\ parked' = parked
        /\ mpc = "main"
    BY DEF env_run, mvars, pvars, qvars, cvars
  <1>2. Heap(tq, qs)' /\ \A q \in Queue : Waiting(q)' = Waiting(q)
    BY <1>1, SameQueues
  <1>3. TypeOK' /\ QueuesSound'
    BY <1>1, <1>2, SchedulerAssumption DEF IInv, TypeOK, QueuesSound, Heap, Coro
  <1>4. OneOwner'
    BY <1>1, <1>2, SchedulerAssumption
    DEF IInv, TypeOK, OneOwner, NoUseAfterFree, QueuedReady, ThreadsSound,
        Queued, OnMain, OnParallel, InHandoff, Retiring
  <1>5. NoUseAfterFree' /\ RegistrySound'
    BY <1>1, <1>2, SchedulerAssumption
    DEF IInv, TypeOK, OneOwner, NoUseAfterFree, QueuedReady, ThreadsSound, RegistrySound,
        Queued, OnMain, OnParallel, InHandoff, Retiring
  <1>6. QueuedReady'
    BY <1>1, <1>2, SchedulerAssumption
    DEF IInv, TypeOK, OneOwner, NoUseAfterFree, QueuedReady, ThreadsSound,
        Queued, OnMain, OnParallel, InHandoff, Retiring
  <1>7. ThreadsSound'
    BY <1>1, <1>2, SchedulerAssumption
    DEF IInv, TypeOK, OneOwner, NoUseAfterFree, QueuedReady, ThreadsSound,
        Queued, OnMain, OnParallel, InHandoff, Retiring
  <1>8. Exclusion'
    BY <1>1 DEF IInv, Exclusion
  <1>9. QED
    BY <1>3, <1>4, <1>5, <1>6, <1>7, <1>8 DEF IInv

\* pthread_create fails.
LEMMA EnvRunFailsStep ==
  ASSUME IInv, env_run_fails
  PROVE  IInv'
  <1>1. /\ proc' = proc /\ mutex' = mutex /\ mpc' = "failed" /\ stop' = stop
        /\ current_coro' = current_coro /\ pick' = pick /\ ppc' = ppc /\ pco' = pco
        /\ chan' = chan /\ tq' = tq /\ qs' = qs /\ status' = status /\ sched' = sched
        /\ need_parallel' = need_parallel /\ alloc' = alloc /\ coroutine_rbt' = coroutine_rbt
        /\ parked' = parked
    BY DEF env_run_fails, mvars, pvars, qvars, cvars
  <1>2. Heap(tq, qs)' /\ \A q \in Queue : Waiting(q)' = Waiting(q)
    BY <1>1, SameQueues
  <1>3. TypeOK' /\ QueuesSound'
    BY <1>1, <1>2, SchedulerAssumption DEF IInv, TypeOK, QueuesSound, Heap, Coro
  <1>4. OneOwner'
    BY <1>1, <1>2, SchedulerAssumption
    DEF IInv, TypeOK, OneOwner, NoUseAfterFree, QueuedReady, ThreadsSound,
        Queued, OnMain, OnParallel, InHandoff, Retiring
  <1>5. NoUseAfterFree' /\ RegistrySound'
    BY <1>1, <1>2, SchedulerAssumption
    DEF IInv, TypeOK, OneOwner, NoUseAfterFree, QueuedReady, ThreadsSound, RegistrySound,
        Queued, OnMain, OnParallel, InHandoff, Retiring
  <1>6. QueuedReady'
    BY <1>1, <1>2, SchedulerAssumption
    DEF IInv, TypeOK, OneOwner, NoUseAfterFree, QueuedReady, ThreadsSound,
        Queued, OnMain, OnParallel, InHandoff, Retiring
  <1>7. ThreadsSound'
    BY <1>1, <1>2, SchedulerAssumption
    DEF IInv, TypeOK, OneOwner, NoUseAfterFree, QueuedReady, ThreadsSound,
        Queued, OnMain, OnParallel, InHandoff, Retiring
  <1>8. Exclusion'
    BY <1>1 DEF IInv, Exclusion
  <1>9. QED
    BY <1>3, <1>4, <1>5, <1>6, <1>7, <1>8 DEF IInv

\* env_run takes g_mutex.
LEMMA EnvRunLockStep ==
  ASSUME IInv, env_run_lock
  PROVE  IInv'
  <1>1. /\ proc' = proc /\ mutex' = "master" /\ mpc' = "env_crit" /\ stop' = stop
        /\ current_coro' = current_coro /\ pick' = pick /\ ppc' = ppc /\ pco' = pco
        /\ chan' = chan /\ tq' = tq /\ qs' = qs /\ status' = status /\ sched' = sched
        /\ need_parallel' = need_parallel /\ alloc' = alloc /\ coroutine_rbt' = coroutine_rbt
        /\ parked' = parked
        /\ mutex = "free"
    BY DEF env_run_lock, mvars, pvars, qvars, cvars
  <1>2. Heap(tq, qs)' /\ \A q \in Queue : Waiting(q)' = Waiting(q)
    BY <1>1, SameQueues
  <1>3. TypeOK' /\ QueuesSound'
    BY <1>1, <1>2, SchedulerAssumption DEF IInv, TypeOK, QueuesSound, Heap, Coro
  <1>4. OneOwner'
    BY <1>1, <1>2, SchedulerAssumption
    DEF IInv, TypeOK, OneOwner, NoUseAfterFree, QueuedReady, ThreadsSound,
        Queued, OnMain, OnParallel, InHandoff, Retiring
  <1>5. NoUseAfterFree' /\ RegistrySound'
    BY <1>1, <1>2, SchedulerAssumption
    DEF IInv, TypeOK, OneOwner, NoUseAfterFree, QueuedReady, ThreadsSound, RegistrySound,
        Queued, OnMain, OnParallel, InHandoff, Retiring
  <1>6. QueuedReady'
    BY <1>1, <1>2, SchedulerAssumption
    DEF IInv, TypeOK, OneOwner, NoUseAfterFree, QueuedReady, ThreadsSound,
        Queued, OnMain, OnParallel, InHandoff, Retiring
  <1>7. ThreadsSound'
    BY <1>1, <1>2, SchedulerAssumption
    DEF IInv, TypeOK, OneOwner, NoUseAfterFree, QueuedReady, ThreadsSound,
        Queued, OnMain, OnParallel, InHandoff, Retiring
  <1>8. Exclusion'
    BY <1>1 DEF IInv, Exclusion
  <1>9. QED
    BY <1>3, <1>4, <1>5, <1>6, <1>7, <1>8 DEF IInv

\* env_run releases g_mutex.
LEMMA EnvRunUnlockStep ==
  ASSUME IInv, env_run_unlock
  PROVE  IInv'
  <1>1. /\ proc' = proc /\ mutex' = "free" /\ mpc' = "sched" /\ stop' = stop
        /\ current_coro' = current_coro /\ pick' = pick /\ ppc' = ppc /\ pco' = pco
        /\ chan' = chan /\ tq' = tq /\ qs' = qs /\ status' = status /\ sched' = sched
        /\ need_parallel' = need_parallel /\ alloc' = alloc /\ coroutine_rbt' = coroutine_rbt
        /\ parked' = parked
        /\ mpc = "env_crit"
    BY DEF env_run_unlock, mvars, pvars, qvars, cvars
  <1>2. Heap(tq, qs)' /\ \A q \in Queue : Waiting(q)' = Waiting(q)
    BY <1>1, SameQueues
  <1>3. TypeOK' /\ QueuesSound'
    BY <1>1, <1>2, SchedulerAssumption DEF IInv, TypeOK, QueuesSound, Heap, Coro
  <1>4. OneOwner'
    BY <1>1, <1>2, SchedulerAssumption
    DEF IInv, TypeOK, OneOwner, NoUseAfterFree, QueuedReady, ThreadsSound,
        Queued, OnMain, OnParallel, InHandoff, Retiring
  <1>5. NoUseAfterFree' /\ RegistrySound'
    BY <1>1, <1>2, SchedulerAssumption
    DEF IInv, TypeOK, OneOwner, NoUseAfterFree, QueuedReady, ThreadsSound, RegistrySound,
        Queued, OnMain, OnParallel, InHandoff, Retiring
  <1>6. QueuedReady'
    BY <1>1, <1>2, SchedulerAssumption
    DEF IInv, TypeOK, OneOwner, NoUseAfterFree, QueuedReady, ThreadsSound,
        Queued, OnMain, OnParallel, InHandoff, Retiring
  <1>7. ThreadsSound'
    BY <1>1, <1>2, SchedulerAssumption
    DEF IInv, TypeOK, OneOwner, NoUseAfterFree, QueuedReady, ThreadsSound,
        Queued, OnMain, OnParallel, InHandoff, Retiring
  <1>8. Exclusion'
    BY <1>1 DEF IInv, Exclusion
  <1>9. QED
    BY <1>3, <1>4, <1>5, <1>6, <1>7, <1>8 DEF IInv

\* sched_run ends.
LEMMA SchedExitStep ==
  ASSUME IInv, sched_run_exit
  PROVE  IInv'
  <1>1. /\ proc' = proc /\ mutex' = mutex /\ mpc' = "returned" /\ stop' = stop
        /\ current_coro' = current_coro /\ pick' = pick /\ ppc' = ppc /\ pco' = pco
        /\ chan' = chan /\ tq' = tq /\ qs' = qs /\ status' = status /\ sched' = sched
        /\ need_parallel' = need_parallel /\ alloc' = alloc /\ coroutine_rbt' = coroutine_rbt
        /\ parked' = parked
    BY DEF sched_run_exit, mvars, pvars, qvars, cvars
  <1>2. Heap(tq, qs)' /\ \A q \in Queue : Waiting(q)' = Waiting(q)
    BY <1>1, SameQueues
  <1>3. TypeOK' /\ QueuesSound'
    BY <1>1, <1>2, SchedulerAssumption DEF IInv, TypeOK, QueuesSound, Heap, Coro
  <1>4. OneOwner'
    BY <1>1, <1>2, SchedulerAssumption
    DEF IInv, TypeOK, OneOwner, NoUseAfterFree, QueuedReady, ThreadsSound,
        Queued, OnMain, OnParallel, InHandoff, Retiring
  <1>5. NoUseAfterFree' /\ RegistrySound'
    BY <1>1, <1>2, SchedulerAssumption
    DEF IInv, TypeOK, OneOwner, NoUseAfterFree, QueuedReady, ThreadsSound, RegistrySound,
        Queued, OnMain, OnParallel, InHandoff, Retiring
  <1>6. QueuedReady'
    BY <1>1, <1>2, SchedulerAssumption
    DEF IInv, TypeOK, OneOwner, NoUseAfterFree, QueuedReady, ThreadsSound,
        Queued, OnMain, OnParallel, InHandoff, Retiring
  <1>7. ThreadsSound'
    BY <1>1, <1>2, SchedulerAssumption
    DEF IInv, TypeOK, OneOwner, NoUseAfterFree, QueuedReady, ThreadsSound,
        Queued, OnMain, OnParallel, InHandoff, Retiring
  <1>8. Exclusion'
    BY <1>1 DEF IInv, Exclusion
  <1>9. QED
    BY <1>3, <1>4, <1>5, <1>6, <1>7, <1>8 DEF IInv

\* sched_run examines the coroutine it had popped and frees it.
LEMMA BackStep ==
  ASSUME IInv, sched_run_back
  PROVE  IInv'
  <1>1. /\ proc' = proc /\ mutex' = mutex /\ mpc' = "sched" /\ stop' = stop
        /\ current_coro' = NULL /\ pick' = NULL /\ ppc' = ppc /\ pco' = pco /\ chan' = chan
        /\ tq' = tq /\ qs' = qs /\ status' = status /\ sched' = sched
        /\ need_parallel' = need_parallel /\ parked' = parked
        /\ mpc = "back"
        /\ \/ /\ status[pick] = "EXIT"
              /\ coroutine_rbt' = coroutine_rbt \ {pick} /\ alloc' = alloc \ {pick}
           \/ coroutine_rbt' = coroutine_rbt /\ alloc' = alloc
    BY DEF sched_run_back, mvars, pvars, qvars, cvars
  <1>2. Heap(tq, qs)' /\ \A q \in Queue : Waiting(q)' = Waiting(q)
    BY <1>1, SameQueues
  <1>3. TypeOK' /\ QueuesSound'
    BY <1>1, <1>2, SchedulerAssumption DEF IInv, TypeOK, QueuesSound, Heap, Coro
  <1>4. OneOwner'
    BY <1>1, <1>2, SchedulerAssumption
    DEF IInv, TypeOK, OneOwner, NoUseAfterFree, QueuedReady, ThreadsSound,
        Queued, OnMain, OnParallel, InHandoff, Retiring
  <1>5. NoUseAfterFree' /\ RegistrySound'
    <2>1. RegistrySound'
      BY <1>1 DEF IInv, RegistrySound
    <2>2. ASSUME NEW x \in Coro,
                 Queued(x)' \/ OnMain(x)' \/ OnParallel(x)' \/ InHandoff(x)' \/ x \in parked'
                 \/ (mpc' = "back" /\ x \in {pick', current_coro'})
          PROVE  x \in alloc'
      <3>1. Queued(x) \/ OnParallel(x) \/ x \in parked
        BY <1>1, <1>2, <2>2 DEF Queued, OnMain, OnParallel, InHandoff
      <3>2. x \in alloc
        BY <3>1 DEF IInv, NoUseAfterFree
      <3>3. status[x] # "EXIT"
        BY <3>1 DEF IInv, QueuedReady, ThreadsSound, Queued, OnParallel
      <3>4. QED
        BY <1>1, <3>2, <3>3
    <2>3. NoUseAfterFree'
      BY <2>2 DEF NoUseAfterFree
    <2>4. QED
      BY <2>1, <2>3
  <1>6. QueuedReady'
    BY <1>1, <1>2, SchedulerAssumption
    DEF IInv, TypeOK, OneOwner, NoUseAfterFree, QueuedReady, ThreadsSound,
        Queued, OnMain, OnParallel, InHandoff, Retiring
  <1>7. ThreadsSound'
    BY <1>1, <1>2, SchedulerAssumption
    DEF IInv, TypeOK, OneOwner, NoUseAfterFree, QueuedReady, ThreadsSound,
        Queued, OnMain, OnParallel, InHandoff, Retiring
  <1>8. Exclusion'
    BY <1>1 DEF IInv, Exclusion
  <1>9. QED
    BY <1>3, <1>4, <1>5, <1>6, <1>7, <1>8 DEF IInv

\* The trylock of coro_sent_parallel.
LEMMA TrylockStep ==
  ASSUME IInv, coro_sent_parallel_trylock
  PROVE  IInv'
  <1>1. /\ proc' = proc /\ stop' = stop /\ current_coro' = current_coro /\ ppc' = ppc
        /\ pco' = pco /\ chan' = chan /\ tq' = tq /\ qs' = qs /\ status' = status
        /\ need_parallel' = need_parallel /\ alloc' = alloc /\ coroutine_rbt' = coroutine_rbt
        /\ parked' = parked
        /\ mpc = "sent"
        /\ \/ /\ mutex = "free" /\ mutex' = "master" /\ mpc' = "sent_crit"
              /\ sched' = sched /\ pick' = pick
           \/ /\ mutex' = mutex /\ mpc' = "sched" /\ pick' = NULL
              /\ sched' = [sched EXCEPT ![pick] = g_mastersched]
    BY DEF coro_sent_parallel_trylock, mvars, pvars, qvars, cvars
  <1>2. Heap(tq, qs)' /\ \A q \in Queue : Waiting(q)' = Waiting(q)
    BY <1>1, SameQueues
  <1>3. TypeOK' /\ QueuesSound'
    BY <1>1, <1>2, SchedulerAssumption DEF IInv, TypeOK, QueuesSound, Heap, Coro
  <1>4. OneOwner'
    BY <1>1, <1>2, SchedulerAssumption
    DEF IInv, TypeOK, OneOwner, NoUseAfterFree, QueuedReady, ThreadsSound,
        Queued, OnMain, OnParallel, InHandoff, Retiring
  <1>5. NoUseAfterFree' /\ RegistrySound'
    BY <1>1, <1>2, SchedulerAssumption
    DEF IInv, TypeOK, OneOwner, NoUseAfterFree, QueuedReady, ThreadsSound, RegistrySound,
        Queued, OnMain, OnParallel, InHandoff, Retiring
  <1>6. QueuedReady'
    <2>1. ASSUME NEW r \in Queue, NEW x \in Waiting(r)'
          PROVE  status'[x] = "READY" /\ sched'[x] = r
      <3>1. x \in Waiting(r) /\ x \in Coro
        BY <1>2, WaitingCoro
      <3>2. Queued(x) /\ x # pick
        BY <1>1, <3>1 DEF IInv, OneOwner, Queued, InHandoff, OnParallel
      <3>3. status[x] = "READY" /\ sched[x] = r
        BY <3>1 DEF IInv, QueuedReady
      <3>4. sched'[x] = sched[x]
        BY <1>1, <3>1, <3>2 DEF IInv, TypeOK
      <3>5. QED
        BY <1>1, <3>3, <3>4
    <2>2. QED
      BY <2>1 DEF QueuedReady
  <1>7. ThreadsSound'
    BY <1>1, <1>2, SchedulerAssumption
    DEF IInv, TypeOK, OneOwner, NoUseAfterFree, QueuedReady, ThreadsSound,
        Queued, OnMain, OnParallel, InHandoff, Retiring
  <1>8. Exclusion'
    BY <1>1 DEF IInv, Exclusion
  <1>9. QED
    BY <1>3, <1>4, <1>5, <1>6, <1>7, <1>8 DEF IInv

\* A coroutine asks for the parallel scheduler.
LEMMA NeedParallelStep ==
  ASSUME IInv, set_need_parallel
  PROVE  IInv'
  <1>1. /\ proc' = proc /\ mutex' = mutex /\ mpc' = mpc /\ stop' = stop
        /\ current_coro' = current_coro /\ pick' = pick /\ ppc' = ppc /\ pco' = pco
        /\ chan' = chan /\ tq' = tq /\ qs' = qs /\ status' = status /\ sched' = sched
        /\ need_parallel' = [need_parallel EXCEPT ![current_coro] = TRUE] /\ alloc' = alloc
        /\ coroutine_rbt' = coroutine_rbt /\ parked' = parked
        /\ mpc = "run"
    BY DEF set_need_parallel, Running, mvars, pvars, qvars, cvars
  <1>2. Heap(tq, qs)' /\ \A q \in Queue : Waiting(q)' = Waiting(q)
    BY <1>1, SameQueues
  <1>3. TypeOK' /\ QueuesSound'
    BY <1>1, <1>2, SchedulerAssumption DEF IInv, TypeOK, QueuesSound, Heap, Coro
  <1>4. OneOwner'
    BY <1>1, <1>2, SchedulerAssumption
    DEF IInv, TypeOK, OneOwner, NoUseAfterFree, QueuedReady, ThreadsSound,
        Queued, OnMain, OnParallel, InHandoff, Retiring
  <1>5. NoUseAfterFree' /\ RegistrySound'
    BY <1>1, <1>2, SchedulerAssumption
    DEF IInv, TypeOK, OneOwner, NoUseAfterFree, QueuedReady, ThreadsSound, RegistrySound,
        Queued, OnMain, OnParallel, InHandoff, Retiring
  <1>6. QueuedReady'
    BY <1>1, <1>2, SchedulerAssumption
    DEF IInv, TypeOK, OneOwner, NoUseAfterFree, QueuedReady, ThreadsSound,
        Queued, OnMain, OnParallel, InHandoff, Retiring
  <1>7. ThreadsSound'
    BY <1>1, <1>2, SchedulerAssumption
    DEF IInv, TypeOK, OneOwner, NoUseAfterFree, QueuedReady, ThreadsSound,
        Queued, OnMain, OnParallel, InHandoff, Retiring
  <1>8. Exclusion'
    BY <1>1 DEF IInv, Exclusion
  <1>9. QED
    BY <1>3, <1>4, <1>5, <1>6, <1>7, <1>8 DEF IInv

\* coro_exit, when its ASSERT holds.
LEMMA ExitStep ==
  ASSUME IInv, coro_exit, proc' = "up"
  PROVE  IInv'
  <1>1. /\ proc' = "up" /\ mutex' = mutex /\ mpc' = "back" /\ stop' = stop
        /\ current_coro' = current_coro /\ pick' = pick /\ ppc' = ppc /\ pco' = pco
        /\ chan' = chan /\ tq' = tq /\ qs' = qs
        /\ status' = [status EXCEPT ![current_coro] = "EXIT"] /\ sched' = sched
        /\ need_parallel' = need_parallel /\ alloc' = alloc /\ coroutine_rbt' = coroutine_rbt
        /\ parked' = parked
        /\ mpc = "run"
    BY DEF coro_exit, Running, Die, mvars, pvars, qvars, cvars
  <1>2. Heap(tq, qs)' /\ \A q \in Queue : Waiting(q)' = Waiting(q)
    BY <1>1, SameQueues
  <1>3. TypeOK' /\ QueuesSound'
    BY <1>1, <1>2, SchedulerAssumption DEF IInv, TypeOK, QueuesSound, Heap, Coro
  <1>4. OneOwner'
    BY <1>1, <1>2, SchedulerAssumption
    DEF IInv, TypeOK, OneOwner, NoUseAfterFree, QueuedReady, ThreadsSound,
        Queued, OnMain, OnParallel, InHandoff, Retiring
  <1>5. NoUseAfterFree' /\ RegistrySound'
    BY <1>1, <1>2, SchedulerAssumption
    DEF IInv, TypeOK, OneOwner, NoUseAfterFree, QueuedReady, ThreadsSound, RegistrySound,
        Queued, OnMain, OnParallel, InHandoff, Retiring
  <1>6. QueuedReady'
    BY <1>1, <1>2, SchedulerAssumption
    DEF IInv, TypeOK, OneOwner, NoUseAfterFree, QueuedReady, ThreadsSound,
        Queued, OnMain, OnParallel, InHandoff, Retiring
  <1>7. ThreadsSound'
    BY <1>1, <1>2, SchedulerAssumption
    DEF IInv, TypeOK, OneOwner, NoUseAfterFree, QueuedReady, ThreadsSound,
        Queued, OnMain, OnParallel, InHandoff, Retiring
  <1>8. Exclusion'
    BY <1>1 DEF IInv, Exclusion
  <1>9. QED
    BY <1>3, <1>4, <1>5, <1>6, <1>7, <1>8 DEF IInv

\* A coroutine switches to sched_coro without being ready.
LEMMA SuspendStep ==
  ASSUME IInv, suspend
  PROVE  IInv'
  <1>1. /\ proc' = proc /\ mutex' = mutex /\ mpc' = "back" /\ stop' = stop
        /\ current_coro' = current_coro /\ pick' = pick /\ ppc' = ppc /\ pco' = pco
        /\ chan' = chan /\ tq' = tq /\ qs' = qs /\ status' = status /\ sched' = sched
        /\ need_parallel' = need_parallel /\ alloc' = alloc /\ coroutine_rbt' = coroutine_rbt
        /\ parked' = parked \cup {current_coro}
        /\ mpc = "run"
    BY DEF suspend, Running, mvars, pvars, qvars, cvars
  <1>2. Heap(tq, qs)' /\ \A q \in Queue : Waiting(q)' = Waiting(q)
    BY <1>1, SameQueues
  <1>3. TypeOK' /\ QueuesSound'
    BY <1>1, <1>2, SchedulerAssumption
    DEF IInv, TypeOK, ThreadsSound, QueuesSound, Heap, Coro
  <1>4. OneOwner'
    BY <1>1, <1>2, SchedulerAssumption
    DEF IInv, TypeOK, OneOwner, NoUseAfterFree, QueuedReady, ThreadsSound,
        Queued, OnMain, OnParallel, InHandoff, Retiring
  <1>5. NoUseAfterFree' /\ RegistrySound'
    BY <1>1, <1>2, SchedulerAssumption
    DEF IInv, TypeOK, OneOwner, NoUseAfterFree, QueuedReady, ThreadsSound, RegistrySound,
        Queued, OnMain, OnParallel, InHandoff, Retiring
  <1>6. QueuedReady'
    BY <1>1, <1>2, SchedulerAssumption
    DEF IInv, TypeOK, OneOwner, NoUseAfterFree, QueuedReady, ThreadsSound,
        Queued, OnMain, OnParallel, InHandoff, Retiring
  <1>7. ThreadsSound'
    BY <1>1, <1>2, SchedulerAssumption
    DEF IInv, TypeOK, OneOwner, NoUseAfterFree, QueuedReady, ThreadsSound,
        Queued, OnMain, OnParallel, InHandoff, Retiring
  <1>8. Exclusion'
    BY <1>1 DEF IInv, Exclusion
  <1>9. QED
    BY <1>3, <1>4, <1>5, <1>6, <1>7, <1>8 DEF IInv

\* env_stop.
LEMMA StopStep ==
  ASSUME IInv, env_stop
  PROVE  IInv'
  <1>1. /\ proc' = "segv" /\ mutex' = mutex /\ mpc' = mpc /\ stop' = TRUE
        /\ current_coro' = current_coro /\ pick' = pick /\ ppc' = ppc /\ pco' = pco
        /\ chan' = chan /\ tq' = tq /\ qs' = qs /\ status' = status /\ sched' = sched
        /\ need_parallel' = need_parallel /\ alloc' = alloc /\ coroutine_rbt' = coroutine_rbt
        /\ parked' = parked
    BY DEF env_stop, Running, g_eventmgr, mvars, pvars, qvars, cvars
  <1>2. Heap(tq, qs)' /\ \A q \in Queue : Waiting(q)' = Waiting(q)
    BY <1>1, SameQueues
  <1>3. TypeOK' /\ QueuesSound'
    BY <1>1, <1>2, SchedulerAssumption DEF IInv, TypeOK, QueuesSound, Heap, Coro
  <1>4. OneOwner'
    BY <1>1, <1>2, SchedulerAssumption
    DEF IInv, TypeOK, OneOwner, NoUseAfterFree, QueuedReady, ThreadsSound,
        Queued, OnMain, OnParallel, InHandoff, Retiring
  <1>5. NoUseAfterFree' /\ RegistrySound'
    BY <1>1, <1>2, SchedulerAssumption
    DEF IInv, TypeOK, OneOwner, NoUseAfterFree, QueuedReady, ThreadsSound, RegistrySound,
        Queued, OnMain, OnParallel, InHandoff, Retiring
  <1>6. QueuedReady'
    BY <1>1, <1>2, SchedulerAssumption
    DEF IInv, TypeOK, OneOwner, NoUseAfterFree, QueuedReady, ThreadsSound,
        Queued, OnMain, OnParallel, InHandoff, Retiring
  <1>7. ThreadsSound'
    BY <1>1, <1>2, SchedulerAssumption
    DEF IInv, TypeOK, OneOwner, NoUseAfterFree, QueuedReady, ThreadsSound,
        Queued, OnMain, OnParallel, InHandoff, Retiring
  <1>8. Exclusion'
    BY <1>1 DEF IInv, Exclusion
  <1>9. QED
    BY <1>3, <1>4, <1>5, <1>6, <1>7, <1>8 DEF IInv

\* The two places where the parallel thread takes g_mutex.
LEMMA ParallelLockStep ==
  ASSUME IInv, parallel_main_lock \/ parallel_run_trylock
  PROVE  IInv'
  <1>1. /\ proc' = proc /\ mutex' = "parallel" /\ mpc' = mpc /\ stop' = stop
        /\ current_coro' = current_coro /\ pick' = pick /\ pco' = pco /\ chan' = chan
        /\ tq' = tq /\ qs' = qs /\ status' = status /\ sched' = sched
        /\ need_parallel' = need_parallel /\ alloc' = alloc /\ coroutine_rbt' = coroutine_rbt
        /\ parked' = parked
        /\ mutex = "free" /\ ppc' \in {"main_crit", "crit"}
    BY DEF parallel_main_lock, parallel_run_trylock, mvars, pvars, qvars, cvars
  <1>2. Heap(tq, qs)' /\ \A q \in Queue : Waiting(q)' = Waiting(q)
    BY <1>1, SameQueues
  <1>3. TypeOK' /\ QueuesSound'
    BY <1>1, <1>2, SchedulerAssumption DEF IInv, TypeOK, QueuesSound, Heap, Coro
  <1>4. OneOwner'
    BY <1>1, <1>2, SchedulerAssumption
    DEF IInv, TypeOK, OneOwner, NoUseAfterFree, QueuedReady, ThreadsSound,
        Queued, OnMain, OnParallel, InHandoff, Retiring
  <1>5. NoUseAfterFree' /\ RegistrySound'
    BY <1>1, <1>2, SchedulerAssumption
    DEF IInv, TypeOK, OneOwner, NoUseAfterFree, QueuedReady, ThreadsSound, RegistrySound,
        Queued, OnMain, OnParallel, InHandoff, Retiring
  <1>6. QueuedReady'
    BY <1>1, <1>2, SchedulerAssumption
    DEF IInv, TypeOK, OneOwner, NoUseAfterFree, QueuedReady, ThreadsSound,
        Queued, OnMain, OnParallel, InHandoff, Retiring
  <1>7. ThreadsSound'
    BY <1>1, <1>2, SchedulerAssumption
    DEF IInv, TypeOK, OneOwner, NoUseAfterFree, QueuedReady, ThreadsSound,
        Queued, OnMain, OnParallel, InHandoff, Retiring
  <1>8. Exclusion'
    BY <1>1 DEF IInv, Exclusion
  <1>9. QED
    BY <1>3, <1>4, <1>5, <1>6, <1>7, <1>8 DEF IInv

\* parallel_main releases g_mutex.
LEMMA ParallelUnlockStep ==
  ASSUME IInv, parallel_main_unlock
  PROVE  IInv'
  <1>1. /\ proc' = proc /\ mutex' = "free" /\ mpc' = mpc /\ stop' = stop
        /\ current_coro' = current_coro /\ pick' = pick /\ ppc' = "loop" /\ pco' = pco
        /\ chan' = chan /\ tq' = tq /\ qs' = qs /\ status' = status /\ sched' = sched
        /\ need_parallel' = need_parallel /\ alloc' = alloc /\ coroutine_rbt' = coroutine_rbt
        /\ parked' = parked
        /\ ppc = "main_crit"
    BY DEF parallel_main_unlock, mvars, pvars, qvars, cvars
  <1>2. Heap(tq, qs)' /\ \A q \in Queue : Waiting(q)' = Waiting(q)
    BY <1>1, SameQueues
  <1>3. TypeOK' /\ QueuesSound'
    BY <1>1, <1>2, SchedulerAssumption DEF IInv, TypeOK, QueuesSound, Heap, Coro
  <1>4. OneOwner'
    BY <1>1, <1>2, SchedulerAssumption
    DEF IInv, TypeOK, OneOwner, NoUseAfterFree, QueuedReady, ThreadsSound,
        Queued, OnMain, OnParallel, InHandoff, Retiring
  <1>5. NoUseAfterFree' /\ RegistrySound'
    BY <1>1, <1>2, SchedulerAssumption
    DEF IInv, TypeOK, OneOwner, NoUseAfterFree, QueuedReady, ThreadsSound, RegistrySound,
        Queued, OnMain, OnParallel, InHandoff, Retiring
  <1>6. QueuedReady'
    BY <1>1, <1>2, SchedulerAssumption
    DEF IInv, TypeOK, OneOwner, NoUseAfterFree, QueuedReady, ThreadsSound,
        Queued, OnMain, OnParallel, InHandoff, Retiring
  <1>7. ThreadsSound'
    BY <1>1, <1>2, SchedulerAssumption
    DEF IInv, TypeOK, OneOwner, NoUseAfterFree, QueuedReady, ThreadsSound,
        Queued, OnMain, OnParallel, InHandoff, Retiring
  <1>8. Exclusion'
    BY <1>1 DEF IInv, Exclusion
  <1>9. QED
    BY <1>3, <1>4, <1>5, <1>6, <1>7, <1>8 DEF IInv

\* parallel_run finds its queue empty and keeps g_mutex.
LEMMA ParallelEmptyStep ==
  ASSUME IInv, parallel_run_empty
  PROVE  IInv'
  <1>1. /\ proc' = proc /\ mutex' = mutex /\ mpc' = mpc /\ stop' = stop
        /\ current_coro' = current_coro /\ pick' = pick /\ ppc' = "loop" /\ pco' = pco
        /\ chan' = chan /\ tq' = tq /\ qs' = qs /\ status' = status /\ sched' = sched
        /\ need_parallel' = need_parallel /\ alloc' = alloc /\ coroutine_rbt' = coroutine_rbt
        /\ parked' = parked
    BY DEF parallel_run_empty, mvars, pvars, qvars, cvars
  <1>2. Heap(tq, qs)' /\ \A q \in Queue : Waiting(q)' = Waiting(q)
    BY <1>1, SameQueues
  <1>3. TypeOK' /\ QueuesSound'
    BY <1>1, <1>2, SchedulerAssumption DEF IInv, TypeOK, QueuesSound, Heap, Coro
  <1>4. OneOwner'
    BY <1>1, <1>2, SchedulerAssumption
    DEF IInv, TypeOK, OneOwner, NoUseAfterFree, QueuedReady, ThreadsSound,
        Queued, OnMain, OnParallel, InHandoff, Retiring
  <1>5. NoUseAfterFree' /\ RegistrySound'
    BY <1>1, <1>2, SchedulerAssumption
    DEF IInv, TypeOK, OneOwner, NoUseAfterFree, QueuedReady, ThreadsSound, RegistrySound,
        Queued, OnMain, OnParallel, InHandoff, Retiring
  <1>6. QueuedReady'
    BY <1>1, <1>2, SchedulerAssumption
    DEF IInv, TypeOK, OneOwner, NoUseAfterFree, QueuedReady, ThreadsSound,
        Queued, OnMain, OnParallel, InHandoff, Retiring
  <1>7. ThreadsSound'
    BY <1>1, <1>2, SchedulerAssumption
    DEF IInv, TypeOK, OneOwner, NoUseAfterFree, QueuedReady, ThreadsSound,
        Queued, OnMain, OnParallel, InHandoff, Retiring
  <1>8. Exclusion'
    BY <1>1 DEF IInv, Exclusion
  <1>9. QED
    BY <1>3, <1>4, <1>5, <1>6, <1>7, <1>8 DEF IInv

\* The coroutine switches back to parallel_run.
LEMMA ParallelSwitchStep ==
  ASSUME IInv, parallel_coro_switch
  PROVE  IInv'
  <1>1. /\ proc' = proc /\ mutex' = mutex /\ mpc' = mpc /\ stop' = stop
        /\ current_coro' = current_coro /\ pick' = pick /\ ppc' = "back" /\ pco' = pco
        /\ chan' = chan /\ tq' = tq /\ qs' = qs /\ status' = status /\ sched' = sched
        /\ need_parallel' = need_parallel /\ alloc' = alloc /\ coroutine_rbt' = coroutine_rbt
        /\ parked' = parked
        /\ ppc = "run"
    BY DEF parallel_coro_switch, mvars, pvars, qvars, cvars
  <1>2. Heap(tq, qs)' /\ \A q \in Queue : Waiting(q)' = Waiting(q)
    BY <1>1, SameQueues
  <1>3. TypeOK' /\ QueuesSound'
    BY <1>1, <1>2, SchedulerAssumption DEF IInv, TypeOK, QueuesSound, Heap, Coro
  <1>4. OneOwner'
    BY <1>1, <1>2, SchedulerAssumption
    DEF IInv, TypeOK, OneOwner, NoUseAfterFree, QueuedReady, ThreadsSound,
        Queued, OnMain, OnParallel, InHandoff, Retiring
  <1>5. NoUseAfterFree' /\ RegistrySound'
    BY <1>1, <1>2, SchedulerAssumption
    DEF IInv, TypeOK, OneOwner, NoUseAfterFree, QueuedReady, ThreadsSound, RegistrySound,
        Queued, OnMain, OnParallel, InHandoff, Retiring
  <1>6. QueuedReady'
    BY <1>1, <1>2, SchedulerAssumption
    DEF IInv, TypeOK, OneOwner, NoUseAfterFree, QueuedReady, ThreadsSound,
        Queued, OnMain, OnParallel, InHandoff, Retiring
  <1>7. ThreadsSound'
    BY <1>1, <1>2, SchedulerAssumption
    DEF IInv, TypeOK, OneOwner, NoUseAfterFree, QueuedReady, ThreadsSound,
        Queued, OnMain, OnParallel, InHandoff, Retiring
  <1>8. Exclusion'
    BY <1>1 DEF IInv, Exclusion
  <1>9. QED
    BY <1>3, <1>4, <1>5, <1>6, <1>7, <1>8 DEF IInv

\* coro_switch_to_master.
LEMMA SwitchBackStep ==
  ASSUME IInv, coro_switch_to_master
  PROVE  IInv'
  <1>1. /\ proc' = proc /\ mutex' = mutex /\ mpc' = mpc /\ stop' = stop
        /\ current_coro' = current_coro /\ pick' = pick /\ ppc' = "loop" /\ pco' = NULL
        /\ tq' = tq /\ qs' = qs /\ status' = status
        /\ sched' = [sched EXCEPT ![pco] = g_parallelsched] /\ need_parallel' = need_parallel
        /\ alloc' = alloc /\ coroutine_rbt' = coroutine_rbt /\ parked' = parked
        /\ ppc = "back" /\ chan' \in {chan, Append(chan, tq.link[pco])}
    BY DEF coro_switch_to_master, mvars, pvars, qvars, cvars
  <1>2. Heap(tq, qs)' /\ \A q \in Queue : Waiting(q)' = Waiting(q)
    BY <1>1, SameQueues
  <1>3. TypeOK' /\ QueuesSound'
    <2>1. tq.link[pco] \in Coro \cup {NULL} /\ chan' \in Seq(Coro \cup {NULL})
      <3>1. pco \in Cell
        BY <1>1 DEF IInv, TypeOK, ThreadsSound, Cell, Coro
      <3>2. tq.link[pco] \in Coro \cup {NULL}
        BY <3>1 DEF IInv, TypeOK, TailQueueType, Coro
      <3>3. chan \in Seq(Coro \cup {NULL})
        BY DEF IInv, TypeOK
      <3>4. Append(chan, tq.link[pco]) \in Seq(Coro \cup {NULL})
        BY <3>2, <3>3
      <3>5. QED
        BY <1>1, <3>2, <3>3, <3>4
    <2>2. TypeOK'
      BY <1>1, <1>2, <2>1, SchedulerAssumption DEF IInv, TypeOK, Heap, Coro
    <2>3. QED
      BY <1>2, <2>2 DEF QueuesSound, Heap
  <1>4. OneOwner'
    BY <1>1, <1>2, SchedulerAssumption
    DEF IInv, TypeOK, OneOwner, NoUseAfterFree, QueuedReady, ThreadsSound,
        Queued, OnMain, OnParallel, InHandoff, Retiring
  <1>5. NoUseAfterFree' /\ RegistrySound'
    BY <1>1, <1>2, SchedulerAssumption
    DEF IInv, TypeOK, OneOwner, NoUseAfterFree, QueuedReady, ThreadsSound, RegistrySound,
        Queued, OnMain, OnParallel, InHandoff, Retiring
  <1>6. QueuedReady'
    BY <1>1, <1>2, SchedulerAssumption
    DEF IInv, TypeOK, OneOwner, NoUseAfterFree, QueuedReady, ThreadsSound,
        Queued, OnMain, OnParallel, InHandoff, Retiring
  <1>7. ThreadsSound'
    BY <1>1, <1>2, SchedulerAssumption
    DEF IInv, TypeOK, OneOwner, NoUseAfterFree, QueuedReady, ThreadsSound,
        Queued, OnMain, OnParallel, InHandoff, Retiring
  <1>8. Exclusion'
    BY <1>1 DEF IInv, Exclusion
  <1>9. QED
    BY <1>3, <1>4, <1>5, <1>6, <1>7, <1>8 DEF IInv

\* coro_ready on a suspended coroutine.
LEMMA ReadyStep ==
  ASSUME IInv, NEW c \in Coro, coro_ready(c), proc' = "up"
  PROVE  IInv'
  <1>1. /\ proc' = "up" /\ mutex' = mutex /\ mpc' = mpc /\ stop' = stop
        /\ current_coro' = current_coro /\ pick' = pick /\ ppc' = ppc /\ pco' = pco
        /\ chan' = chan /\ status' = [status EXCEPT ![c] = "READY"] /\ sched' = sched
        /\ need_parallel' = need_parallel /\ alloc' = alloc /\ coroutine_rbt' = coroutine_rbt
        /\ parked' = parked \ {c}
        /\ c \in parked /\ insert_tail(sched[c], c)
    BY DEF coro_ready, Running, Die, mvars, pvars, qvars, cvars
  <1>2. /\ Heap(tq, qs)'
        /\ Waiting(g_mastersched)' = Waiting(g_mastersched) \cup {c}
        /\ \A r \in Queue : r # g_mastersched => Waiting(r)' = Waiting(r)
    <2>1. /\ c \in Coro /\ g_mastersched \in Queue /\ ~Queued(c)
          /\ sched[c] = g_mastersched
      BY <1>1, SchedulerAssumption
      DEF IInv, TypeOK, OneOwner, ThreadsSound
    <2>2. QED
      BY <1>1, <2>1, InsertEffect
  <1>3. TypeOK' /\ QueuesSound'
    BY <1>1, <1>2, SchedulerAssumption DEF IInv, TypeOK, QueuesSound, Heap, Coro
  <1>4. OneOwner'
    BY <1>1, <1>2, SchedulerAssumption
    DEF IInv, TypeOK, OneOwner, NoUseAfterFree, QueuedReady, ThreadsSound,
        Queued, OnMain, OnParallel, InHandoff, Retiring
  <1>5. NoUseAfterFree' /\ RegistrySound'
    BY <1>1, <1>2, SchedulerAssumption
    DEF IInv, TypeOK, OneOwner, NoUseAfterFree, QueuedReady, ThreadsSound, RegistrySound,
        Queued, OnMain, OnParallel, InHandoff, Retiring
  <1>6. QueuedReady'
    BY <1>1, <1>2, SchedulerAssumption
    DEF IInv, TypeOK, OneOwner, NoUseAfterFree, QueuedReady, ThreadsSound,
        Queued, OnMain, OnParallel, InHandoff, Retiring
  <1>7. ThreadsSound'
    BY <1>1, <1>2, SchedulerAssumption
    DEF IInv, TypeOK, OneOwner, NoUseAfterFree, QueuedReady, ThreadsSound,
        Queued, OnMain, OnParallel, InHandoff, Retiring
  <1>8. Exclusion'
    BY <1>1 DEF IInv, Exclusion
  <1>9. QED
    BY <1>3, <1>4, <1>5, <1>6, <1>7, <1>8 DEF IInv

\* coro_sent_parallel inserts under g_mutex.
LEMMA SentStep ==
  ASSUME IInv, coro_sent_parallel
  PROVE  IInv'
  <1>1. /\ proc' = proc /\ mutex' = "free" /\ mpc' = "sent_ok" /\ stop' = stop
        /\ current_coro' = current_coro /\ pick' = pick /\ ppc' = ppc /\ pco' = pco
        /\ chan' = chan /\ status' = status
        /\ sched' = [sched EXCEPT ![pick] = g_parallelsched]
        /\ need_parallel' = need_parallel /\ alloc' = alloc /\ coroutine_rbt' = coroutine_rbt
        /\ parked' = parked
        /\ mpc = "sent_crit" /\ insert_head(g_parallelsched, pick)
    BY DEF coro_sent_parallel, mvars, pvars, qvars, cvars
  <1>2. /\ Heap(tq, qs)'
        /\ Waiting(g_parallelsched)' = Waiting(g_parallelsched) \cup {pick}
        /\ \A r \in Queue : r # g_parallelsched => Waiting(r)' = Waiting(r)
    <2>1. pick \in Coro /\ g_parallelsched \in Queue /\ ~Queued(pick)
      BY <1>1, SchedulerAssumption
      DEF IInv, TypeOK, OneOwner, ThreadsSound, InHandoff
    <2>2. QED
      BY <1>1, <2>1, InsertEffect
  <1>3. TypeOK' /\ QueuesSound'
    BY <1>1, <1>2, SchedulerAssumption DEF IInv, TypeOK, QueuesSound, Heap, Coro
  <1>4. OneOwner'
    BY <1>1, <1>2, SchedulerAssumption
    DEF IInv, TypeOK, OneOwner, NoUseAfterFree, QueuedReady, ThreadsSound,
        Queued, OnMain, OnParallel, InHandoff, Retiring
  <1>5. NoUseAfterFree' /\ RegistrySound'
    BY <1>1, <1>2, SchedulerAssumption
    DEF IInv, TypeOK, OneOwner, NoUseAfterFree, QueuedReady, ThreadsSound, RegistrySound,
        Queued, OnMain, OnParallel, InHandoff, Retiring
  <1>6. QueuedReady'
    BY <1>1, <1>2, SchedulerAssumption
    DEF IInv, TypeOK, OneOwner, NoUseAfterFree, QueuedReady, ThreadsSound,
        Queued, OnMain, OnParallel, InHandoff, Retiring
  <1>7. ThreadsSound'
    BY <1>1, <1>2, SchedulerAssumption
    DEF IInv, TypeOK, OneOwner, NoUseAfterFree, QueuedReady, ThreadsSound,
        Queued, OnMain, OnParallel, InHandoff, Retiring
  <1>8. Exclusion'
    BY <1>1 DEF IInv, Exclusion
  <1>9. QED
    BY <1>3, <1>4, <1>5, <1>6, <1>7, <1>8 DEF IInv

\* parallel_run takes the first coroutine of its queue.
LEMMA ParallelPopStep ==
  ASSUME IInv, NEW c \in Coro, parallel_run_pop(c)
  PROVE  IInv'
  <1>1. /\ proc' = proc /\ mutex' = mutex /\ mpc' = mpc /\ stop' = stop
        /\ current_coro' = current_coro /\ pick' = pick /\ ppc' = "run" /\ pco' = c
        /\ chan' = chan /\ status' = status /\ sched' = sched
        /\ need_parallel' = need_parallel /\ alloc' = alloc /\ coroutine_rbt' = coroutine_rbt
        /\ parked' = parked
        /\ ppc = "crit" /\ ~TAILQ_EMPTY(tq, g_parallelsched) /\ pop(g_parallelsched, c)
    BY DEF parallel_run_pop, mvars, pvars, qvars, cvars
  <1>2. /\ Heap(tq, qs)' /\ c \in Waiting(g_parallelsched) /\ c \notin Waiting(g_mastersched)
        /\ Waiting(g_parallelsched)' = Waiting(g_parallelsched) \ {c}
        /\ \A r \in Queue : r # g_parallelsched => Waiting(r)' = Waiting(r)
    <2>1. c \in Waiting(g_parallelsched) => c \notin Waiting(g_mastersched)
      BY DEF IInv, OneOwner
    <2>2. QED
      BY <1>1, <2>1, PopEffect, SchedulerAssumption
  <1>3. TypeOK' /\ QueuesSound'
    BY <1>1, <1>2, SchedulerAssumption DEF IInv, TypeOK, QueuesSound, Heap, Coro
  <1>4. OneOwner'
    BY <1>1, <1>2, SchedulerAssumption
    DEF IInv, TypeOK, OneOwner, NoUseAfterFree, QueuedReady, ThreadsSound,
        Queued, OnMain, OnParallel, InHandoff, Retiring
  <1>5. NoUseAfterFree' /\ RegistrySound'
    BY <1>1, <1>2, SchedulerAssumption
    DEF IInv, TypeOK, OneOwner, NoUseAfterFree, QueuedReady, ThreadsSound, RegistrySound,
        Queued, OnMain, OnParallel, InHandoff, Retiring
  <1>6. QueuedReady'
    BY <1>1, <1>2, SchedulerAssumption
    DEF IInv, TypeOK, OneOwner, NoUseAfterFree, QueuedReady, ThreadsSound,
        Queued, OnMain, OnParallel, InHandoff, Retiring
  <1>7. ThreadsSound'
    BY <1>1, <1>2, SchedulerAssumption
    DEF IInv, TypeOK, OneOwner, NoUseAfterFree, QueuedReady, ThreadsSound,
        Queued, OnMain, OnParallel, InHandoff, Retiring
  <1>8. Exclusion'
    BY <1>1 DEF IInv, Exclusion
  <1>9. QED
    BY <1>3, <1>4, <1>5, <1>6, <1>7, <1>8 DEF IInv

\* sched_run_once switches to the first waiting coroutine.
LEMMA OnceStep ==
  ASSUME IInv, NEW c \in Coro, sched_run_once(c), proc' = "up"
  PROVE  IInv'
  <1>1. /\ proc' = "up" /\ mutex' = mutex /\ mpc' = mpc /\ stop' = stop /\ current_coro' = c
        /\ pick' = pick /\ ppc' = ppc /\ pco' = pco /\ chan' = chan
        /\ status' = [status EXCEPT ![current_coro] = "READY"] /\ sched' = sched
        /\ need_parallel' = need_parallel /\ alloc' = alloc /\ coroutine_rbt' = coroutine_rbt
        /\ parked' = parked
        /\ mpc = "run" /\ c = TAILQ_FIRST(tq, g_mastersched) /\ ~TAILQ_EMPTY(tq, g_mastersched)
        /\ tq' = TAILQ_INSERT_TAIL(TAILQ_REMOVE(tq, g_mastersched, c),
                                   sched[current_coro], current_coro)
        /\ qs' = [qs EXCEPT ![g_mastersched] = Append(Tail(qs[g_mastersched]), current_coro)]
    <2>1. /\ Running("sched_run_once") /\ ~TAILQ_EMPTY(tq, g_mastersched)
          /\ c = TAILQ_FIRST(tq, g_mastersched)
      BY DEF sched_run_once
    <2>2. c \in Waiting(g_mastersched)
      BY <2>1, InvHeap, HeapRemove, SchedulerAssumption DEF Waiting
    <2>3. status[c] # "EXIT"
      BY <2>2, SchedulerAssumption DEF IInv, QueuedReady
    <2>4. QED
      BY <2>1, <2>3 DEF sched_run_once, Running, Die, mvars, pvars, qvars, cvars
  <1>2. /\ Heap(tq, qs)' /\ c \in Waiting(g_mastersched) /\ c \notin Waiting(g_parallelsched)
        /\ Waiting(g_mastersched)' = (Waiting(g_mastersched) \ {c}) \cup {current_coro}
        /\ \A r \in Queue : r # g_mastersched => Waiting(r)' = Waiting(r)
    <2> DEFINE h == TAILQ_REMOVE(tq, g_mastersched, c)
               f == [qs EXCEPT ![g_mastersched] = Tail(qs[g_mastersched])]
    <2>1. /\ current_coro \in Elem /\ g_mastersched \in Queue /\ ~Queued(current_coro)
          /\ sched[current_coro] = g_mastersched
      BY <1>1, SchedulerAssumption
      DEF IInv, TypeOK, OneOwner, ThreadsSound, OnMain, Coro
    <2>2. Heap(tq, qs) /\ qs \in [Queue -> Seq(Elem)]
      BY InvHeap DEF Heap
    <2>3. /\ Heap(h, f) /\ c \in Members(qs[g_mastersched])
          /\ qs[g_mastersched] # << >>
          /\ Members(Tail(qs[g_mastersched])) = Members(qs[g_mastersched]) \ {c}
      BY <1>1, <2>1, <2>2, HeapRemove
    <2>4. /\ f[g_mastersched] = Tail(qs[g_mastersched])
          /\ \A r \in Queue : r # g_mastersched => f[r] = qs[r]
          /\ f \in [Queue -> Seq(Elem)]
      BY <2>2, <2>3 DEF Heap
    <2>5. qs' = [f EXCEPT ![g_mastersched] = Append(f[g_mastersched], current_coro)]
      BY <1>1, <2>1, <2>2, <2>4
    <2> HIDE DEF h, f
    <2>6. Absent(f, current_coro)
      BY <2>1, <2>3, <2>4 DEF Absent, Queued, Waiting
    <2>7. Heap(TAILQ_INSERT_TAIL(h, g_mastersched, current_coro),
               [f EXCEPT ![g_mastersched] = Append(f[g_mastersched], current_coro)])
      BY <2>1, <2>3, <2>6, HeapInsertTail
    <2>8. Heap(tq', qs')
      BY <1>1, <2>1, <2>5, <2>7 DEF h
    <2>9. /\ qs'[g_mastersched] = Append(f[g_mastersched], current_coro)
          /\ \A r \in Queue : r # g_mastersched => qs'[r] = qs[r]
      BY <2>1, <2>4, <2>5
    <2>10. Members(qs'[g_mastersched]) = Members(f[g_mastersched]) \cup {current_coro}
      <3>1. f[g_mastersched] \in Seq(Elem)
        BY <2>1, <2>4
      <3>2. QED
        BY <2>1, <2>9, <3>1, MembersFacts
    <2>11. c \notin Waiting(g_parallelsched)
      BY <2>3 DEF IInv, OneOwner, Waiting
    <2>12. QED
      BY <2>3, <2>4, <2>8, <2>9, <2>10, <2>11 DEF Waiting, Heap
  <1>3. TypeOK' /\ QueuesSound'
    BY <1>1, <1>2, SchedulerAssumption DEF IInv, TypeOK, QueuesSound, Heap, Coro
  <1>4. OneOwner'
    BY <1>1, <1>2, SchedulerAssumption
    DEF IInv, TypeOK, OneOwner, NoUseAfterFree, QueuedReady, ThreadsSound,
        Queued, OnMain, OnParallel, InHandoff, Retiring
  <1>5. NoUseAfterFree' /\ RegistrySound'
    BY <1>1, <1>2, SchedulerAssumption
    DEF IInv, TypeOK, OneOwner, NoUseAfterFree, QueuedReady, ThreadsSound, RegistrySound,
        Queued, OnMain, OnParallel, InHandoff, Retiring
  <1>6. QueuedReady'
    BY <1>1, <1>2, SchedulerAssumption
    DEF IInv, TypeOK, OneOwner, NoUseAfterFree, QueuedReady, ThreadsSound,
        Queued, OnMain, OnParallel, InHandoff, Retiring
  <1>7. ThreadsSound'
    BY <1>1, <1>2, SchedulerAssumption
    DEF IInv, TypeOK, OneOwner, NoUseAfterFree, QueuedReady, ThreadsSound,
        Queued, OnMain, OnParallel, InHandoff, Retiring
  <1>8. Exclusion'
    BY <1>1 DEF IInv, Exclusion
  <1>9. QED
    BY <1>3, <1>4, <1>5, <1>6, <1>7, <1>8 DEF IInv

-----------------------------------------------------------------------------
(***************************************************************************)
(* The invariant of the schedulers.                                        *)
(***************************************************************************)
LEMMA InitStep == Init => IInv
  <1> SUFFICES ASSUME Init PROVE IInv
    OBVIOUS
  <1>1. /\ tq = TAILQ_INIT /\ qs \in [Queue -> Seq(Elem)]
        /\ \A q \in Queue : qs[q] = << >> /\ Waiting(q) = {}
    BY DEF Init, Waiting, Members
  <1>2. TypeOK /\ QueuesSound
    <2>1. tq \in TailQueueType /\ \A q \in Queue : Holds(tq, q, qs[q])
      BY <1>1, InitHolds
    <2>2. chan \in Seq(Coro \cup {NULL})
      BY DEF Init
    <2>3. TypeOK
      BY <1>1, <2>1, <2>2 DEF Init, TypeOK, Coro
    <2>4. QED
      BY <2>1, <2>3 DEF QueuesSound
  <1>3. OneOwner /\ NoUseAfterFree
    BY <1>1, SchedulerAssumption
    DEF Init, OneOwner, NoUseAfterFree, Queued, OnMain, OnParallel, InHandoff, Retiring
  <1>4. RegistrySound /\ Exclusion /\ QueuedReady /\ ThreadsSound
    BY <1>1 DEF Init, RegistrySound, Exclusion, QueuedReady, ThreadsSound
  <1>5. QED
    BY <1>2, <1>3, <1>4 DEF IInv

\* The steps of env_run and sched_run.
LEMMA MasterStep ==
  ASSUME IInv, EnvRun \/ env_run_fails \/ SchedRun
  PROVE  IInv'
  <1>1. CASE sched_run_faults
    BY <1>1, DieStep DEF sched_run_faults
  <1>2. CASE sched_run_sent
    <2>1. mpc = "sent_ok" /\ status[pick] = "READY"
      BY <1>2 DEF sched_run_sent, IInv, ThreadsSound
    <2>2. Die("abort")
      BY <1>2, <2>1 DEF sched_run_sent, CanReadyImmediatly
    <2>3. QED
      BY <2>2, DieStep
  <1>3. QED
    BY <1>1, <1>2, EnvRunStep, EnvRunFailsStep, EnvRunLockStep, EnvRunUnlockStep,
       SchedExitStep, PopStep, BackStep, TrylockStep, SentStep
    DEF EnvRun, SchedRun

\* The calls of a coroutine on the main thread, coro_switch_to_parallel
\* excepted.
LEMMA CallStep ==
  ASSUME IInv, Calls, ~coro_switch_to_parallel
  PROVE  IInv'
  <1>1. CASE \E c \in Coro : spawn(c)
    BY <1>1, SpawnStep, SchedulerAssumption DEF spawn
  <1>2. ASSUME NEW c \in Coro, coro_ready(c) PROVE IInv'
    <2>1. proc' = "up" \/ Die("abort")
      BY <1>2 DEF coro_ready, Running
    <2>2. QED
      BY <1>2, <2>1, ReadyStep, DieStep
  <1>3. ASSUME NEW c \in Coro, sched_run_once(c) PROVE IInv'
    <2>1. proc' = "up" \/ Die("abort") \/ Die("segv")
      BY <1>3 DEF sched_run_once, Running
    <2>2. QED
      BY <1>3, <2>1, OnceStep, DieStep
  <1>4. CASE coro_yield
    <2>1. proc' = "up" \/ Die("abort")
      BY <1>4 DEF coro_yield, Running
    <2>2. QED
      BY <1>4, <2>1, YieldStep, DieStep
  <1>5. CASE coro_exit
    <2>1. proc' = "up" \/ Die("abort")
      BY <1>5 DEF coro_exit, Running
    <2>2. QED
      BY <1>5, <2>1, ExitStep, DieStep
  <1>6. CASE fn_returns \/ register_event
    <2>1. Die("abort")
      BY <1>6 DEF fn_returns, register_event, g_eventmgr
    <2>2. QED
      BY <2>1, DieStep
  <1>7. CASE set_need_parallel \/ suspend \/ env_stop
    BY <1>7, NeedParallelStep, SuspendStep, StopStep
  <1>8. QED
    BY <1>1, <1>2, <1>3, <1>4, <1>5, <1>6, <1>7 DEF Calls, GiveUp

\* A stuttering step.
LEMMA UnchangedStep ==
  ASSUME IInv, UNCHANGED vars
  PROVE  IInv'
  <1>1. /\ proc' = proc /\ mutex' = mutex /\ mpc' = mpc /\ stop' = stop
        /\ current_coro' = current_coro /\ pick' = pick /\ ppc' = ppc /\ pco' = pco
        /\ chan' = chan /\ tq' = tq /\ qs' = qs /\ status' = status /\ sched' = sched
        /\ need_parallel' = need_parallel /\ alloc' = alloc
        /\ coroutine_rbt' = coroutine_rbt /\ parked' = parked
    BY DEF vars, mvars, pvars, qvars, cvars
  <1>2. QED
    BY <1>1 DEF IInv, TypeOK, QueuesSound, OneOwner, NoUseAfterFree, RegistrySound,
                Exclusion, QueuedReady, ThreadsSound, Waiting, Queued, OnMain, OnParallel,
                InHandoff, Retiring

\* The steps of the parallel thread.
LEMMA ParallelStep ==
  ASSUME IInv, Parallel
  PROVE  IInv'
  <1>1. CASE parallel_yield_or_exit
    BY <1>1, DieStep DEF parallel_yield_or_exit
  <1>2. CASE parallel_run_busy
    BY <1>2, UnchangedStep DEF parallel_run_busy
  <1>3. QED
    BY <1>1, <1>2, ParallelLockStep, ParallelUnlockStep, ParallelEmptyStep,
       ParallelPopStep, ParallelSwitchStep, SwitchBackStep
    DEF Parallel

\* A program that does not list coro_switch_to_parallel never calls it.
LEMMA NeverSwitches ==
  ASSUME "coro_switch_to_parallel" \notin Uses
  PROVE  ~coro_switch_to_parallel
  BY DEF coro_switch_to_parallel, Running

\* Every step but coro_switch_to_parallel keeps the inductive invariant.
LEMMA NextStep ==
  ASSUME IInv, [Next]_vars, ~coro_switch_to_parallel
  PROVE  IInv'
  <1>1. CASE \E s \in Queue, c \in Coro : main_spawn(s, c)
    BY <1>1, SpawnStep DEF main_spawn
  <1>2. CASE Terminated \/ UNCHANGED vars
    BY <1>2, UnchangedStep DEF Terminated
  <1>3. QED
    BY <1>1, <1>2, MasterStep, CallStep, ParallelStep DEF Next

\* For every program that does not call coro_switch_to_parallel, whatever the
\* number of coroutines and however the two threads interleave: the queues
\* hold what was put into them, every coroutine has one owner, nothing freed
\* is reached, the tree registers exactly the allocated coroutines, and the
\* sections under g_mutex exclude each other.
THEOREM SchedulerSafe ==
  ASSUME "coro_switch_to_parallel" \notin Uses
  PROVE  Spec => [](TypeOK /\ QueuesSound /\ OneOwner /\ NoUseAfterFree /\ RegistrySound
                    /\ Exclusion)
  <1>1. IInv /\ [Next]_vars => IInv'
    BY NextStep, NeverSwitches
  <1>2. Spec => []IInv
    BY InitStep, <1>1, PTL DEF Spec
  <1>3. IInv => TypeOK /\ QueuesSound /\ OneOwner /\ NoUseAfterFree /\ RegistrySound
                /\ Exclusion
    BY DEF IInv
  <1>4. QED
    BY <1>2, <1>3, PTL

\* The wait_sched_queues hold exactly what coro_ready, coro_sent_parallel and
\* sched_run put in and have not taken out, whatever the two threads do.
THEOREM QueuesNeverBroken ==
  ASSUME "coro_switch_to_parallel" \notin Uses
  PROVE  Spec => []QueuesSound
  BY SchedulerSafe, PTL

\* What coro_dealloc has freed is in no queue, on no thread and in no local
\* variable that is still used.
THEOREM FreedIsUnreachable ==
  ASSUME "coro_switch_to_parallel" \notin Uses
  PROVE  Spec => []NoUseAfterFree
  BY SchedulerSafe, PTL

-----------------------------------------------------------------------------
(***************************************************************************)
(* Every program, coro_switch_to_parallel included.                        *)
(***************************************************************************)
\* Each step registers what it allocates and deletes from the tree what it
\* frees, so sched_get_coro is right in every program.
THEOREM RegistryInStep == Spec => []RegistrySound
  <1>1. Init => RegistrySound
    BY DEF Init, RegistrySound
  <1>2. ASSUME RegistrySound, [Next]_vars PROVE RegistrySound'
    <2>1. CASE \E s \in Queue, c \in Coro : main_spawn(s, c) \/ spawn(c)
      BY <1>2, <2>1 DEF main_spawn, spawn, coro_spawn, RegistrySound
    <2>2. CASE sched_run_back
      BY <1>2, <2>2 DEF sched_run_back, RegistrySound
    <2>3. ASSUME NEW how, Die(how) PROVE RegistrySound'
      BY <1>2, <2>3 DEF Die, cvars, RegistrySound
    <2>4. CASE EnvRun \/ env_run_fails \/ SchedRun
      BY <1>2, <2>2, <2>3, <2>4
      DEF EnvRun, env_run, env_run_fails, env_run_lock, env_run_unlock, SchedRun,
          sched_run_exit, sched_run_faults, sched_run_pop, coro_sent_parallel_trylock,
          coro_sent_parallel, sched_run_sent, cvars, RegistrySound
    <2>5. CASE Calls
      BY <1>2, <2>1, <2>3, <2>5, SchedulerAssumption
      DEF Calls, GiveUp, coro_ready, sched_run_once, set_need_parallel, coro_yield, coro_exit,
          suspend, coro_switch_to_parallel, fn_returns, env_stop, register_event, cvars,
          RegistrySound
    <2>6. CASE Parallel
      BY <1>2, <2>3, <2>6
      DEF Parallel, parallel_main_lock, parallel_main_unlock, parallel_run_trylock,
          parallel_run_busy, parallel_run_empty, parallel_run_pop, parallel_yield_or_exit,
          parallel_coro_switch, coro_switch_to_master, vars, cvars, RegistrySound
    <2>7. CASE Terminated \/ UNCHANGED vars
      BY <1>2, <2>7 DEF Terminated, vars, cvars, RegistrySound
    <2>8. QED
      BY <1>2, <2>1, <2>4, <2>5, <2>6, <2>7 DEF Next
  <1>3. QED
    BY <1>1, <1>2, PTL DEF Spec

\* g_mutex has one owner, who is in the section, in every program: a failed
\* trylock enters no section and an unlock is made by the owner only.
THEOREM SectionsExclude == Spec => []Exclusion
  <1>1. Init => Exclusion
    BY DEF Init, Exclusion
  <1>2. ASSUME Exclusion, [Next]_vars PROVE Exclusion'
    <2>1. ASSUME UNCHANGED <<mutex, mpc, ppc>> PROVE Exclusion'
      BY <1>2, <2>1 DEF Exclusion
    <2>2. CASE \E s \in Queue, c \in Coro : main_spawn(s, c) \/ spawn(c)
      BY <2>1, <2>2 DEF main_spawn, spawn, coro_spawn, mvars, pvars
    <2>3. ASSUME NEW how, Die(how) PROVE Exclusion'
      BY <2>1, <2>3 DEF Die, mvars, pvars
    <2>4. CASE EnvRun \/ env_run_fails \/ SchedRun
      BY <1>2, <2>3, <2>4
      DEF EnvRun, env_run, env_run_fails, env_run_lock, env_run_unlock, SchedRun,
          sched_run_exit, sched_run_faults, sched_run_pop, sched_run_back,
          coro_sent_parallel_trylock, coro_sent_parallel, sched_run_sent, pvars, Exclusion
    <2>5. CASE Calls
      <3>1. ASSUME mpc = "run", UNCHANGED <<mutex, ppc>>, mpc' \in {"run", "back"}
            PROVE  Exclusion'
        BY <1>2, <3>1 DEF Exclusion
      <3>2. QED
        BY <2>2, <2>3, <2>5, <3>1, SchedulerAssumption
        DEF Calls, GiveUp, Running, coro_ready, sched_run_once, set_need_parallel,
            coro_yield, coro_exit, suspend, coro_switch_to_parallel, fn_returns, env_stop,
            register_event, mvars, pvars
    <2>6. CASE Parallel
      BY <1>2, <2>1, <2>3, <2>6
      DEF Parallel, parallel_main_lock, parallel_main_unlock, parallel_run_trylock,
          parallel_run_busy, parallel_run_empty, parallel_run_pop, parallel_yield_or_exit,
          parallel_coro_switch, coro_switch_to_master, vars, mvars, pvars, Exclusion
    <2>7. CASE Terminated \/ UNCHANGED vars
      BY <2>1, <2>7 DEF Terminated, vars, mvars, pvars
    <2>8. QED
      BY <1>2, <2>2, <2>4, <2>5, <2>6, <2>7 DEF Next
  <1>3. QED
    BY <1>1, <1>2, PTL DEF Spec

-----------------------------------------------------------------------------
(***************************************************************************)
(* What coro_switch_to_parallel leaves behind.                             *)
(***************************************************************************)
\* The coroutine that inserted itself twice is the first of the master queue
\* and stays it: its tqe_prev never points to the head, so TAILQ_REMOVE does
\* not move tqh_first.  As need_parallel is set, sched_run only ever tries to
\* hand it over, and coro_ready_immediatly rejects it when it is M_READY.  It
\* is not in the parallel queue, which its hand-over therefore leaves intact.
Doomed == TAILQ_FIRST(tq, g_mastersched)

Broken ==
  /\ mpc \in {"back", "sched", "sent", "sent_crit", "sent_ok", "returned"}
  /\ tq \in TailQueueType
  /\ qs \in [Queue -> Seq(Elem)]
  /\ Holds(tq, g_parallelsched, qs[g_parallelsched])
  /\ mpc \in {"back", "sched", "sent", "sent_crit"} =>
       /\ Doomed \in Coro \ Waiting(g_parallelsched)
       /\ need_parallel[Doomed] /\ status[Doomed] = "READY"
       /\ tq.link[Doomed] \in {NULL, Doomed}
       /\ tq.back[Doomed] \in {NULL} \cup (Elem \ Waiting(g_parallelsched))
  /\ mpc \in {"sent", "sent_crit"} => pick = Doomed
  /\ mpc \in {"sent", "sent_crit", "sent_ok"} => status[pick] = "READY"

\* A queue whose own cells are untouched holds what it held.
LEMMA HoldsFrame ==
  ASSUME NEW h, NEW k, NEW q \in Queue, NEW s \in Seq(Elem), Holds(h, q, s),
         \A x \in Members(s) \cup {q} : k.link[x] = h.link[x] /\ k.back[x] = h.back[x]
  PROVE  Holds(k, q, s)
  <1>1. \A i \in 1 .. Len(s) : s[i] \in Members(s)
    BY DEF Members
  <1>2. QED
    BY <1>1 DEF Holds, Linked

\* Inserting one entry at both ends of the master queue.
LEMMA SwitchBreaks ==
  ASSUME IInv, coro_switch_to_parallel
  PROVE  IInv' \/ Broken'
  <1> DEFINE co == current_coro
             gm == g_mastersched
             gp == g_parallelsched
             h1 == TAILQ_INSERT_HEAD(tq, gm, co)
             h2 == TAILQ_INSERT_TAIL(h1, gm, co)
             s1 == <<co>> \o qs[gm]
             f1 == [qs EXCEPT ![gm] = s1]
  <1>1. CASE Die("abort")
    BY <1>1, DieStep
  <1>2. CASE ~Die("abort")
    <2>1. /\ mpc = "run" /\ sched[co] = gm /\ co \in Coro /\ co \in Elem
          /\ ~Queued(co) /\ need_parallel[co]
      BY CellAssumption
      DEF coro_switch_to_parallel, Running, IInv, ThreadsSound, TypeOK, OneOwner, OnMain, Coro
    <2>2. /\ status' = [status EXCEPT ![co] = "READY"] /\ tq' = h2
          /\ qs' = [qs EXCEPT ![gm] = Append(s1, co)]
          /\ mpc' = "back" /\ need_parallel' = need_parallel
      BY <1>2, <2>1 DEF coro_switch_to_parallel, h1, h2, s1, co, gm
    <2>3. gm \in Queue /\ gp \in Queue /\ gm # gp /\ gm \notin Elem /\ gp \notin Elem
      BY SchedulerAssumption, CellAssumption
    <2>4. Heap(tq, qs) /\ qs \in [Queue -> Seq(Elem)]
      BY InvHeap DEF Heap
    <2>5. Heap(h1, f1)
      <3>1. Absent(qs, co)
        BY <2>1 DEF Queued, Waiting, Absent
      <3>2. QED
        BY <2>1, <2>3, <2>4, <3>1, HeapInsertHead
    <2>6. s1 \in Seq(Elem) /\ s1[1] = co /\ Len(s1) \in Nat /\ Len(s1) >= 1
      <3>1. qs[gm] \in Seq(Elem)
        BY <2>3, <2>4
      <3>2. QED
        BY <2>1, <3>1
    <2>7. f1[gm] = s1 /\ f1[gp] = qs[gp]
      BY <2>3, <2>4
    <2> DEFINE last == s1[Len(s1)]
    <2> HIDE DEF h1, s1, f1
    <2>8. /\ h1 \in TailQueueType /\ Holds(h1, gm, s1) /\ Holds(h1, gp, qs[gp])
          /\ Members(s1) \cap Members(qs[gp]) = {}
      BY <2>3, <2>5, <2>7 DEF Heap
    <2>9. /\ h1.link[gm] = co /\ h1.back[gm] = last
          /\ co \in Members(s1) /\ last \in Members(s1) /\ last \in Elem
      <3>1. s1 # << >>
        BY <2>6
      <3>2. h1.link[gm] = co /\ h1.back[gm] = last
        BY <2>6, <2>8, <3>1 DEF Holds, Linked
      <3>3. 1 \in 1 .. Len(s1) /\ Len(s1) \in 1 .. Len(s1)
        BY <2>6
      <3>4. QED
        BY <2>6, <3>2, <3>3 DEF Members
    <2> HIDE DEF last
    <2>10. /\ h2 = [link |-> [h1.link EXCEPT ![co] = NULL, ![last] = co],
                    back |-> [h1.back EXCEPT ![co] = last, ![gm] = co]]
      BY <2>9 DEF TAILQ_INSERT_TAIL
    <2> HIDE DEF h2
    <2>11. /\ h2 \in TailQueueType /\ h2.link[gm] = co /\ h2.link[co] \in {NULL, co}
           /\ h2.back[co] = last
           /\ \A x \in Cell \ {co, last, gm} :
                h2.link[x] = h1.link[x] /\ h2.back[x] = h1.back[x]
      BY <2>1, <2>3, <2>8, <2>9, <2>10 DEF TailQueueType, Cell
    <2>12. qs[gp] \in Seq(Elem) /\ Members(qs[gp]) \subseteq Elem
      <3>1. qs[gp] \in Seq(Elem)
        BY <2>3, <2>4
      <3>2. QED
        BY <2>1, <3>1, MembersFacts
    <2>13. Holds(h2, gp, qs[gp])
      <3>1. \A x \in Members(qs[gp]) \cup {gp} : x \in Cell \ {co, last, gm}
        BY <2>1, <2>3, <2>8, <2>9, <2>12 DEF Cell
      <3>2. QED
        BY <2>3, <2>8, <2>11, <2>12, <3>1, HoldsFrame
    <2>14. qs' \in [Queue -> Seq(Elem)] /\ qs'[gp] = qs[gp]
      BY <2>1, <2>2, <2>3, <2>4, <2>6
    <2>15. Waiting(gp)' = Members(qs[gp])
      BY <2>14 DEF Waiting
    <2>16. Doomed' = co
      BY <2>2, <2>11 DEF Doomed, TAILQ_FIRST
    <2>17. status'[co] = "READY" /\ need_parallel'[co]
      BY <2>1, <2>2 DEF IInv, TypeOK
    <2>18. /\ tq' \in TailQueueType /\ Holds(tq', gp, qs'[gp])
           /\ co \in Coro \ Members(qs[gp])
           /\ tq'.link[co] \in {NULL, co} /\ tq'.back[co] \in Elem \ Members(qs[gp])
      BY <2>1, <2>2, <2>8, <2>9, <2>11, <2>13, <2>14
    <2>19. QED
      BY <2>2, <2>14, <2>15, <2>16, <2>17, <2>18 DEF Broken
  <1>3. QED
    BY <1>1, <1>2

\* sched_run takes the doomed coroutine out and it is still the first one.
LEMMA BrokenPop ==
  ASSUME Broken, NEW c \in Coro, sched_run_pop(c)
  PROVE  Broken'
  <1> DEFINE gm == g_mastersched
             gp == g_parallelsched
             h  == TAILQ_REMOVE(tq, gm, c)
             t  == qs[gp]
  <1>1. /\ mpc = "sched" /\ c = Doomed /\ ~RemoveFaults(tq, c)
        /\ tq' = h /\ pick' = c
        /\ qs' = [qs EXCEPT ![gm] = IF qs[gm] = << >> THEN << >> ELSE Tail(qs[gm])]
        /\ need_parallel' = need_parallel
    BY DEF sched_run_pop, pop, Doomed, TAILQ_FIRST
  <1>2. /\ tq \in TailQueueType /\ qs \in [Queue -> Seq(Elem)] /\ Holds(tq, gp, t)
        /\ c \in Elem /\ c \notin Members(t) /\ need_parallel[c] /\ status[c] = "READY"
        /\ tq.link[c] \in {NULL, c} /\ tq.back[c] \in Elem \ Members(t)
        /\ tq.link[gm] = c
    BY <1>1 DEF Broken, Waiting, RemoveFaults, Doomed, TAILQ_FIRST, Coro
  <1>3. mpc' = "sent" /\ status' = status
    BY <1>2 DEF sched_run_pop
  <1>4. /\ gm \in Queue /\ gp \in Queue /\ gm # gp /\ gm \notin Elem /\ gp \notin Elem
        /\ NULL \notin Elem /\ NULL \notin Queue
    BY SchedulerAssumption, CellAssumption DEF Cell
  <1> DEFINE p == tq.back[c]
             n == IF tq.link[c] = NULL THEN gm ELSE tq.link[c]
  <1>5. h = [link |-> [tq.link EXCEPT ![p] = tq.link[c], ![c] = NULL],
             back |-> [tq.back EXCEPT ![n] = p, ![c] = NULL]]
    BY DEF TAILQ_REMOVE
  <1>6. n \in {gm, c} /\ p \in Elem \ Members(t)
    BY <1>2
  <1> HIDE DEF n, p, h
  <1>7. /\ h \in TailQueueType /\ h.link[gm] = c /\ h.link[c] = NULL /\ h.back[c] = NULL
        /\ \A x \in Cell \ {p, c, gm} : h.link[x] = tq.link[x] /\ h.back[x] = tq.back[x]
    BY <1>2, <1>4, <1>5, <1>6 DEF TailQueueType, Cell
  <1>8. t \in Seq(Elem) /\ Members(t) \subseteq Elem
    BY <1>2, <1>4, MembersFacts
  <1> HIDE DEF t
  <1>9. Holds(h, gp, t)
    <2>1. \A x \in Members(t) \cup {gp} : x \in Cell \ {p, c, gm}
      BY <1>2, <1>4, <1>6, <1>8 DEF Cell
    <2>2. QED
      BY <1>2, <1>4, <1>7, <1>8, <2>1, HoldsFrame
  <1>10. qs' \in [Queue -> Seq(Elem)] /\ qs'[gp] = t
    BY <1>1, <1>2, <1>4 DEF t
  <1>11. Waiting(gp)' = Members(t) /\ Doomed' = c
    BY <1>1, <1>7, <1>10 DEF Waiting, Doomed, TAILQ_FIRST
  <1>12. QED
    BY <1>1, <1>2, <1>3, <1>7, <1>9, <1>10, <1>11 DEF Broken

\* The parallel thread takes coroutines out of its own queue meanwhile.
LEMMA BrokenParallelPop ==
  ASSUME Broken, NEW c \in Coro, parallel_run_pop(c)
  PROVE  Broken'
  <1> DEFINE gm == g_mastersched
             gp == g_parallelsched
             h  == TAILQ_REMOVE(tq, gp, c)
             t  == qs[gp]
             d  == Doomed
  <1>1. /\ mpc' = mpc /\ status' = status /\ need_parallel' = need_parallel /\ pick' = pick
        /\ c = TAILQ_FIRST(tq, gp) /\ ~TAILQ_EMPTY(tq, gp) /\ tq' = h
        /\ qs' = [qs EXCEPT ![gp] = IF t = << >> THEN << >> ELSE Tail(t)]
    BY DEF parallel_run_pop, pop, mvars, cvars
  <1>2. /\ gm \in Queue /\ gp \in Queue /\ gm # gp /\ gm \notin Elem /\ gp \notin Elem
        /\ NULL \notin Elem /\ NULL \notin Queue
    BY SchedulerAssumption, CellAssumption DEF Cell
  <1>3. /\ tq \in TailQueueType /\ qs \in [Queue -> Seq(Elem)] /\ Holds(tq, gp, t)
        /\ t \in Seq(Elem)
    BY <1>2 DEF Broken
  <1> HIDE DEF t, d
  <1>4. t # << >> /\ c = Head(t) /\ c \in Elem
    BY <1>1, <1>2, <1>3, HoldsNoFault
  <1>5. /\ c \in Members(t) /\ Members(Tail(t)) = Members(t) \ {c} /\ Tail(t) \in Seq(Elem)
    <2>1. Distinct(t)
      BY <1>3 DEF Holds
    <2>2. c \in Members(t) /\ Members(Tail(t)) = Members(t) \ {c}
      BY <1>3, <1>4, <2>1, MembersFacts
    <2>3. Tail(t) \in Seq(Elem)
      BY <1>3, <1>4
    <2>4. QED
      BY <2>2, <2>3
  <1>6. h \in TailQueueType /\ Holds(h, gp, Tail(t))
    BY <1>2, <1>3, <1>4, RemoveHolds
  <1>7. qs' \in [Queue -> Seq(Elem)] /\ qs'[gp] = Tail(t)
    BY <1>1, <1>2, <1>3, <1>4, <1>5
  <1>8. mpc' \in {"sent", "sent_crit", "sent_ok"} => status'[pick'] = "READY"
    BY <1>1 DEF Broken
  <1>9. CASE mpc \notin {"back", "sched", "sent", "sent_crit"}
    BY <1>1, <1>6, <1>7, <1>8, <1>9 DEF Broken
  <1>10. CASE mpc \in {"back", "sched", "sent", "sent_crit"}
    <2>1. /\ d \in Elem /\ d \notin Members(t) /\ need_parallel[d] /\ status[d] = "READY"
          /\ tq.link[d] \in {NULL, d} /\ tq.back[d] \in {NULL} \cup (Elem \ Members(t))
          /\ tq.link[gm] = d
          /\ mpc \in {"sent", "sent_crit"} => pick = d
      BY <1>10 DEF Broken, Waiting, Doomed, TAILQ_FIRST, Coro, t, d
    <2> DEFINE n == IF tq.link[c] = NULL THEN gp ELSE tq.link[c]
    <2>2. tq.back[c] = gp /\ n \in Members(t) \cup {gp}
      <3>1. /\ 1 \in 1 .. Len(t) /\ c = t[1]
            /\ Len(t) # 1 => 2 \in 1 .. Len(t)
        BY <1>3, <1>4, SeqFacts
      <3>2. /\ tq.link[t[1]] = IF 1 = Len(t) THEN NULL ELSE t[1 + 1]
            /\ tq.back[t[1]] = IF 1 = 1 THEN gp ELSE t[1 - 1]
        BY <1>3, <3>1 DEF Holds, Linked
      <3>3. tq.back[c] = gp /\ (Len(t) = 1 => tq.link[c] = NULL)
            /\ (Len(t) # 1 => tq.link[c] = t[2])
        BY <3>1, <3>2
      <3>4. QED
        BY <3>1, <3>3 DEF Members
    <2>3. h = [link |-> [tq.link EXCEPT ![gp] = tq.link[c], ![c] = NULL],
               back |-> [tq.back EXCEPT ![n] = gp, ![c] = NULL]]
      BY <2>2 DEF TAILQ_REMOVE
    <2> HIDE DEF n, h
    <2>4. d # c /\ d # n /\ gm # c /\ gm # n /\ d # gp
      <3>1. Members(t) \subseteq Elem
        BY <1>3, <1>4, MembersFacts
      <3>2. QED
        BY <1>2, <1>5, <2>1, <2>2, <3>1
    <2>5. h.link[gm] = d /\ h.link[d] = tq.link[d] /\ h.back[d] = tq.back[d]
      BY <1>2, <1>3, <2>1, <2>3, <2>4 DEF TailQueueType, Cell
    <2>6. Waiting(gp)' = Members(t) \ {c} /\ Doomed' = d
      BY <1>1, <1>5, <1>7, <2>5 DEF Waiting, Doomed, TAILQ_FIRST
    <2>7. /\ tq' \in TailQueueType /\ Holds(tq', gp, qs'[gp])
          /\ d \in Coro /\ d \notin Members(t) \ {c}
          /\ tq'.link[d] \in {NULL, d}
          /\ tq'.back[d] \in {NULL} \cup (Elem \ (Members(t) \ {c}))
          /\ need_parallel'[d] /\ status'[d] = "READY"
          /\ mpc' \in {"sent", "sent_crit"} => pick' = d
      BY <1>1, <1>6, <1>7, <2>1, <2>5 DEF Coro
    <2>8. QED
      BY <1>1, <1>7, <1>8, <1>10, <2>6, <2>7 DEF Broken
  <1>11. QED
    BY <1>9, <1>10

\* The doomed coroutine goes to the parallel queue, where it is not yet.
LEMMA BrokenSent ==
  ASSUME Broken, coro_sent_parallel
  PROVE  Broken'
  <1> DEFINE gp == g_parallelsched
             t  == qs[gp]
             h  == TAILQ_INSERT_HEAD(tq, gp, pick)
  <1>1. /\ mpc = "sent_crit" /\ mpc' = "sent_ok" /\ pick' = pick /\ status' = status
        /\ tq' = h /\ qs' = [qs EXCEPT ![gp] = <<pick>> \o t]
    BY DEF coro_sent_parallel, insert_head
  <1>2. /\ tq \in TailQueueType /\ qs \in [Queue -> Seq(Elem)] /\ Holds(tq, gp, t)
        /\ gp \in Queue /\ t \in Seq(Elem)
        /\ pick \in Elem /\ pick \notin Members(t) /\ status[pick] = "READY"
    BY <1>1, SchedulerAssumption DEF Broken, Waiting, Coro
  <1> HIDE DEF t
  <1>3. \A i \in 1 .. Len(t) : t[i] # pick
    BY <1>2 DEF Members
  <1>4. h \in TailQueueType /\ Holds(h, gp, <<pick>> \o t)
    BY <1>2, <1>3, InsertHeadHolds
  <1> HIDE DEF h
  <1>5. <<pick>> \o t \in Seq(Elem)
    BY <1>2
  <1>6. qs' \in [Queue -> Seq(Elem)] /\ qs'[gp] = <<pick>> \o t
    BY <1>1, <1>2, <1>5
  <1>7. QED
    BY <1>1, <1>2, <1>4, <1>6 DEF Broken

\* No step leads out of Broken: the process can only die or return.
LEMMA BrokenStep ==
  ASSUME Broken, [Next]_vars
  PROVE  Broken'
  <1>1. ASSUME UNCHANGED <<mpc, tq, qs, need_parallel, status, pick>> PROVE Broken'
    BY <1>1 DEF Broken, Doomed, Waiting
  <1>2. mpc \notin {"main", "env_lock", "env_crit", "run"}
    BY DEF Broken
  <1>3. ASSUME NEW how, Die(how) PROVE Broken'
    BY <1>1, <1>3 DEF Die, mvars, qvars, cvars
  <1>4. ~(\E s \in Queue, c \in Coro : main_spawn(s, c)) /\ ~EnvRun /\ ~env_run_fails
    BY <1>2 DEF main_spawn, EnvRun, env_run, env_run_lock, env_run_unlock, env_run_fails
  <1>5. ~Calls
    BY <1>2 DEF Calls, GiveUp, Running, spawn, coro_ready, sched_run_once, set_need_parallel,
                coro_yield, coro_exit, suspend, coro_switch_to_parallel, fn_returns,
                env_stop, register_event
  <1>6. CASE SchedRun
    <2>1. CASE sched_run_exit
      BY <2>1 DEF sched_run_exit, Broken, qvars, cvars
    <2>2. CASE sched_run_faults
      BY <1>3, <2>2 DEF sched_run_faults
    <2>3. CASE sched_run_back
      BY <2>3 DEF sched_run_back, Broken, Doomed, Waiting, qvars
    <2>4. CASE coro_sent_parallel_trylock
      BY <2>4 DEF coro_sent_parallel_trylock, Broken, Doomed, Waiting, qvars
    <2>5. CASE coro_sent_parallel
      BY <2>5, BrokenSent
    <2>6. CASE sched_run_sent
      <3>1. status[pick] = "READY"
        BY <2>6 DEF sched_run_sent, Broken
      <3>2. QED
        BY <1>3, <2>6, <3>1 DEF sched_run_sent, CanReadyImmediatly
    <2>7. QED
      BY <1>6, <2>1, <2>2, <2>3, <2>4, <2>5, <2>6, BrokenPop DEF SchedRun
  <1>7. CASE Parallel
    <2>1. CASE \E c \in Coro : parallel_run_pop(c)
      BY <2>1, BrokenParallelPop
    <2>2. CASE ~(\E c \in Coro : parallel_run_pop(c))
      BY <1>1, <1>3, <1>7, <2>2
      DEF Parallel, parallel_main_lock, parallel_main_unlock, parallel_run_trylock,
          parallel_run_busy, parallel_run_empty, parallel_yield_or_exit,
          parallel_coro_switch, coro_switch_to_master, vars, mvars, qvars, cvars
    <2>3. QED
      BY <2>1, <2>2
  <1>8. CASE Terminated \/ UNCHANGED vars
    BY <1>1, <1>8 DEF Terminated, vars, mvars, qvars, cvars
  <1>9. QED
    BY <1>4, <1>5, <1>6, <1>7, <1>8 DEF Next

\* In every program: a hand-over by coro_switch_to_parallel never damages the
\* parallel queue, whatever the parallel thread takes out of it meanwhile, and
\* once it has damaged the master queue the main thread runs no coroutine.
THEOREM CorruptionContained == Spec => []DamageContained
  <1>1. Init => IInv \/ Broken
    BY InitStep
  <1>2. (IInv \/ Broken) /\ [Next]_vars => (IInv \/ Broken)'
    BY NextStep, SwitchBreaks, BrokenStep
  <1>3. IInv => DamageContained
    BY SchedulerAssumption DEF IInv, QueuesSound, DamageContained
  <1>4. Broken => DamageContained
    BY DEF Broken, DamageContained
  <1>5. QED
    BY <1>1, <1>2, <1>3, <1>4, PTL DEF Spec

-----------------------------------------------------------------------------
(***************************************************************************)
(* Programs that stay on the master scheduler.                             *)
(***************************************************************************)
Cooperative == {"coro_spawn", "coro_yield", "coro_exit", "suspend", "sched_run_once"}

CoopInv == /\ proc = "up"
           /\ mpc \notin {"sent", "sent_crit", "sent_ok"}
           /\ ppc \notin {"run", "back"}
           /\ qs[g_parallelsched] = << >>
           /\ \A c \in Coro : ~need_parallel[c]

\* With cooperative calls only, no step ends the process.
LEMMA CoopStep ==
  ASSUME IInv, CoopInv, [Next]_vars, Uses \subseteq Cooperative
  PROVE  CoopInv'
  <1>1. \A call : Running(call) => call \in Cooperative
    BY DEF Running
  <1>2. /\ proc = "up" /\ qs \in [Queue -> Seq(Elem)]
        /\ TAILQ_EMPTY(tq, g_parallelsched)
        /\ g_mastersched \in Queue /\ g_parallelsched \in Queue
        /\ g_mastersched # g_parallelsched
        /\ need_parallel \in [Coro -> BOOLEAN]
    BY SchedulerAssumption, InvHeap, HeapFacts, HoldsNoFault DEF CoopInv, Heap, IInv, TypeOK
  <1>3. ASSUME NEW c \in Coro, coro_spawn(g_mastersched, c) PROVE CoopInv'
    BY <1>2, <1>3 DEF coro_spawn, insert_tail, CoopInv, mvars, pvars
  <1>4. CASE \E s \in Queue, c \in Coro : main_spawn(s, c)
    <2>1. PICK s \in Queue, c \in Coro : main_spawn(s, c)
      BY <1>4
    <2>2. s = g_mastersched
      BY <2>1, SchedulerAssumption DEF main_spawn, Cooperative
    <2>3. QED
      BY <2>1, <2>2, <1>3 DEF main_spawn
  <1>5. CASE EnvRun \/ env_run_fails
    BY <1>5 DEF EnvRun, env_run, env_run_lock, env_run_unlock, env_run_fails, CoopInv,
                qvars, cvars, pvars
  <1>6. CASE SchedRun
    <2>1. CASE sched_run_faults
      <3>1. ~RemoveFaults(tq, TAILQ_FIRST(tq, g_mastersched))
        BY <1>2, <2>1, InvHeap, HeapRemove DEF sched_run_faults
      <3>2. QED
        BY <2>1, <3>1 DEF sched_run_faults
    <2>2. ASSUME NEW c \in Coro, sched_run_pop(c) PROVE CoopInv'
      BY <1>2, <2>2 DEF sched_run_pop, pop, CoopInv, pvars
    <2>3. CASE sched_run_exit \/ sched_run_back
      BY <2>3 DEF sched_run_exit, sched_run_back, CoopInv, pvars, qvars, cvars
    <2>4. CASE coro_sent_parallel_trylock \/ coro_sent_parallel \/ sched_run_sent
      BY <2>4 DEF coro_sent_parallel_trylock, coro_sent_parallel, sched_run_sent, CoopInv
    <2>5. QED
      BY <1>6, <2>1, <2>2, <2>3, <2>4 DEF SchedRun
  <1>7. CASE Calls
    <2>1. CASE \E c \in Coro : spawn(c)
      BY <2>1, <1>3 DEF spawn
    <2>2. mpc = "run" => /\ sched[current_coro] = g_mastersched
                         /\ status[current_coro] # "EXIT"
      BY DEF IInv, ThreadsSound
    <2>3. ASSUME NEW c \in Coro, coro_ready(c) PROVE CoopInv'
      <3>1. CanReady(c) /\ sched[c] = g_mastersched
        BY <2>3 DEF coro_ready, CanReady, IInv, ThreadsSound
      <3>2. QED
        BY <1>2, <2>3, <3>1 DEF coro_ready, insert_tail, CoopInv, mvars, pvars, Running
    <2>4. ASSUME NEW c \in Coro, sched_run_once(c) PROVE CoopInv'
      <3>1. ~RemoveFaults(tq, c)
        BY <1>2, <2>4, InvHeap, HeapRemove DEF sched_run_once
      <3>2. ~need_parallel[c] /\ CanReady(current_coro)
        BY <2>2, <2>4 DEF sched_run_once, Running, CanReady, CoopInv
      <3>3. CASE status[c] = "EXIT"
        BY <1>2, <2>4, <3>1, <3>3
        DEF sched_run_once, pop, CoopInv, mvars, pvars, cvars
      <3>4. CASE status[c] # "EXIT"
        <4>1. /\ proc' = proc /\ mpc' = mpc /\ ppc' = ppc /\ need_parallel' = need_parallel
              /\ qs' = [qs EXCEPT ![g_mastersched] = Append(Tail(qs[g_mastersched]),
                                                            current_coro)]
          BY <2>4, <3>1, <3>2, <3>4 DEF sched_run_once, pvars
        <4>2. qs'[g_parallelsched] = qs[g_parallelsched]
          BY <1>2, <4>1
        <4>3. QED
          BY <4>1, <4>2 DEF CoopInv
      <3>5. QED
        BY <3>3, <3>4
    <2>5. CASE coro_yield
      <3>1. /\ current_coro = Current(sched[current_coro]) /\ CanReady(current_coro)
            /\ sched[current_coro] = g_mastersched
        BY <2>2, <2>5 DEF coro_yield, Running, Current, CanReady
      <3>2. QED
        BY <1>2, <2>5, <3>1 DEF coro_yield, insert_tail, CoopInv, pvars, Running
    <2>6. CASE coro_exit
      <3>1. current_coro = Current(sched[current_coro])
        BY <2>2, <2>6 DEF coro_exit, Running, Current
      <3>2. QED
        BY <2>6, <3>1 DEF coro_exit, CoopInv, pvars, qvars, Running
    <2>7. CASE suspend
      BY <2>7 DEF suspend, CoopInv, pvars, qvars, Running
    <2>8. CASE \/ set_need_parallel \/ coro_switch_to_parallel \/ fn_returns \/ env_stop
               \/ register_event
      BY <1>1, <2>8 DEF set_need_parallel, coro_switch_to_parallel, fn_returns, env_stop,
                        register_event, Cooperative
    <2>9. QED
      BY <1>7, <2>1, <2>3, <2>4, <2>5, <2>6, <2>7, <2>8 DEF Calls, GiveUp
  <1>8. CASE Parallel
    <2>1. CASE parallel_main_lock \/ parallel_run_trylock
      BY <2>1 DEF parallel_main_lock, parallel_run_trylock, CoopInv, mvars, qvars, cvars
    <2>2. CASE parallel_main_unlock \/ parallel_run_empty
      BY <2>2 DEF parallel_main_unlock, parallel_run_empty, CoopInv, mvars, qvars, cvars
    <2>3. CASE parallel_run_busy
      BY <2>3 DEF parallel_run_busy, CoopInv, vars, mvars, pvars, qvars, cvars
    <2>4. CASE \/ \E c \in Coro : parallel_run_pop(c)
               \/ parallel_yield_or_exit
               \/ parallel_coro_switch
               \/ coro_switch_to_master
      BY <1>2, <2>4 DEF parallel_run_pop, parallel_yield_or_exit, parallel_coro_switch,
                        coro_switch_to_master, CoopInv
    <2>5. QED
      BY <1>8, <2>1, <2>2, <2>3, <2>4 DEF Parallel
  <1>9. CASE Terminated \/ UNCHANGED vars
    BY <1>9 DEF Terminated, CoopInv, vars, mvars, pvars, qvars, cvars
  <1>10. QED
    BY <1>4, <1>5, <1>6, <1>7, <1>8, <1>9 DEF Next

\* A program that only spawns, yields, exits, suspends and wakes coroutines
\* and calls sched_run_once never fails an ASSERT of the library and never
\* makes it follow a nil queue pointer.
THEOREM CooperativeNoCrash ==
  ASSUME Uses \subseteq Cooperative
  PROVE  Spec => []NoCrash
  <1>1. "coro_switch_to_parallel" \notin Uses
    BY DEF Cooperative
  <1>2. Init => IInv /\ CoopInv
    <2>1. Init => CoopInv
      BY SchedulerAssumption DEF Init, CoopInv
    <2>2. QED
      BY <2>1, InitStep
  <1>3. (IInv /\ CoopInv) /\ [Next]_vars => (IInv /\ CoopInv)'
    BY <1>1, NextStep, NeverSwitches, CoopStep
  <1>4. CoopInv => NoCrash
    BY DEF CoopInv, NoCrash
  <1>5. QED
    BY <1>2, <1>3, <1>4, PTL DEF Spec

\* In a cooperative program every place a coroutine can be in is reached from
\* the one it was in by the step that takes it out.
LEMMA AccountedStep ==
  ASSUME IInv, CoopInv, Accounted, [Next]_vars, Uses \subseteq Cooperative
  PROVE  Accounted'
  <1> DEFINE gm == g_mastersched
             Placed(c) == c \in Waiting(gm) \/ OnMain(c) \/ c \in parked \/ status[c] = "EXIT"
  <1>1. \A call : Running(call) => call \in Cooperative
    BY DEF Running
  <1>2. gm \in Queue /\ g_parallelsched \in Queue /\ Queue = {gm, g_parallelsched}
    BY SchedulerAssumption
  <1>3. Waiting(g_parallelsched) = {}
    BY DEF CoopInv, Waiting, Members
  <1>4. \A c \in alloc : Placed(c)
    <2>1. \A c : Queued(c) => c \in Waiting(gm)
      BY <1>2, <1>3 DEF Queued
    <2>2. QED
      BY <2>1 DEF Accounted, CoopInv, OnParallel, InHandoff
  <1>5. ASSUME \A c \in alloc' : Placed(c)' PROVE Accounted'
    BY <1>2, <1>5 DEF Accounted, Queued
  <1>6. status \in [Coro -> {"FREE", "READY", "RUN", "EXIT"}] /\ alloc \subseteq Coro
    BY DEF IInv, TypeOK
  <1>7. mpc = "run" => /\ current_coro \in Coro /\ sched[current_coro] = gm
                       /\ ~Queued(current_coro)
                       /\ current_coro = Current(sched[current_coro])
                       /\ status[current_coro] # "EXIT" /\ CanReady(current_coro)
    BY DEF IInv, TypeOK, ThreadsSound, OneOwner, OnMain, Current, CanReady
  <1>8. ASSUME NEW c \in Coro, coro_spawn(gm, c) PROVE Accounted'
    <2>1. ~Queued(c) /\ insert_tail(gm, c)
      BY <1>8 DEF coro_spawn, IInv, NoUseAfterFree
    <2>2. Waiting(gm)' = Waiting(gm) \cup {c}
      BY <1>2, <2>1, InsertEffect
    <2>3. \A d \in alloc' : Placed(d)'
      BY <1>4, <1>6, <1>8, <2>2 DEF coro_spawn, mvars, OnMain
    <2>4. QED
      BY <1>5, <2>3
  <1>9. CASE \E s \in Queue, c \in Coro : main_spawn(s, c)
    BY <1>8, <1>9, SchedulerAssumption DEF main_spawn, Cooperative
  <1>10. CASE EnvRun \/ env_run_fails
    <2>1. UNCHANGED <<qs, alloc, parked, status>> /\ mpc # "run"
      BY <1>10 DEF EnvRun, env_run, env_run_lock, env_run_unlock, env_run_fails, qvars, cvars
    <2>2. QED
      BY <1>4, <1>5, <2>1 DEF OnMain, Waiting
  <1>11. CASE SchedRun
    <2>1. CASE sched_run_faults
      BY <2>1 DEF sched_run_faults, Die, Accounted
    <2>2. ASSUME NEW c \in Coro, sched_run_pop(c) PROVE Accounted'
      <3>1. /\ ~TAILQ_EMPTY(tq, gm) /\ pop(gm, c) /\ mpc = "sched" /\ mpc' = "run"
            /\ current_coro' = c /\ alloc' = alloc /\ parked' = parked
            /\ status' = [status EXCEPT ![c] = "RUN"]
        BY <2>2 DEF sched_run_pop, CoopInv
      <3>2. Waiting(gm)' = Waiting(gm) \ {c}
        BY <1>2, <3>1, PopEffect
      <3>3. \A d \in alloc' : Placed(d)'
        BY <1>4, <1>6, <3>1, <3>2 DEF OnMain
      <3>4. QED
        BY <1>5, <3>3
    <2>3. CASE sched_run_exit \/ sched_run_back
      <3>1. UNCHANGED <<qs, parked, status>> /\ mpc # "run" /\ alloc' \subseteq alloc
        BY <2>3 DEF sched_run_exit, sched_run_back, qvars, cvars
      <3>2. QED
        BY <1>4, <1>5, <3>1 DEF OnMain, Waiting
    <2>4. ~(coro_sent_parallel_trylock \/ coro_sent_parallel \/ sched_run_sent)
      BY DEF coro_sent_parallel_trylock, coro_sent_parallel, sched_run_sent, CoopInv
    <2>5. QED
      BY <1>11, <2>1, <2>2, <2>3, <2>4 DEF SchedRun
  <1>12. CASE Calls
    <2>1. CASE \E c \in Coro : spawn(c)
      BY <1>8, <2>1 DEF spawn
    <2>2. ASSUME NEW c \in Coro, coro_ready(c) PROVE Accounted'
      <3>1. CanReady(c) /\ sched[c] = gm /\ ~Queued(c)
        BY <2>2 DEF coro_ready, CanReady, IInv, ThreadsSound, OneOwner
      <3>2. /\ parked' = parked \ {c} /\ insert_tail(gm, c) /\ alloc' = alloc
            /\ mpc' = mpc /\ current_coro' = current_coro
            /\ status' = [status EXCEPT ![c] = "READY"]
        BY <2>2, <3>1 DEF coro_ready, mvars
      <3>3. Waiting(gm)' = Waiting(gm) \cup {c}
        BY <1>2, <3>1, <3>2, InsertEffect
      <3>4. \A d \in alloc' : Placed(d)'
        BY <1>4, <1>6, <3>2, <3>3 DEF OnMain
      <3>5. QED
        BY <1>5, <3>4
    <2>3. ASSUME NEW c \in Coro, sched_run_once(c) PROVE Accounted'
      <3>1. ~RemoveFaults(tq, c) /\ c \in Coro /\ c = Head(qs[gm])
        BY <1>2, <2>3, InvHeap, HeapRemove DEF sched_run_once
      <3>2. status[c] # "EXIT" /\ c \in Members(qs[gm])
        <4>1. c \in Waiting(gm)
          BY <1>2, <2>3, InvHeap, HeapRemove DEF sched_run_once, Waiting
        <4>2. QED
          BY <1>2, <4>1 DEF IInv, QueuedReady, Waiting
      <3>3. /\ mpc = "run" /\ mpc' = mpc /\ alloc' = alloc /\ parked' = parked
            /\ current_coro' = c
            /\ status' = [status EXCEPT ![current_coro] = "READY"]
            /\ qs' = [qs EXCEPT ![gm] = Append(Tail(qs[gm]), current_coro)]
        BY <1>7, <2>3, <3>1, <3>2 DEF sched_run_once, Running, CoopInv
      <3>4. Waiting(gm)' = (Waiting(gm) \ {c}) \cup {current_coro}
        <4>1. /\ qs \in [Queue -> Seq(Elem)] /\ qs[gm] # << >> /\ current_coro \in Elem
              /\ Members(Tail(qs[gm])) = Members(qs[gm]) \ {c}
          BY <1>2, <1>7, <2>3, <3>3, InvHeap, HeapRemove DEF sched_run_once, Heap, Coro
        <4>2. Tail(qs[gm]) \in Seq(Elem) /\ qs'[gm] = Append(Tail(qs[gm]), current_coro)
          BY <1>2, <3>3, <4>1
        <4>3. Members(Append(Tail(qs[gm]), current_coro))
                = Members(Tail(qs[gm])) \cup {current_coro}
          BY <4>1, <4>2, MembersFacts
        <4>4. QED
          BY <4>1, <4>2, <4>3 DEF Waiting
      <3>5. \A d \in alloc' : Placed(d)'
        BY <1>4, <1>6, <1>7, <3>3, <3>4 DEF OnMain
      <3>6. QED
        BY <1>5, <3>5
    <2>4. CASE coro_yield
      <3>1. /\ insert_tail(gm, current_coro) /\ alloc' = alloc /\ parked' = parked
            /\ mpc = "run" /\ status' = [status EXCEPT ![current_coro] = "READY"]
        BY <1>7, <2>4 DEF coro_yield, Running
      <3>2. Waiting(gm)' = Waiting(gm) \cup {current_coro}
        BY <1>2, <1>7, <3>1, InsertEffect
      <3>3. \A d \in alloc' : Placed(d)'
        BY <1>4, <1>6, <1>7, <3>1, <3>2 DEF OnMain
      <3>4. QED
        BY <1>5, <3>3
    <2>5. CASE coro_exit
      <3>1. /\ UNCHANGED <<qs, alloc, parked>> /\ mpc = "run"
            /\ status' = [status EXCEPT ![current_coro] = "EXIT"]
        BY <1>7, <2>5 DEF coro_exit, Running, qvars
      <3>2. QED
        BY <1>4, <1>5, <1>6, <1>7, <3>1 DEF OnMain, Waiting
    <2>6. CASE suspend
      <3>1. UNCHANGED <<qs, alloc, status>> /\ parked' = parked \cup {current_coro}
        BY <2>6 DEF suspend, qvars
      <3>2. QED
        BY <1>4, <1>5, <3>1 DEF OnMain, Waiting
    <2>7. ~(\/ set_need_parallel \/ coro_switch_to_parallel \/ fn_returns \/ env_stop
            \/ register_event)
      BY <1>1 DEF set_need_parallel, coro_switch_to_parallel, fn_returns, env_stop,
                  register_event, Cooperative
    <2>8. QED
      BY <1>12, <2>1, <2>2, <2>3, <2>4, <2>5, <2>6, <2>7 DEF Calls, GiveUp
  <1>13. CASE Parallel
    <2>1. TAILQ_EMPTY(tq, g_parallelsched)
      BY <1>2, InvHeap, HeapFacts, HoldsNoFault DEF CoopInv
    <2>2. UNCHANGED <<mpc, current_coro, qs, alloc, parked, status>>
      BY <1>13, <2>1
      DEF Parallel, parallel_main_lock, parallel_main_unlock, parallel_run_trylock,
          parallel_run_busy, parallel_run_empty, parallel_run_pop, parallel_yield_or_exit,
          parallel_coro_switch, coro_switch_to_master, CoopInv, vars, mvars, qvars, cvars
    <2>3. QED
      BY <1>4, <1>5, <2>2 DEF OnMain, Waiting
  <1>14. CASE Terminated \/ UNCHANGED vars
    <2>1. UNCHANGED <<mpc, current_coro, qs, alloc, parked, status>>
      BY <1>14 DEF Terminated, vars, mvars, qvars, cvars
    <2>2. QED
      BY <1>4, <1>5, <2>1 DEF OnMain, Waiting
  <1>15. QED
    BY <1>9, <1>10, <1>11, <1>12, <1>13, <1>14 DEF Next

\* No coroutine of a cooperative program is lost: until it exits it waits in
\* the queue, runs, or was suspended by the program.
THEOREM NoCoroutineLost ==
  ASSUME Uses \subseteq Cooperative
  PROVE  Spec => []Accounted
  <1>1. "coro_switch_to_parallel" \notin Uses
    BY DEF Cooperative
  <1>2. Init => IInv /\ CoopInv /\ Accounted
    <2>1. Init => CoopInv /\ Accounted
      BY SchedulerAssumption DEF Init, CoopInv, Accounted
    <2>2. QED
      BY <2>1, InitStep
  <1>3. (IInv /\ CoopInv /\ Accounted) /\ [Next]_vars => (IInv /\ CoopInv /\ Accounted)'
    BY <1>1, NextStep, NeverSwitches, CoopStep, AccountedStep
  <1>4. QED
    BY <1>2, <1>3, PTL DEF Spec

-----------------------------------------------------------------------------
(***************************************************************************)
(* The master scheduler implements FifoSched.                              *)
(***************************************************************************)
Onmain == IF mpc = "run" THEN current_coro ELSE NULL

\* The steps that leave the master queue alone and do not move the main
\* thread into or out of a coroutine.
LEMMA FifoStutter ==
  ASSUME qs'[g_mastersched] = qs[g_mastersched], Onmain' = Onmain
  PROVE  UNCHANGED F!vars
  BY DEF F!vars, Onmain

\* Every step is a step, or a stuttering step, of FifoSched.
LEMMA FifoStep ==
  ASSUME IInv, [Next]_vars, "coro_switch_to_parallel" \notin Uses
  PROVE  [F!Next]_(F!vars)
  <1>1. /\ qs \in [Queue -> Seq(Elem)]
        /\ g_mastersched \in Queue /\ g_parallelsched \in Queue
        /\ g_mastersched # g_parallelsched /\ NULL \notin Elem
    BY SchedulerAssumption, CellAssumption, InvHeap DEF Heap, Cell
  <1>2. mpc = "run" => /\ current_coro \in Elem /\ current_coro # NULL
                       /\ current_coro \in alloc /\ ~Queued(current_coro)
                       /\ sched[current_coro] = g_mastersched
    BY <1>1 DEF IInv, TypeOK, ThreadsSound, OneOwner, OnMain, Coro
  <1>3. \A c \in Elem : ~Queued(c) =>
          \A i \in 1 .. Len(qs[g_mastersched]) : qs[g_mastersched][i] # c
    BY <1>1 DEF Queued, Waiting, Members
  <1>4. ASSUME NEW c \in Coro, ~Queued(c), insert_tail(g_mastersched, c),
               mpc' = mpc, current_coro' = current_coro, mpc = "run" => c # current_coro
        PROVE  F!Next
    <2>1. qs'[g_mastersched] = Append(qs[g_mastersched], c) /\ c \in Elem
      BY <1>1, <1>4 DEF insert_tail, Coro
    <2>2. F!Arrive(c)
      BY <1>1, <1>3, <1>4, <2>1 DEF F!Arrive
    <2>3. QED
      BY <2>1, <2>2 DEF F!Next
  <1>5. ASSUME NEW s \in Queue, NEW c \in Coro, coro_spawn(s, c)
        PROVE  [F!Next]_(F!vars)
    <2>1. /\ ~Queued(c) /\ mpc' = mpc /\ current_coro' = current_coro /\ insert_tail(s, c)
          /\ mpc = "run" => c # current_coro
      BY <1>2, <1>5 DEF coro_spawn, mvars, IInv, NoUseAfterFree
    <2>2. CASE s = g_mastersched
      BY <1>4, <2>1, <2>2
    <2>3. CASE s # g_mastersched
      <3>1. qs'[g_mastersched] = qs[g_mastersched]
        BY <1>1, <2>1, <2>3 DEF insert_tail
      <3>2. QED
        BY <2>1, <3>1, FifoStutter DEF Onmain
    <2>4. QED
      BY <2>2, <2>3
  <1>6. ASSUME NEW how, Die(how) PROVE UNCHANGED F!vars
    <2>1. qs' = qs /\ mpc' = mpc /\ current_coro' = current_coro
      BY <1>6 DEF Die, mvars, qvars
    <2>2. QED
      BY <2>1, FifoStutter DEF Onmain
  <1>7. CASE \E s \in Queue, c \in Coro : main_spawn(s, c)
    BY <1>5, <1>7 DEF main_spawn
  <1>8. CASE EnvRun \/ env_run_fails
    <2>1. qs' = qs /\ mpc # "run" /\ mpc' # "run"
      BY <1>8 DEF EnvRun, env_run, env_run_lock, env_run_unlock, env_run_fails, qvars
    <2>2. QED
      BY <2>1, FifoStutter DEF Onmain
  <1>9. CASE SchedRun
    <2>1. CASE sched_run_faults
      BY <1>6, <2>1 DEF sched_run_faults
    <2>2. ASSUME NEW c \in Coro, sched_run_pop(c) PROVE F!Next
      <3>1. /\ mpc = "sched" /\ ~TAILQ_EMPTY(tq, g_mastersched) /\ pop(g_mastersched, c)
            /\ mpc' = "sent" \/ (mpc' = "run" /\ current_coro' = c)
        BY <2>2 DEF sched_run_pop
      <3>2. /\ qs[g_mastersched] # << >> /\ c = Head(qs[g_mastersched])
            /\ qs'[g_mastersched] = Tail(qs[g_mastersched])
        BY <1>1, <3>1, PopEffect
      <3>3. F!Dispatch \/ F!Divert
        BY <3>1, <3>2 DEF F!Dispatch, F!Divert
      <3>4. QED
        BY <3>3 DEF F!Next
    <2>3. CASE sched_run_exit \/ sched_run_back \/ coro_sent_parallel_trylock
      <3>1. qs' = qs /\ mpc # "run" /\ mpc' # "run"
        BY <2>3 DEF sched_run_exit, sched_run_back, coro_sent_parallel_trylock, qvars
      <3>2. QED
        BY <3>1, FifoStutter DEF Onmain
    <2>4. CASE coro_sent_parallel
      <3>1. mpc # "run" /\ mpc' # "run" /\ insert_head(g_parallelsched, pick)
        BY <2>4 DEF coro_sent_parallel
      <3>2. qs'[g_mastersched] = qs[g_mastersched]
        BY <1>1, <3>1 DEF insert_head
      <3>3. QED
        BY <3>1, <3>2, FifoStutter DEF Onmain
    <2>5. CASE sched_run_sent
      <3>1. status[pick] = "READY"
        BY <2>5 DEF sched_run_sent, IInv, ThreadsSound
      <3>2. QED
        BY <1>6, <2>5, <3>1 DEF sched_run_sent, CanReadyImmediatly
    <2>6. QED
      BY <1>9, <2>1, <2>2, <2>3, <2>4, <2>5 DEF SchedRun
  <1>10. CASE Calls
    <2>1. CASE \E c \in Coro : spawn(c)
      BY <1>1, <1>5, <2>1 DEF spawn
    <2>2. ASSUME NEW c \in Coro, coro_ready(c) PROVE [F!Next]_(F!vars)
      <3>1. /\ mpc = "run" /\ c \in parked
            /\ \/ Die("abort")
               \/ /\ insert_tail(sched[c], c)
                  /\ mpc' = mpc /\ current_coro' = current_coro
        BY <2>2 DEF coro_ready, Running, mvars
      <3>2. sched[c] = g_mastersched /\ ~Queued(c) /\ c # current_coro
        BY <3>1 DEF IInv, ThreadsSound, OneOwner, OnMain
      <3>3. QED
        BY <1>4, <1>6, <3>1, <3>2
    <2>3. ASSUME NEW c \in Coro, sched_run_once(c) PROVE [F!Next]_(F!vars)
      <3>1. /\ mpc = "run" /\ ~TAILQ_EMPTY(tq, g_mastersched)
            /\ c = TAILQ_FIRST(tq, g_mastersched)
        BY <2>3 DEF sched_run_once, Running
      <3>2. /\ qs[g_mastersched] # << >> /\ c = Head(qs[g_mastersched])
            /\ c \in Waiting(g_mastersched)
        BY <1>1, <3>1, InvHeap, HeapRemove DEF Waiting
      <3>3. status[c] # "EXIT"
        BY <1>1, <3>2 DEF IInv, QueuedReady
      <3>4. \/ Die("abort") \/ Die("segv")
            \/ /\ qs' = [qs EXCEPT ![g_mastersched] = Append(Tail(qs[g_mastersched]),
                                                             current_coro)]
               /\ mpc' = mpc /\ current_coro' = c
        BY <2>3, <3>3 DEF sched_run_once
      <3>5. CASE /\ qs' = [qs EXCEPT ![g_mastersched] = Append(Tail(qs[g_mastersched]),
                                                               current_coro)]
                 /\ mpc' = mpc /\ current_coro' = c
        <4>1. qs'[g_mastersched] = Append(Tail(qs[g_mastersched]), current_coro)
          BY <1>1, <3>5
        <4>2. F!Handover
          BY <1>2, <3>1, <3>2, <3>5, <4>1 DEF F!Handover
        <4>3. QED
          BY <4>2 DEF F!Next
      <3>6. QED
        BY <1>6, <3>4, <3>5
    <2>4. CASE coro_yield
      <3>1. /\ mpc = "run"
            /\ \/ Die("abort")
               \/ insert_tail(sched[current_coro], current_coro) /\ mpc' = "back"
        BY <2>4 DEF coro_yield, Running
      <3>2. CASE insert_tail(sched[current_coro], current_coro) /\ mpc' = "back"
        <4>1. qs'[g_mastersched] = Append(qs[g_mastersched], current_coro)
          BY <1>1, <1>2, <3>1, <3>2 DEF insert_tail
        <4>2. F!Yield
          BY <1>2, <3>1, <3>2, <4>1 DEF F!Yield
        <4>3. QED
          BY <4>2 DEF F!Next
      <3>3. QED
        BY <1>6, <3>1, <3>2
    <2>5. CASE coro_exit \/ suspend
      <3>1. mpc = "run" /\ (Die("abort") \/ (mpc' = "back" /\ qs' = qs))
        BY <2>5 DEF coro_exit, suspend, Running, qvars
      <3>2. CASE mpc' = "back" /\ qs' = qs
        <4>1. F!Leave
          BY <1>2, <3>1, <3>2 DEF F!Leave
        <4>2. QED
          BY <4>1 DEF F!Next
      <3>3. QED
        BY <1>6, <3>1, <3>2
    <2>6. CASE fn_returns \/ register_event
      BY <1>6, <2>6 DEF fn_returns, register_event, g_eventmgr
    <2>7. CASE set_need_parallel \/ env_stop
      <3>1. qs' = qs /\ mpc' = mpc /\ current_coro' = current_coro
        BY <2>7 DEF set_need_parallel, env_stop, mvars, qvars
      <3>2. QED
        BY <3>1, FifoStutter DEF Onmain
    <2>8. ~coro_switch_to_parallel
      BY DEF coro_switch_to_parallel, Running
    <2>9. QED
      BY <1>10, <2>1, <2>2, <2>3, <2>4, <2>5, <2>6, <2>7, <2>8 DEF Calls, GiveUp
  <1>11. CASE Parallel
    <2>1. CASE parallel_yield_or_exit
      BY <1>6, <2>1 DEF parallel_yield_or_exit
    <2>2. ASSUME NEW c \in Coro, parallel_run_pop(c) PROVE UNCHANGED F!vars
      <3>1. qs'[g_mastersched] = qs[g_mastersched]
        BY <1>1, <2>2 DEF parallel_run_pop, pop
      <3>2. mpc' = mpc /\ current_coro' = current_coro
        BY <2>2 DEF parallel_run_pop, mvars
      <3>3. QED
        BY <3>1, <3>2, FifoStutter DEF Onmain
    <2>3. CASE \/ parallel_main_lock \/ parallel_main_unlock \/ parallel_run_trylock
               \/ parallel_run_busy \/ parallel_run_empty \/ parallel_coro_switch
               \/ coro_switch_to_master
      <3>1. qs' = qs /\ mpc' = mpc /\ current_coro' = current_coro
        BY <2>3 DEF parallel_main_lock, parallel_main_unlock, parallel_run_trylock,
                    parallel_run_busy, parallel_run_empty, parallel_coro_switch,
                    coro_switch_to_master, vars, mvars, qvars
      <3>2. QED
        BY <3>1, FifoStutter DEF Onmain
    <2>4. QED
      BY <1>11, <2>1, <2>2, <2>3 DEF Parallel
  <1>12. CASE Terminated \/ UNCHANGED vars
    <2>1. qs' = qs /\ mpc' = mpc /\ current_coro' = current_coro
      BY <1>12 DEF Terminated, vars, mvars, qvars
    <2>2. QED
      BY <2>1, FifoStutter DEF Onmain
  <1>13. QED
    BY <1>7, <1>8, <1>9, <1>10, <1>11, <1>12 DEF Next

\* The README's promise for the master scheduler, for every program that does
\* not call coro_switch_to_parallel: waiting coroutines are run one at a time,
\* in the order in which they became ready.
THEOREM ImplementsFifo ==
  ASSUME "coro_switch_to_parallel" \notin Uses
  PROVE  Spec => FifoSpec
  <1>1. Init => F!Init
    BY SchedulerAssumption DEF Init, F!Init
  <1>2. IInv /\ [Next]_vars => IInv'
    BY NextStep, NeverSwitches
  <1>3. IInv /\ [Next]_vars => [F!Next]_(F!vars)
    BY FifoStep
  <1>4. QED
    BY <1>1, <1>2, <1>3, InitStep, PTL DEF Spec, FifoSpec, F!Spec
=============================================================================
