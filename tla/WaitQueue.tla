----------------------------- MODULE WaitQueue -----------------------------
(***************************************************************************)
(* The wait_sched_queues of the two schedulers, driven through the         *)
(* wrappers of cs_scheduler.c (insert_tail, insert_head, empty, pop).  All *)
(* queues share the single ws_tqe entry of a coroutine.  The callers       *)
(* modelled here follow the discipline the macros need: a coroutine is     *)
(* inserted only while its entry is unlinked.  (Callers that do not are    *)
(* part of module Scheduler.)                                              *)
(***************************************************************************)
EXTENDS TailQueue

VARIABLES tq,    \* the queue heads and the entries of the coroutines
          ret,   \* the last call: the queue and result of pop or empty, or NULL
          qs     \* history variable: the inserted, not yet popped coroutines

vars == <<tq, ret, qs>>

Init == /\ tq = TAILQ_INIT
        /\ ret = NULL
        /\ qs = [q \in Queue |-> << >>]

Unlinked(e) == tq.back[e] = NULL

insert_tail(q, e) == /\ Unlinked(e)
                     /\ tq' = TAILQ_INSERT_TAIL(tq, q, e)
                     /\ qs' = [qs EXCEPT ![q] = Append(qs[q], e)]
                     /\ ret' = NULL

insert_head(q, e) == /\ Unlinked(e)
                     /\ tq' = TAILQ_INSERT_HEAD(tq, q, e)
                     /\ qs' = [qs EXCEPT ![q] = <<e>> \o qs[q]]
                     /\ ret' = NULL

empty(q) == /\ ret' = [of |-> q, val |-> TAILQ_EMPTY(tq, q)]
            /\ UNCHANGED <<tq, qs>>

pop(q) == LET head == TAILQ_FIRST(tq, q)
          IN  \/ /\ head = NULL
                 /\ ret' = [of |-> q, val |-> NULL]
                 /\ UNCHANGED <<tq, qs>>
              \/ /\ head # NULL
                 /\ ret' = [of |-> q, val |-> head]
                 /\ tq' = TAILQ_REMOVE(tq, q, head)
                 /\ qs' = [qs EXCEPT ![q] = Tail(qs[q])]

Next == \E q \in Queue : \/ pop(q)
                         \/ empty(q)
                         \/ \E e \in Elem : insert_tail(q, e) \/ insert_head(q, e)

Spec == Init /\ [][Next]_vars

-----------------------------------------------------------------------------
\* Type correctness of the pointers, the returned value and the history.
TypeOK == /\ tq \in TailQueueType
          /\ ret \in {NULL} \cup [of : Queue, val : Elem \cup {NULL} \cup BOOLEAN]
          /\ qs \in [Queue -> Seq(Elem)]

\* The pointers of every queue spell out exactly the coroutines inserted and
\* not yet popped, in order (cs_queue.h TAILQ_INSERT_HEAD, TAILQ_INSERT_TAIL,
\* TAILQ_REMOVE: first, last, next and prev all agree).
PointersHoldQueues == \A q \in Queue : Holds(tq, q, qs[q])

\* The queues are disjoint although they share the one ws_tqe entry, and an
\* entry whose tqe_prev has been trashed by TAILQ_REMOVE is in no queue.
EntriesExclusive ==
  /\ \A q, r \in Queue : q # r => Members(qs[q]) \cap Members(qs[r]) = {}
  /\ \A e \in Elem : Unlinked(e) <=> \A q \in Queue : e \notin Members(qs[q])

IInv == TypeOK /\ PointersHoldQueues /\ EntriesExclusive

\* Every queue a coroutine can be linked in behaves as a FIFO deque: pop
\* returns the coroutine at the front and NULL only when nothing is queued.
D == INSTANCE Deque
DequeSpec == D!Spec
=============================================================================
