------------------------------- MODULE Deque -------------------------------
(***************************************************************************)
(* What a wait_sched_queue promises to the schedulers: a family of double- *)
(* ended queues of which an element is a member of at most one.            *)
(***************************************************************************)
EXTENDS Naturals, Sequences

CONSTANTS Queue, Elem, NULL

VARIABLES qs,    \* qs[q] is the content of queue q, front first
          ret    \* the last call's queue and result, NULL if it was a push

vars == <<qs, ret>>

InQueue(e) == \E q \in Queue : \E i \in 1 .. Len(qs[q]) : qs[q][i] = e

Init == /\ qs = [q \in Queue |-> << >>]
        /\ ret = NULL

PushBack(q, e) == /\ ~InQueue(e)
                  /\ qs' = [qs EXCEPT ![q] = Append(qs[q], e)]
                  /\ ret' = NULL

PushFront(q, e) == /\ ~InQueue(e)
                   /\ qs' = [qs EXCEPT ![q] = <<e>> \o qs[q]]
                   /\ ret' = NULL

PopFront(q) == \/ /\ qs[q] = << >>
                  /\ ret' = [of |-> q, val |-> NULL]
                  /\ qs' = qs
               \/ /\ qs[q] # << >>
                  /\ ret' = [of |-> q, val |-> Head(qs[q])]
                  /\ qs' = [qs EXCEPT ![q] = Tail(qs[q])]

IsEmpty(q) == /\ ret' = [of |-> q, val |-> (qs[q] = << >>)]
              /\ qs' = qs

Next == \E q \in Queue : \/ PopFront(q)
                         \/ IsEmpty(q)
                         \/ \E e \in Elem : PushBack(q, e) \/ PushFront(q, e)

Spec == Init /\ [][Next]_vars
=============================================================================
