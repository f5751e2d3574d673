----------------------------- MODULE FifoSched -----------------------------
(***************************************************************************)
(* What the master scheduler promises: the waiting coroutines are run in   *)
(* the order in which they became ready, one at a time.                    *)
(***************************************************************************)
EXTENDS Naturals, Sequences

CONSTANTS Elem, NULL

VARIABLES waiting,   \* the ready coroutines, first to run first
          running    \* the coroutine that has the processor, or NULL

vars == <<waiting, running>>

Init == waiting = << >> /\ running = NULL

\* A coroutine that neither waits nor runs becomes ready.
Arrive(c) == /\ c # running
             /\ \A i \in 1 .. Len(waiting) : waiting[i] # c
             /\ waiting' = Append(waiting, c)
             /\ running' = running

\* The running coroutine goes to the end of the queue.
Yield == /\ running # NULL
         /\ waiting' = Append(waiting, running)
         /\ running' = NULL

\* The running coroutine exits or is suspended.
Leave == /\ running # NULL
         /\ running' = NULL
         /\ waiting' = waiting

Dispatch == /\ running = NULL
            /\ waiting # << >>
            /\ running' = Head(waiting)
            /\ waiting' = Tail(waiting)

\* The running coroutine hands the processor over to the first waiting one.
Handover == /\ running # NULL
            /\ waiting # << >>
            /\ running' = Head(waiting)
            /\ waiting' = Append(Tail(waiting), running)

\* The first waiting coroutine is taken out to be run by another scheduler.
Divert == /\ running = NULL
          /\ waiting # << >>
          /\ waiting' = Tail(waiting)
          /\ running' = NULL

Next == \/ \E c \in Elem : Arrive(c)
        \/ Yield
        \/ Leave
        \/ Dispatch
        \/ Handover
        \/ Divert

Spec == Init /\ [][Next]_vars
=============================================================================
