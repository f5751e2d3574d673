----------------------------- MODULE TailQueue -----------------------------
(***************************************************************************)
(* The intrusive tail queue of cs_queue.h, at the level of its pointers.   *)
(*                                                                         *)
(* A queue head {tqh_first, tqh_last} and an element's ws_tqe entry        *)
(* {tqe_next, tqe_prev} have the same layout: a pointer to an element and  *)
(* the address of such a pointer.  A cell is therefore a queue or an       *)
(* element, and a heap of cells is a record tq of two functions:           *)
(*   tq.link[x]   tqh_first of a queue x, tqe_next of an element x         *)
(*   tq.back[x]   tqh_last of a queue x, tqe_prev of an element x; the     *)
(*                address of a link is named by the cell that holds it.    *)
(* An element has ONE entry, so it can be properly linked in one queue at  *)
(* a time; the macros do not check it, and neither do these operators.     *)
(***************************************************************************)
EXTENDS Naturals, Sequences

CONSTANTS Queue,   \* the queue heads
          Elem,    \* the elements (coroutines)
          NULL     \* the nil pointer

Cell == Queue \cup Elem

ASSUME CellAssumption == /\ Queue \cap Elem = {}
                         /\ NULL \notin Cell

TailQueueType == [link : [Cell -> Elem \cup {NULL}],
                  back : [Cell -> Cell \cup {NULL}]]

(***************************************************************************)
(* The macros.  A later exception of an EXCEPT overrides an earlier one,   *)
(* exactly as a later store through an aliased pointer does.               *)
(***************************************************************************)
\* memset of the elements and TAILQ_INIT of every head.
TAILQ_INIT == [link |-> [x \in Cell |-> NULL],
               back |-> [x \in Cell |-> IF x \in Queue THEN x ELSE NULL]]

TAILQ_FIRST(tq, q) == tq.link[q]

TAILQ_EMPTY(tq, q) == tq.link[q] = NULL

\* Mutant: the element is linked at the front.
InsertTailPushesFront(tq, q, e) ==
  LET second == tq.link[q]
  IN  [link |-> [tq.link EXCEPT ![e] = second, ![q] = e],
       back |-> [tq.back EXCEPT ![IF second = NULL THEN q ELSE second] = e,
                                ![e] = q]]

TAILQ_INSERT_TAIL(tq, q, e) ==
  [link |-> [tq.link EXCEPT ![e] = NULL, ![tq.back[q]] = e],
   back |-> [tq.back EXCEPT ![e] = tq.back[q], ![q] = e]]

\* Mutant: tqh_last is not moved when the queue was empty.
InsertHeadKeepsLast(tq, q, e) ==
  [link |-> [tq.link EXCEPT ![e] = tq.link[q], ![q] = e],
   back |-> IF tq.link[q] = NULL
              THEN [tq.back EXCEPT ![e] = q]
              ELSE [tq.back EXCEPT ![tq.link[q]] = e, ![e] = q]]

TAILQ_INSERT_HEAD(tq, q, e) ==
  LET second == tq.link[q]
  IN  [link |-> [tq.link EXCEPT ![e] = second, ![q] = e],
       back |-> [tq.back EXCEPT ![IF second = NULL THEN q ELSE second] = e,
                                ![e] = q]]

\* Mutant: tqh_last still points into the removed last element.
RemoveKeepsLast(tq, q, e) ==
  LET next == tq.link[e]
  IN  [link |-> [tq.link EXCEPT ![tq.back[e]] = next, ![e] = NULL],
       back |-> IF next = NULL
                  THEN [tq.back EXCEPT ![e] = NULL]
                  ELSE [tq.back EXCEPT ![next] = tq.back[e], ![e] = NULL]]

\* TAILQ_REMOVE ends with TRASHIT on both fields of the removed entry.
TAILQ_REMOVE(tq, q, e) ==
  LET next == tq.link[e]
  IN  [link |-> [tq.link EXCEPT ![tq.back[e]] = next, ![e] = NULL],
       back |-> [tq.back EXCEPT ![IF next = NULL THEN q ELSE next] = tq.back[e],
                                ![e] = NULL]]

\* A store through tqh_last or tqe_prev when that pointer is NULL.
InsertTailFaults(tq, q) == tq.back[q] = NULL
RemoveFaults(tq, e)     == tq.back[e] = NULL

(***************************************************************************)
(* What the pointers stand for: queue q of heap tq holds the sequence s.   *)
(***************************************************************************)
Distinct(s) == \A i, j \in 1 .. Len(s) : s[i] = s[j] => i = j

Linked(tq, q, s) ==
  /\ tq.link[q] = IF s = << >> THEN NULL ELSE s[1]
  /\ tq.back[q] = IF s = << >> THEN q ELSE s[Len(s)]
  /\ \A i \in 1 .. Len(s) :
       /\ tq.link[s[i]] = IF i = Len(s) THEN NULL ELSE s[i + 1]
       /\ tq.back[s[i]] = IF i = 1 THEN q ELSE s[i - 1]

Holds(tq, q, s) == Distinct(s) /\ Linked(tq, q, s)

Members(s) == {s[i] : i \in 1 .. Len(s)}
=============================================================================
