------------------------------- MODULE Lists -------------------------------
(***************************************************************************)
(* The five kinds of intrusive lists of cs_queue.h (SLIST, STAILQ, LIST,   *)
(* TAILQ, CIRCLEQ), driven by every sequence of their macros.  They live   *)
(* on the heap of module TailQueue: link is the forward pointer of a head  *)
(* or of an entry, back its second pointer where the kind has one.  A head *)
(* is a cell like an entry, so what is inserted or removed "after" a head  *)
(* is the front of its list.  A CIRCLEQ ends at its head and not at NULL.  *)
(***************************************************************************)
EXTENDS TailQueue

X == INSTANCE SequencesExt

VARIABLES kind,   \* the kind of the lists; it does not change
          heap,   \* the pointers of the heads and of the elements
          seqs,   \* history variable: what each list should hold
          loop    \* the state of a FOREACH loop, NULL outside of one

vars == <<kind, heap, seqs, loop>>

SingleLinked == {"SLIST", "STAILQ"}
HasLast      == {"STAILQ", "TAILQ", "CIRCLEQ"}   \* the head has a second pointer
HasPrev      == {"LIST", "TAILQ", "CIRCLEQ"}     \* the entries have one
Kind         == SingleLinked \cup HasPrev

-----------------------------------------------------------------------------
(***************************************************************************)
(* The macros that module TailQueue does not have.  SLIST, STAILQ and LIST *)
(* removals end with TRASHIT of the removed entry, CIRCLEQ_REMOVE does not.*)
(***************************************************************************)
SLIST_INSERT_AFTER(h, x, e) ==
  [link |-> [h.link EXCEPT ![e] = h.link[x], ![x] = e], back |-> h.back]

SLIST_REMOVE_AFTER(h, x) ==
  LET e == h.link[x]
  IN  [link |-> [h.link EXCEPT ![x] = h.link[e], ![e] = NULL], back |-> h.back]

\* The walk from the head to the cell whose next is e.
CellBefore(h, q, e) ==
  LET walk[x \in Cell \cup {NULL}] ==
        IF x = NULL \/ h.link[x] = e THEN x ELSE walk[h.link[x]]
  IN  walk[q]

SLIST_REMOVE(h, q, e) == SLIST_REMOVE_AFTER(h, CellBefore(h, q, e))

STAILQ_INSERT_AFTER(h, q, x, e) ==
  [link |-> SLIST_INSERT_AFTER(h, x, e).link,
   back |-> IF h.link[x] = NULL THEN [h.back EXCEPT ![q] = e] ELSE h.back]

STAILQ_INSERT_TAIL(h, q, e) ==
  [link |-> [h.link EXCEPT ![e] = NULL, ![h.back[q]] = e],
   back |-> [h.back EXCEPT ![q] = e]]

\* Mutant: stqh_last still points into the removed last element.
RemoveAfterKeepsLast(h, q, x) == SLIST_REMOVE_AFTER(h, x)

STAILQ_REMOVE_AFTER(h, q, x) ==
  [link |-> SLIST_REMOVE_AFTER(h, x).link,
   back |-> IF h.link[h.link[x]] = NULL THEN [h.back EXCEPT ![q] = x] ELSE h.back]

STAILQ_REMOVE(h, q, e) == STAILQ_REMOVE_AFTER(h, q, CellBefore(h, q, e))

STAILQ_CONCAT(h, q, r) ==
  IF h.link[r] = NULL THEN h
  ELSE [link |-> [h.link EXCEPT ![h.back[q]] = h.link[r], ![r] = NULL],
        back |-> [h.back EXCEPT ![q] = h.back[r], ![r] = r]]

STAILQ_SWAP(h, q, r) ==
  [link |-> [h.link EXCEPT ![q] = h.link[r], ![r] = h.link[q]],
   back |-> [h.back EXCEPT ![q] = IF h.link[r] = NULL THEN q ELSE h.back[r],
                           ![r] = IF h.link[q] = NULL THEN r ELSE h.back[q]]]

\* A store into the prev of a cell that may be NULL.
SetPrev(back, e, x) == IF e = NULL THEN back ELSE [back EXCEPT ![e] = x]

LIST_INSERT_AFTER(h, x, e) ==
  [link |-> SLIST_INSERT_AFTER(h, x, e).link,
   back |-> [SetPrev(h.back, h.link[x], e) EXCEPT ![e] = x]]

LIST_INSERT_BEFORE(h, y, e) ==
  [link |-> [h.link EXCEPT ![e] = y, ![h.back[y]] = e],
   back |-> [h.back EXCEPT ![e] = h.back[y], ![y] = e]]

LIST_REMOVE(h, e) ==
  [link |-> [h.link EXCEPT ![h.back[e]] = h.link[e], ![e] = NULL],
   back |-> [SetPrev(h.back, h.link[e], h.back[e]) EXCEPT ![e] = NULL]]

LIST_SWAP(h, q, r) ==
  [link |-> [h.link EXCEPT ![q] = h.link[r], ![r] = h.link[q]],
   back |-> SetPrev(SetPrev(h.back, h.link[r], q), h.link[q], r)]

TAILQ_INSERT_AFTER(h, q, x, e) ==
  [link |-> SLIST_INSERT_AFTER(h, x, e).link,
   back |-> [h.back EXCEPT ![IF h.link[x] = NULL THEN q ELSE h.link[x]] = e, ![e] = x]]

TAILQ_INSERT_BEFORE(h, y, e) == LIST_INSERT_BEFORE(h, y, e)

TAILQ_CONCAT(h, q, r) ==
  IF h.link[r] = NULL THEN h
  ELSE [link |-> STAILQ_CONCAT(h, q, r).link,
        back |-> [STAILQ_CONCAT(h, q, r).back EXCEPT ![h.link[r]] = h.back[q]]]

TAILQ_SWAP(h, q, r) ==
  [link |-> STAILQ_SWAP(h, q, r).link,
   back |-> SetPrev(SetPrev(STAILQ_SWAP(h, q, r).back, h.link[r], q), h.link[q], r)]

\* The last element is found through the prev of the last link, which is at
\* the place of tqh_last; likewise the element before x.
TAILQ_PREV(h, x) == h.link[h.back[h.back[x]]]

CIRCLEQ_INSERT_AFTER(h, q, x, e) ==
  [link |-> [h.link EXCEPT ![e] = h.link[x], ![x] = e],
   back |-> [h.back EXCEPT ![e] = x, ![h.link[x]] = e]]

CIRCLEQ_INSERT_BEFORE(h, q, y, e) ==
  [link |-> [h.link EXCEPT ![e] = y, ![h.back[y]] = e],
   back |-> [h.back EXCEPT ![e] = h.back[y], ![y] = e]]

CIRCLEQ_INSERT_HEAD(h, q, e) ==
  [link |-> [h.link EXCEPT ![e] = h.link[q], ![q] = e],
   back |-> [h.back EXCEPT ![e] = q, ![IF h.back[q] = q THEN q ELSE h.link[q]] = e]]

CIRCLEQ_INSERT_TAIL(h, q, e) ==
  [link |-> [h.link EXCEPT ![e] = q, ![IF h.link[q] = q THEN q ELSE h.back[q]] = e],
   back |-> [h.back EXCEPT ![e] = h.back[q], ![q] = e]]

CIRCLEQ_REMOVE(h, q, e) ==
  [link |-> [h.link EXCEPT ![h.back[e]] = h.link[e]],
   back |-> [h.back EXCEPT ![h.link[e]] = h.back[e]]]

-----------------------------------------------------------------------------
(***************************************************************************)
(* The macros of the kind at hand.                                         *)
(***************************************************************************)
\* SLIST_INIT, STAILQ_INIT, LIST_INIT, TAILQ_INIT, CIRCLEQ_INIT.
INIT(k) ==
  [link |-> [x \in Cell |-> IF k = "CIRCLEQ" /\ x \in Queue THEN x ELSE NULL],
   back |-> [x \in Cell |-> IF k \in HasLast /\ x \in Queue THEN x ELSE NULL]]

INSERT_AFTER(q, x, e) ==
  CASE kind = "SLIST"   -> SLIST_INSERT_AFTER(heap, x, e)
    [] kind = "STAILQ"  -> STAILQ_INSERT_AFTER(heap, q, x, e)
    [] kind = "LIST"    -> LIST_INSERT_AFTER(heap, x, e)
    [] kind = "TAILQ"   -> TAILQ_INSERT_AFTER(heap, q, x, e)
    [] kind = "CIRCLEQ" -> CIRCLEQ_INSERT_AFTER(heap, q, x, e)

INSERT_HEAD(q, e) ==
  CASE kind = "TAILQ"   -> TAILQ_INSERT_HEAD(heap, q, e)
    [] kind = "CIRCLEQ" -> CIRCLEQ_INSERT_HEAD(heap, q, e)
    [] OTHER            -> INSERT_AFTER(q, q, e)

INSERT_TAIL(q, e) ==
  CASE kind = "STAILQ"  -> STAILQ_INSERT_TAIL(heap, q, e)
    [] kind = "TAILQ"   -> TAILQ_INSERT_TAIL(heap, q, e)
    [] kind = "CIRCLEQ" -> CIRCLEQ_INSERT_TAIL(heap, q, e)

INSERT_BEFORE(q, y, e) ==
  CASE kind = "LIST"    -> LIST_INSERT_BEFORE(heap, y, e)
    [] kind = "TAILQ"   -> TAILQ_INSERT_BEFORE(heap, y, e)
    [] kind = "CIRCLEQ" -> CIRCLEQ_INSERT_BEFORE(heap, q, y, e)

REMOVE(q, e) ==
  CASE kind = "SLIST"   -> SLIST_REMOVE(heap, q, e)
    [] kind = "STAILQ"  -> STAILQ_REMOVE(heap, q, e)
    [] kind = "LIST"    -> LIST_REMOVE(heap, e)
    [] kind = "TAILQ"   -> TAILQ_REMOVE(heap, q, e)
    [] kind = "CIRCLEQ" -> CIRCLEQ_REMOVE(heap, q, e)

\* Also STAILQ_LAST, which turns stqh_last back into the element around it.
LAST(q) == CASE kind = "TAILQ" -> TAILQ_PREV(heap, q)
             [] kind = "STAILQ" -> IF heap.link[q] = NULL THEN NULL ELSE heap.back[q]
             [] kind = "CIRCLEQ" -> heap.back[q]

NEXT(x) == heap.link[x]
PREV(x) == IF kind = "TAILQ" THEN TAILQ_PREV(heap, x) ELSE heap.back[x]

\* What ends a loop over list q.
End(q) == IF kind = "CIRCLEQ" THEN q ELSE NULL

-----------------------------------------------------------------------------
Init == /\ kind \in Kind
        /\ heap = INIT(kind)
        /\ seqs = [q \in Queue |-> << >>]
        /\ loop = NULL

(***************************************************************************)
(* The programs: an element is inserted only while it is in no list, and   *)
(* removed from, or named as a neighbour in, the list it is in.            *)
(***************************************************************************)
Fresh(e)   == \A q \in Queue : e \notin Members(seqs[q])
Place(q, e) == CHOOSE i \in 1 .. Len(seqs[q]) : seqs[q][i] = e

Change(h, q, s) == /\ loop = NULL
                   /\ heap' = h
                   /\ seqs' = [seqs EXCEPT ![q] = s]
                   /\ UNCHANGED <<kind, loop>>

insert_head(q, e) == Fresh(e) /\ Change(INSERT_HEAD(q, e), q, <<e>> \o seqs[q])

insert_tail(q, e) == /\ kind \in HasLast /\ Fresh(e)
                     /\ Change(INSERT_TAIL(q, e), q, Append(seqs[q], e))

insert_after(q, x, e) == /\ x \in Members(seqs[q]) /\ Fresh(e)
                         /\ Change(INSERT_AFTER(q, x, e), q,
                                   X!InsertAt(seqs[q], Place(q, x) + 1, e))

insert_before(q, y, e) == /\ kind \in HasPrev /\ y \in Members(seqs[q]) /\ Fresh(e)
                          /\ Change(INSERT_BEFORE(q, y, e), q,
                                    X!InsertAt(seqs[q], Place(q, y), e))

remove(q, e) == /\ e \in Members(seqs[q])
                /\ Change(REMOVE(q, e), q, X!RemoveAt(seqs[q], Place(q, e)))

\* REMOVE_HEAD when x is the head, REMOVE_AFTER when it is an element.
remove_after(q, x) ==
  LET i == IF x = q THEN 0 ELSE Place(q, x)
  IN  /\ kind \in SingleLinked /\ x \in {q} \cup Members(seqs[q])
      /\ i < Len(seqs[q])
      /\ Change(IF kind = "SLIST" THEN SLIST_REMOVE_AFTER(heap, x)
                                  ELSE STAILQ_REMOVE_AFTER(heap, q, x),
                q, X!RemoveAt(seqs[q], i + 1))

concat(q, r) == /\ kind \in {"STAILQ", "TAILQ"} /\ q # r /\ loop = NULL
                /\ heap' = IF kind = "STAILQ" THEN STAILQ_CONCAT(heap, q, r)
                                              ELSE TAILQ_CONCAT(heap, q, r)
                /\ seqs' = [seqs EXCEPT ![q] = @ \o seqs[r], ![r] = << >>]
                /\ UNCHANGED <<kind, loop>>

swap(q, r) == /\ kind \in {"STAILQ", "LIST", "TAILQ"} /\ q # r /\ loop = NULL
              /\ heap' = CASE kind = "STAILQ" -> STAILQ_SWAP(heap, q, r)
                           [] kind = "LIST"   -> LIST_SWAP(heap, q, r)
                           [] kind = "TAILQ"  -> TAILQ_SWAP(heap, q, r)
              /\ seqs' = [seqs EXCEPT ![q] = seqs[r], ![r] = seqs[q]]
              /\ UNCHANGED <<kind, loop>>

(***************************************************************************)
(* FOREACH, FOREACH_SAFE and their REVERSE forms.  The body of a SAFE loop *)
(* may remove the element it is at; CIRCLEQ has no SAFE loops.             *)
(***************************************************************************)
Advance(x) == IF loop.reverse THEN PREV(x) ELSE NEXT(x)

foreach(q, reverse, safe) ==
  /\ loop = NULL
  /\ reverse => kind \in {"TAILQ", "CIRCLEQ"}
  /\ safe => kind # "CIRCLEQ"
  /\ loop' = [on |-> q, reverse |-> reverse, safe |-> safe,
              var |-> IF reverse THEN LAST(q) ELSE NEXT(q), seen |-> << >>,
              due |-> IF reverse THEN X!Reverse(seqs[q]) ELSE seqs[q]]
  /\ UNCHANGED <<kind, heap, seqs>>

Inside == loop # NULL /\ loop.var # End(loop.on)

\* Mutant: a SAFE loop reads the next element after its body, not before.
IterateUnsafely(removes) ==
  LET e == loop.var
      q == loop.on
  IN  /\ removes => loop.safe
      /\ heap' = IF removes THEN REMOVE(q, e) ELSE heap
      /\ seqs' = IF removes THEN [seqs EXCEPT ![q] = X!RemoveAt(@, Place(q, e))] ELSE seqs
      /\ loop' = [loop EXCEPT !.var = heap'.link[e], !.seen = Append(@, e)]
      /\ kind' = kind

\* A SAFE loop has read the next element before the body runs.
iterate(removes) ==
  LET e == loop.var
      q == loop.on
  IN  /\ removes => loop.safe
      /\ heap' = IF removes THEN REMOVE(q, e) ELSE heap
      /\ seqs' = IF removes THEN [seqs EXCEPT ![q] = X!RemoveAt(@, Place(q, e))] ELSE seqs
      /\ loop' = [loop EXCEPT !.var = Advance(e), !.seen = Append(@, e)]
      /\ kind' = kind

finish == /\ loop # NULL /\ ~Inside
          /\ loop' = NULL
          /\ UNCHANGED <<kind, heap, seqs>>

Next == \/ \E q \in Queue, e \in Elem :
             \/ insert_head(q, e) \/ insert_tail(q, e) \/ remove(q, e)
             \/ \E x \in Elem : insert_after(q, x, e) \/ insert_before(q, x, e)
        \/ \E q \in Queue : \E x \in Cell : remove_after(q, x)
        \/ \E q, r \in Queue : concat(q, r) \/ swap(q, r)
        \/ \E q \in Queue, reverse, safe \in BOOLEAN : foreach(q, reverse, safe)
        \/ Inside /\ \E removes \in BOOLEAN : iterate(removes)
        \/ finish

Spec == Init /\ [][Next]_vars

-----------------------------------------------------------------------------
\* The i-th cell of list q, the head being the 0th.
At(q, i) == IF i = 0 THEN q ELSE seqs[q][i]

\* Whatever macros were used before, the pointers of every list spell out
\* what was inserted and not removed: forward, backward where the kind has
\* prev pointers, and the head's pointer to the last link or element.
ListsHold ==
  \A q \in Queue :
    LET n == Len(seqs[q])
    IN  /\ \A i \in 0 .. n : heap.link[At(q, i)] = IF i < n THEN At(q, i + 1) ELSE End(q)
        /\ kind \in HasPrev => \A i \in 1 .. n : heap.back[At(q, i)] = At(q, i - 1)
        /\ kind \in HasLast => heap.back[q] = At(q, n)

\* LAST finds the last element through the second pointers, for TAILQ by
\* reading an entry as if it were a head.
LastFound ==
  kind \in HasLast => \A q \in Queue : LAST(q) = IF seqs[q] = << >> THEN End(q)
                                                 ELSE X!Last(seqs[q])

\* All macros of cs_queue.h keep both.
ListsSound == ListsHold /\ LastFound

\* A loop visits every element of the list once, in order (or in reverse),
\* even when the body of a SAFE loop removes elements as it goes.
LoopsVisitAll == loop # NULL => /\ X!IsPrefix(loop.seen, loop.due)
                                /\ Inside \/ loop.seen = loop.due
=============================================================================
