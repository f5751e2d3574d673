-------------------------- MODULE ContainersProofs --------------------------
(***************************************************************************)
(* The containers, for every set of heads and elements.                    *)
(*                                                                         *)
(* The wait queues: the pointers always hold the queues, and the pointer   *)
(* structure implements the deques of module Deque.                        *)
(*                                                                         *)
(* The lists: whatever sequence of the macros of cs_queue.h is run, the    *)
(* pointers of all five kinds of lists spell out their content, and the    *)
(* FOREACH loops visit all of it.                                          *)
(***************************************************************************)
EXTENDS MCContainers, Integers, WellFoundedInduction, TailQueueProofs

(***************************************************************************)
(* The wait queues.                                                        *)
(***************************************************************************)
\* The parts of the inductive invariant, in the form the steps use them.
LEMMA InvFacts ==
  ASSUME IInv
  PROVE  /\ tq \in TailQueueType
         /\ qs \in [Queue -> Seq(Elem)]
         /\ ret \in {NULL} \cup [of : Queue, val : Elem \cup {NULL} \cup BOOLEAN]
         /\ \A q \in Queue : qs[q] \in Seq(Elem) /\ Holds(tq, q, qs[q])
         /\ \A q, r \in Queue : q # r =>
              \A i \in 1 .. Len(qs[q]), j \in 1 .. Len(qs[r]) : qs[q][i] # qs[r][j]
         /\ \A e \in Elem : Unlinked(e) =>
              \A q \in Queue : \A i \in 1 .. Len(qs[q]) : qs[q][i] # e
  <1>1. /\ tq \in TailQueueType
        /\ qs \in [Queue -> Seq(Elem)]
        /\ ret \in {NULL} \cup [of : Queue, val : Elem \cup {NULL} \cup BOOLEAN]
        /\ \A q \in Queue : qs[q] \in Seq(Elem) /\ Holds(tq, q, qs[q])
    BY DEF IInv, TypeOK, PointersHoldQueues
  <1>2. \A q, r \in Queue : q # r =>
          \A i \in 1 .. Len(qs[q]), j \in 1 .. Len(qs[r]) : qs[q][i] # qs[r][j]
    BY DEF IInv, EntriesExclusive, Members
  <1>3. \A e \in Elem : Unlinked(e) =>
          \A q \in Queue : \A i \in 1 .. Len(qs[q]) : qs[q][i] # e
    BY DEF IInv, EntriesExclusive, Members
  <1>4. QED
    BY <1>1, <1>2, <1>3

\* insert_tail preserves the inductive invariant.
LEMMA InsertTailStep ==
  ASSUME IInv, NEW q \in Queue, NEW e \in Elem, insert_tail(q, e)
  PROVE  IInv'
  <1>1. /\ tq' = TAILQ_INSERT_TAIL(tq, q, e)
        /\ qs' = [qs EXCEPT ![q] = Append(qs[q], e)]
        /\ ret' = NULL /\ Unlinked(e)
    BY DEF insert_tail
  <1>2. \A r \in Queue : \A i \in 1 .. Len(qs[r]) : qs[r][i] # e
    BY <1>1, InvFacts
  <1>3. tq' \in TailQueueType /\ Holds(tq', q, Append(qs[q], e))
    BY <1>1, <1>2, InvFacts, InsertTailHolds
  <1>4. \A r \in Queue \ {q} : Holds(tq', r, qs[r])
    BY <1>1, <1>2, InvFacts, InsertTailFrame
  <1>5. /\ qs' \in [Queue -> Seq(Elem)]
        /\ qs'[q] = Append(qs[q], e)
        /\ \A r \in Queue \ {q} : qs'[r] = qs[r]
    BY <1>1, InvFacts
  <1>6. TypeOK' /\ PointersHoldQueues'
    BY <1>1, <1>3, <1>4, <1>5, InvFacts DEF TypeOK, PointersHoldQueues
  <1>7. /\ Members(qs'[q]) = Members(qs[q]) \cup {e}
        /\ \A r \in Queue \ {q} : Members(qs'[r]) = Members(qs[r])
    BY <1>5, InvFacts, MembersFacts
  <1>8. \A x \in Elem : Unlinked(x)' <=> Unlinked(x) /\ x # e
    BY <1>1, InvFacts, InsertUnlinked DEF Unlinked
  <1>9. \A r \in Queue : e \notin Members(qs[r])
    BY <1>1 DEF IInv, EntriesExclusive
  <1>10. EntriesExclusive'
    BY <1>7, <1>8, <1>9 DEF IInv, EntriesExclusive
  <1>11. QED
    BY <1>6, <1>10 DEF IInv

\* insert_head preserves the inductive invariant.
LEMMA InsertHeadStep ==
  ASSUME IInv, NEW q \in Queue, NEW e \in Elem, insert_head(q, e)
  PROVE  IInv'
  <1>1. /\ tq' = TAILQ_INSERT_HEAD(tq, q, e)
        /\ qs' = [qs EXCEPT ![q] = <<e>> \o qs[q]]
        /\ ret' = NULL /\ Unlinked(e)
    BY DEF insert_head
  <1>2. \A r \in Queue : \A i \in 1 .. Len(qs[r]) : qs[r][i] # e
    BY <1>1, InvFacts
  <1>3. tq' \in TailQueueType /\ Holds(tq', q, <<e>> \o qs[q])
    BY <1>1, <1>2, InvFacts, InsertHeadHolds
  <1>4. \A r \in Queue \ {q} : Holds(tq', r, qs[r])
    BY <1>1, <1>2, InvFacts, InsertHeadFrame
  <1>5. /\ qs' \in [Queue -> Seq(Elem)]
        /\ qs'[q] = <<e>> \o qs[q]
        /\ \A r \in Queue \ {q} : qs'[r] = qs[r]
    BY <1>1, InvFacts
  <1>6. TypeOK' /\ PointersHoldQueues'
    BY <1>1, <1>3, <1>4, <1>5, InvFacts DEF TypeOK, PointersHoldQueues
  <1>7. /\ Members(qs'[q]) = Members(qs[q]) \cup {e}
        /\ \A r \in Queue \ {q} : Members(qs'[r]) = Members(qs[r])
    BY <1>5, InvFacts, MembersFacts
  <1>8. \A x \in Elem : Unlinked(x)' <=> Unlinked(x) /\ x # e
    BY <1>1, InvFacts, InsertUnlinked DEF Unlinked
  <1>9. \A r \in Queue : e \notin Members(qs[r])
    BY <1>1 DEF IInv, EntriesExclusive
  <1>10. EntriesExclusive'
    BY <1>7, <1>8, <1>9 DEF IInv, EntriesExclusive
  <1>11. QED
    BY <1>6, <1>10 DEF IInv

\* pop preserves the inductive invariant.
LEMMA PopStep ==
  ASSUME IInv, NEW q \in Queue, pop(q)
  PROVE  IInv'
  <1>1. CASE TAILQ_FIRST(tq, q) = NULL
    <2>1. tq' = tq /\ qs' = qs /\ ret' = [of |-> q, val |-> NULL]
      BY <1>1 DEF pop
    <2>2. QED
      BY <2>1 DEF IInv, TypeOK, PointersHoldQueues, EntriesExclusive, Unlinked
  <1>2. CASE TAILQ_FIRST(tq, q) # NULL
    <2>1. /\ qs[q] # << >>
          /\ TAILQ_FIRST(tq, q) = Head(qs[q])
          /\ Head(qs[q]) \in Elem
      BY <1>2, InvFacts, HoldsNoFault DEF TAILQ_EMPTY, TAILQ_FIRST
    <2>2. /\ tq' = TAILQ_REMOVE(tq, q, Head(qs[q]))
          /\ qs' = [qs EXCEPT ![q] = Tail(qs[q])]
          /\ ret' = [of |-> q, val |-> Head(qs[q])]
      BY <1>2, <2>1 DEF pop
    <2>3. tq' \in TailQueueType /\ Holds(tq', q, Tail(qs[q]))
      BY <2>1, <2>2, InvFacts, RemoveHolds
    <2>4. \A r \in Queue \ {q} : Holds(tq', r, qs[r])
      BY <2>1, <2>2, InvFacts, RemoveFrame
    <2>5. /\ qs' \in [Queue -> Seq(Elem)]
          /\ qs'[q] = Tail(qs[q])
          /\ \A r \in Queue \ {q} : qs'[r] = qs[r]
      BY <2>1, <2>2, InvFacts
    <2>6. TypeOK' /\ PointersHoldQueues'
      BY <2>1, <2>2, <2>3, <2>4, <2>5 DEF TypeOK, PointersHoldQueues
    <2>7. /\ Members(qs'[q]) = Members(qs[q]) \ {Head(qs[q])}
          /\ Head(qs[q]) \in Members(qs[q])
          /\ \A r \in Queue \ {q} : Members(qs'[r]) = Members(qs[r])
      BY <2>1, <2>5, InvFacts, MembersFacts DEF Holds
    <2>8. \A x \in Elem : Unlinked(x)' <=> Unlinked(x) \/ x = Head(qs[q])
      BY <2>1, <2>2, InvFacts, RemoveUnlinked DEF Unlinked
    <2>9. EntriesExclusive'
      <3> DEFINE h == Head(qs[q])
                 M(r) == Members(qs[r])
                 N(r) == Members(qs'[r])
      <3>1. /\ h \in M(q) /\ N(q) = M(q) \ {h}
            /\ \A r \in Queue : r # q => N(r) = M(r)
        BY <2>7
      <3>2. /\ \A p, r \in Queue : p # r => M(p) \cap M(r) = {}
            /\ \A x \in Elem : Unlinked(x) <=> \A r \in Queue : x \notin M(r)
        BY DEF IInv, EntriesExclusive
      <3>3. \A x \in Elem : Unlinked(x)' <=> Unlinked(x) \/ x = h
        BY <2>8
      <3> HIDE DEF h, M, N
      <3>4. \A p, r \in Queue : p # r => N(p) \cap N(r) = {}
        BY <3>1, <3>2
      <3>5. \A x \in Elem : Unlinked(x)' <=> \A r \in Queue : x \notin N(r)
        BY <3>1, <3>2, <3>3
      <3>6. QED
        BY <3>4, <3>5 DEF EntriesExclusive, N
    <2>10. QED
      BY <2>6, <2>9 DEF IInv
  <1>3. QED
    BY <1>1, <1>2

\* TAILQ_INIT establishes the inductive invariant.
LEMMA InitStep == Init => IInv
  <1> SUFFICES ASSUME Init PROVE IInv
    OBVIOUS
  <1>1. /\ tq = TAILQ_INIT /\ ret = NULL
        /\ qs \in [Queue -> Seq(Elem)]
        /\ \A q \in Queue : qs[q] = << >> /\ Members(qs[q]) = {}
    BY DEF Init, Members
  <1>2. TypeOK /\ PointersHoldQueues
    BY <1>1, InitHolds DEF TypeOK, PointersHoldQueues
  <1>3. \A e \in Elem : Unlinked(e)
    BY <1>1, CellAssumption DEF Unlinked, TAILQ_INIT, Cell
  <1>4. QED
    BY <1>1, <1>2, <1>3 DEF IInv, EntriesExclusive

\* Whatever is inserted and popped, in whatever order, the first, last, next
\* and prev pointers of every wait_sched_queue hold exactly the coroutines
\* inserted and not yet popped, and no coroutine is in two queues.
THEOREM PointersCorrect == Spec => [](TypeOK /\ PointersHoldQueues /\ EntriesExclusive)
  <1>1. IInv /\ [Next]_vars => IInv'
    <2> SUFFICES ASSUME IInv, [Next]_vars PROVE IInv'
      OBVIOUS
    <2>1. ASSUME NEW q \in Queue, pop(q) PROVE IInv'
      BY <2>1, PopStep
    <2>2. ASSUME NEW q \in Queue, empty(q) PROVE IInv'
      BY <2>2 DEF empty, IInv, TypeOK, PointersHoldQueues, EntriesExclusive, Unlinked,
                  TAILQ_EMPTY
    <2>3. ASSUME NEW q \in Queue, NEW e \in Elem, insert_tail(q, e) PROVE IInv'
      BY <2>3, InsertTailStep
    <2>4. ASSUME NEW q \in Queue, NEW e \in Elem, insert_head(q, e) PROVE IInv'
      BY <2>4, InsertHeadStep
    <2>5. CASE UNCHANGED vars
      BY <2>5 DEF vars, IInv, TypeOK, PointersHoldQueues, EntriesExclusive, Unlinked
    <2>6. QED
      BY <2>1, <2>2, <2>3, <2>4, <2>5 DEF Next
  <1>2. QED
    BY InitStep, <1>1, PTL DEF Spec, IInv

\* The pointer structure implements the abstract deques: in particular pop
\* returns the front of the queue, and nil only when the queue is empty.
THEOREM ImplementsDeque == Spec => DequeSpec
  <1>1. Init => D!Init
    BY DEF Init, D!Init
  <1>2. IInv /\ [Next]_vars => [D!Next]_(D!vars)
    <2> SUFFICES ASSUME IInv, [Next]_vars PROVE [D!Next]_(D!vars)
      OBVIOUS
    <2>1. ASSUME NEW q \in Queue, pop(q) PROVE D!PopFront(q)
      <3>1. /\ TAILQ_FIRST(tq, q) = NULL <=> qs[q] = << >>
            /\ qs[q] # << >> => TAILQ_FIRST(tq, q) = Head(qs[q])
        BY InvFacts, HoldsNoFault DEF TAILQ_EMPTY, TAILQ_FIRST
      <3>2. QED
        BY <2>1, <3>1 DEF pop, D!PopFront
    <2>2. ASSUME NEW q \in Queue, empty(q) PROVE D!IsEmpty(q)
      <3>1. TAILQ_EMPTY(tq, q) = (qs[q] = << >>)
        BY InvFacts, HoldsNoFault DEF TAILQ_EMPTY
      <3>2. QED
        BY <2>2, <3>1 DEF empty, D!IsEmpty
    <2>3. ASSUME NEW q \in Queue, NEW e \in Elem, insert_tail(q, e) PROVE D!PushBack(q, e)
      BY <2>3, InvFacts DEF insert_tail, D!PushBack, D!InQueue
    <2>4. ASSUME NEW q \in Queue, NEW e \in Elem, insert_head(q, e) PROVE D!PushFront(q, e)
      BY <2>4, InvFacts DEF insert_head, D!PushFront, D!InQueue
    <2>5. CASE UNCHANGED vars
      BY <2>5 DEF vars, D!vars
    <2>6. QED
      BY <2>1, <2>2, <2>3, <2>4, <2>5 DEF Next, D!Next
  <1>3. Spec => []IInv
    BY PointersCorrect, PTL DEF IInv
  <1>4. QED
    BY <1>1, <1>2, <1>3, PTL DEF Spec, DequeSpec, D!Spec

-----------------------------------------------------------------------------
(***************************************************************************)
(* The lists.  The macros of the five kinds store in different places and  *)
(* orders, but what they leave behind is the same: InsertEffect and        *)
(* RemoveEffect say it once, InsertKeeps and RemoveKeeps show that it      *)
(* keeps the lists sound, and one lemma per macro shows that the macro has *)
(* that effect.                                                            *)
(***************************************************************************)
USE CellAssumption

Heap == [link : [Cell -> Cell \cup {NULL}], back : [Cell -> Cell \cup {NULL}]]

\* The i-th cell of list q when the lists hold s, the head being the 0th, and
\* what follows the last one.
Cel(s, q, i) == IF i = 0 THEN q ELSE s[q][i]
EndOf(k, q)  == IF k = "CIRCLEQ" THEN q ELSE NULL

\* No element is in two lists, or twice in one.
Contents(s) ==
  /\ s \in [Queue -> Seq(Elem)]
  /\ \A q, r \in Queue : \A i \in 1 .. Len(s[q]), j \in 1 .. Len(s[r]) :
       s[q][i] = s[r][j] => q = r /\ i = j

Absent(s, e) == \A q \in Queue : \A i \in 1 .. Len(s[q]) : s[q][i] # e

Forward(k, h, s) ==
  \A q \in Queue : \A i \in 0 .. Len(s[q]) :
    h.link[Cel(s, q, i)] = IF i < Len(s[q]) THEN Cel(s, q, i + 1) ELSE EndOf(k, q)

Backward(k, h, s) ==
  k \in L!HasPrev =>
    \A q \in Queue : \A i \in 1 .. Len(s[q]) : h.back[Cel(s, q, i)] = Cel(s, q, i - 1)

Lasts(k, h, s) ==
  k \in L!HasLast => \A q \in Queue : h.back[q] = Cel(s, q, Len(s[q]))

\* The walk of SLIST_REMOVE and STAILQ_REMOVE ends below every cell: an entry
\* that is in no list has been trashed.
Trashed(k, h, s) ==
  k \in L!SingleLinked => \A e \in Elem : Absent(s, e) => h.link[e] = NULL

Sound(k, h, s) == /\ k \in L!Kind /\ h \in Heap /\ Contents(s)
                  /\ Forward(k, h, s) /\ Backward(k, h, s)
                  /\ Lasts(k, h, s) /\ Trashed(k, h, s)

-----------------------------------------------------------------------------
\* The elements of a sequence.
LEMMA SeqElements ==
  ASSUME NEW S, NEW t \in Seq(S)
  PROVE  Len(t) \in Nat /\ \A i \in 1 .. Len(t) : t[i] \in S
  OBVIOUS

\* The cells of the lists are different cells.
LEMMA CellFacts ==
  ASSUME NEW s, Contents(s)
  PROVE  /\ \A q \in Queue : Len(s[q]) \in Nat /\ s[q] \in Seq(Elem)
         /\ \A q \in Queue : \A i \in 1 .. Len(s[q]) : s[q][i] \in Elem
         /\ \A q \in Queue : Cel(s, q, 0) = q
         /\ \A q \in Queue : \A i \in 1 .. Len(s[q]) : Cel(s, q, i) = s[q][i]
         /\ \A q \in Queue : \A i \in 0 .. Len(s[q]) : Cel(s, q, i) \in Cell
         /\ \A q, r \in Queue : \A i \in 0 .. Len(s[q]), j \in 0 .. Len(s[r]) :
              Cel(s, q, i) = Cel(s, r, j) => q = r /\ i = j
         /\ \A e \in Elem : Absent(s, e) =>
              \A q \in Queue : \A i \in 0 .. Len(s[q]) : Cel(s, q, i) # e
  <1>1. \A q \in Queue : s[q] \in Seq(Elem)
    BY DEF Contents
  <1>2. \A q \in Queue : Len(s[q]) \in Nat /\ \A i \in 1 .. Len(s[q]) : s[q][i] \in Elem
    BY <1>1, SeqElements
  <1>3. /\ \A q \in Queue : Cel(s, q, 0) = q
        /\ \A q \in Queue : \A i \in 1 .. Len(s[q]) : Cel(s, q, i) = s[q][i]
    BY <1>2 DEF Cel
  <1>4. \A n \in Nat : \A i \in 0 .. n : i = 0 \/ i \in 1 .. n
    OBVIOUS
  <1>5. \A q \in Queue : \A i \in 0 .. Len(s[q]) : Cel(s, q, i) \in Cell
    BY <1>2, <1>3, <1>4 DEF Cell
  <1>6. ASSUME NEW q \in Queue, NEW r \in Queue,
               NEW i \in 0 .. Len(s[q]), NEW j \in 0 .. Len(s[r]),
               Cel(s, q, i) = Cel(s, r, j)
        PROVE  q = r /\ i = j
    <2>1. CASE i = 0 /\ j = 0
      BY <1>3, <1>6, <2>1
    <2>2. CASE i = 0 /\ j \in 1 .. Len(s[r])
      BY <1>2, <1>3, <1>6, <2>2
    <2>3. CASE i \in 1 .. Len(s[q]) /\ j = 0
      BY <1>2, <1>3, <1>6, <2>3
    <2>4. CASE i \in 1 .. Len(s[q]) /\ j \in 1 .. Len(s[r])
      BY <1>3, <1>6, <2>4 DEF Contents
    <2>5. QED
      BY <1>2, <1>4, <2>1, <2>2, <2>3, <2>4
  <1>7. ASSUME NEW e \in Elem, Absent(s, e), NEW q \in Queue, NEW i \in 0 .. Len(s[q])
        PROVE  Cel(s, q, i) # e
    BY <1>2, <1>3, <1>4, <1>7 DEF Absent
  <1>8. QED
    BY <1>1, <1>2, <1>3, <1>5, <1>6, <1>7

-----------------------------------------------------------------------------
(***************************************************************************)
(* Insertion after the i-th cell of list q.                                *)
(***************************************************************************)
Inserted(a, i, e, t) ==
  /\ t \in Seq(Elem) /\ Len(t) = Len(a) + 1
  /\ \A j \in 1 .. Len(t) :
       t[j] = IF j <= i THEN a[j] ELSE IF j = i + 1 THEN e ELSE a[j - 1]

InsertEffect(k, h, g, s, q, i, e) ==
  /\ g \in Heap
  /\ g.link[Cel(s, q, i)] = e
  /\ g.link[e] = h.link[Cel(s, q, i)]
  /\ \A c \in Cell \ {Cel(s, q, i), e} : g.link[c] = h.link[c]
  /\ k \in L!HasPrev => /\ g.back[e] = Cel(s, q, i)
                        /\ i < Len(s[q]) => g.back[Cel(s, q, i + 1)] = e
  /\ k \in L!HasLast => g.back[q] = IF i = Len(s[q]) THEN e ELSE Cel(s, q, Len(s[q]))
  /\ \A c \in Cell \ {e, q} : (i < Len(s[q]) => c # Cel(s, q, i + 1)) => g.back[c] = h.back[c]

InsertedInto(s, q, i, e, z) ==
  /\ Contents(z)
  /\ Len(z[q]) = Len(s[q]) + 1
  /\ \A r \in Queue \ {q} : z[r] = s[r]
  /\ \A j \in 0 .. i : Cel(z, q, j) = Cel(s, q, j)
  /\ Cel(z, q, i + 1) = e
  /\ \A j \in i + 2 .. Len(s[q]) + 1 : Cel(z, q, j) = Cel(s, q, j - 1)
  /\ \A y \in Elem : Absent(z, y) => Absent(s, y) /\ y # e

\* What the lists hold after the insertion.
LEMMA InsertContents ==
  ASSUME NEW s, Contents(s), NEW q \in Queue, NEW i \in 0 .. Len(s[q]),
         NEW e \in Elem, Absent(s, e), NEW t, Inserted(s[q], i, e, t),
         NEW z, z = [s EXCEPT ![q] = t]
  PROVE  InsertedInto(s, q, i, e, z)
  <1> DEFINE n == Len(s[q])
  <1>1. n \in Nat /\ i \in 0 .. n /\ s[q] \in Seq(Elem)
    BY CellFacts
  <1>2. /\ z \in [Queue -> Seq(Elem)] /\ z[q] = t
        /\ \A r \in Queue \ {q} : z[r] = s[r]
    BY DEF Contents, Inserted
  <1>3. /\ Len(z[q]) = n + 1
        /\ \A r \in Queue \ {q} : z[r] = s[r]
    BY <1>2 DEF Inserted
  <1>4. \A j \in 1 .. n + 1 : z[q][j] = IF j <= i THEN s[q][j] ELSE IF j = i + 1 THEN e ELSE s[q][j - 1]
    BY <1>2 DEF Inserted
  <1> HIDE DEF n
  <1>5. /\ \A j \in 1 .. i : j \in 1 .. n + 1 /\ j <= i /\ j # 0
        /\ i + 1 \in 1 .. n + 1 /\ ~(i + 1 <= i) /\ i + 1 # 0
        /\ \A j \in i + 2 .. n + 1 : j \in 1 .. n + 1 /\ ~(j <= i) /\ j # i + 1 /\ j # 0 /\ j - 1 # 0
        /\ \A j \in 0 .. i : j = 0 \/ j \in 1 .. i
    BY <1>1
  <1>6. /\ \A j \in 0 .. i : Cel(z, q, j) = Cel(s, q, j)
        /\ Cel(z, q, i + 1) = e
        /\ \A j \in i + 2 .. n + 1 : Cel(z, q, j) = Cel(s, q, j - 1)
    BY <1>4, <1>5 DEF Cel
  <1>7. ASSUME NEW j \in 1 .. n + 1
        PROVE  \/ j # i + 1 /\ \E m \in 1 .. n : z[q][j] = s[q][m] /\ m = IF j <= i THEN j ELSE j - 1
               \/ j = i + 1 /\ z[q][j] = e
    <2>1. \/ j = i + 1 /\ ~(j <= i)
          \/ j <= i /\ j \in 1 .. n
          \/ ~(j <= i) /\ j # i + 1 /\ j - 1 \in 1 .. n
      BY <1>1
    <2>2. QED
      BY <1>4, <2>1
  <1>8. ASSUME NEW r \in Queue, NEW p \in Queue, NEW j \in 1 .. Len(z[r]), NEW m \in 1 .. Len(z[p]),
               z[r][j] = z[p][m]
        PROVE  r = p /\ j = m
    <2>1. CASE r # q /\ p # q
      BY <1>2, <1>8, <2>1 DEF Contents
    <2>2. CASE r = q /\ p # q
      <3>1. m \in 1 .. Len(s[p]) /\ z[p][m] = s[p][m]
        BY <1>2, <2>2
      <3>2. z[q][j] # e
        BY <1>8, <2>2, <3>1 DEF Absent
      <3>3. PICK l \in 1 .. n : z[q][j] = s[q][l]
        BY <1>3, <1>7, <2>2, <3>2
      <3>4. QED
        BY <1>8, <2>2, <3>1, <3>3 DEF Contents, n
    <2>3. CASE r # q /\ p = q
      <3>1. j \in 1 .. Len(s[r]) /\ z[r][j] = s[r][j]
        BY <1>2, <2>3
      <3>2. z[q][m] # e
        BY <1>8, <2>3, <3>1 DEF Absent
      <3>3. PICK l \in 1 .. n : z[q][m] = s[q][l]
        BY <1>3, <1>7, <2>3, <3>2
      <3>4. QED
        BY <1>8, <2>3, <3>1, <3>3 DEF Contents, n
    <2>4. CASE r = q /\ p = q
      <3>1. j \in 1 .. n + 1 /\ m \in 1 .. n + 1
        BY <1>3, <2>4
      <3>2. \A l \in 1 .. n : s[q][l] # e
        BY DEF Absent, n
      <3>3. CASE j = i + 1 \/ m = i + 1
        BY <1>7, <1>8, <2>4, <3>1, <3>2, <3>3
      <3>4. CASE j # i + 1 /\ m # i + 1
        <4>1. PICK a \in 1 .. n : z[q][j] = s[q][a] /\ a = IF j <= i THEN j ELSE j - 1
          BY <1>7, <3>1, <3>4
        <4>2. PICK b \in 1 .. n : z[q][m] = s[q][b] /\ b = IF m <= i THEN m ELSE m - 1
          BY <1>7, <3>1, <3>4
        <4>3. a = b
          BY <1>8, <2>4, <4>1, <4>2 DEF Contents, n
        <4>4. QED
          BY <1>1, <2>4, <3>1, <3>4, <4>1, <4>2, <4>3
      <3>5. QED
        BY <3>3, <3>4
    <2>5. QED
      BY <2>1, <2>2, <2>3, <2>4
  <1>9. ASSUME NEW x \in Elem, Absent(z, x)
        PROVE  Absent(s, x) /\ x # e
    <2>1. x # e
      BY <1>3, <1>4, <1>5, <1>9 DEF Absent
    <2>2. ASSUME NEW r \in Queue, NEW j \in 1 .. Len(s[r]), s[r][j] = x
          PROVE  FALSE
      <3>1. CASE r # q
        BY <1>2, <1>9, <2>2, <3>1 DEF Absent
      <3>2. CASE r = q
        <4>1. j \in 1 .. n
          BY <3>2 DEF n
        <4>2. CASE j <= i
          <5>1. j \in 1 .. n + 1 /\ z[q][j] = s[q][j]
            BY <1>1, <1>4, <4>1, <4>2
          <5>2. QED
            BY <1>3, <1>9, <2>2, <3>2, <5>1 DEF Absent
        <4>3. CASE ~(j <= i)
          <5>1. j + 1 \in 1 .. n + 1 /\ ~(j + 1 <= i) /\ j + 1 # i + 1 /\ (j + 1) - 1 = j
            BY <1>1, <4>1, <4>3
          <5>2. z[q][j + 1] = s[q][j]
            BY <1>4, <5>1
          <5>3. QED
            BY <1>3, <1>9, <2>2, <3>2, <5>1, <5>2 DEF Absent
        <4>4. QED
          BY <4>2, <4>3
      <3>3. QED
        BY <3>1, <3>2
    <2>3. QED
      BY <2>1, <2>2 DEF Absent
  <1>10. Contents(z)
    BY <1>2, <1>8 DEF Contents
  <1>11. QED
    BY <1>2, <1>3, <1>6, <1>9, <1>10 DEF n, InsertedInto

\* An insertion with that effect keeps the lists sound.
LEMMA InsertKeeps ==
  ASSUME NEW k, NEW h, NEW s, Sound(k, h, s), NEW q \in Queue, NEW i \in 0 .. Len(s[q]),
         NEW e \in Elem, Absent(s, e), NEW t, Inserted(s[q], i, e, t),
         NEW g, InsertEffect(k, h, g, s, q, i, e),
         NEW z, z = [s EXCEPT ![q] = t]
  PROVE  Sound(k, g, z)
  <1>0. Contents(s) /\ h \in Heap /\ g \in Heap /\ k \in L!Kind
    BY DEF Sound, InsertEffect
  <1>a. InsertedInto(s, q, i, e, z)
    BY <1>0, InsertContents
  <1> DEFINE n == Len(s[q])
             x == Cel(s, q, i)
  <1>1. n \in Nat /\ i \in 0 .. n
    BY <1>0, CellFacts
  <1>2. /\ Contents(z)
        /\ Len(z[q]) = n + 1
        /\ \A r \in Queue \ {q} : z[r] = s[r]
        /\ \A j \in 0 .. i : Cel(z, q, j) = Cel(s, q, j)
        /\ Cel(z, q, i + 1) = e
        /\ \A j \in i + 2 .. n + 1 : Cel(z, q, j) = Cel(s, q, j - 1)
        /\ \A y \in Elem : Absent(z, y) => Absent(s, y) /\ y # e
    BY <1>a DEF InsertedInto
  <1>3. /\ \A r \in Queue : \A j \in 0 .. Len(s[r]) : Cel(s, r, j) \in Cell /\ Cel(s, r, j) # e
        /\ \A r, p \in Queue : \A j \in 0 .. Len(s[r]), m \in 0 .. Len(s[p]) :
             Cel(s, r, j) = Cel(s, p, m) => r = p /\ j = m
        /\ \A r \in Queue : Cel(s, r, 0) = r /\ Len(s[r]) \in Nat
    BY <1>0, CellFacts
  <1>4. /\ g.link[x] = e
        /\ g.link[e] = h.link[x]
        /\ \A c \in Cell : c # x /\ c # e => g.link[c] = h.link[c]
    BY DEF InsertEffect
  <1>5. \A r \in Queue : \A j \in 0 .. Len(s[r]) :
          h.link[Cel(s, r, j)] = IF j < Len(s[r]) THEN Cel(s, r, j + 1) ELSE EndOf(k, r)
    BY DEF Sound, Forward
  <1> HIDE DEF n, x
  <1>6. Forward(k, g, z)
    <2>1. ASSUME NEW r \in Queue \ {q}, NEW j \in 0 .. Len(z[r])
          PROVE  g.link[Cel(z, r, j)] = IF j < Len(z[r]) THEN Cel(z, r, j + 1) ELSE EndOf(k, r)
      <3>1. j \in 0 .. Len(s[r]) /\ Cel(s, r, j) # x /\ Cel(s, r, j) # e /\ Cel(s, r, j) \in Cell
        BY <1>1, <1>2, <1>3 DEF x, n
      <3>2. /\ Cel(z, r, j) = Cel(s, r, j) /\ Cel(z, r, j + 1) = Cel(s, r, j + 1)
            /\ Len(z[r]) = Len(s[r])
        BY <1>2 DEF Cel
      <3>3. QED
        BY <1>4, <1>5, <3>1, <3>2
    <2>2. ASSUME NEW j \in 0 .. n + 1
          PROVE  g.link[Cel(z, q, j)] = IF j < n + 1 THEN Cel(z, q, j + 1) ELSE EndOf(k, q)
      <3>1. CASE j < i
        <4>1. j \in 0 .. i /\ j \in 0 .. n /\ j < n /\ j < n + 1 /\ j + 1 \in 0 .. i /\ j # i
          BY <1>1, <3>1
        <4>2. Cel(s, q, j) # x /\ Cel(s, q, j) # e /\ Cel(s, q, j) \in Cell
          BY <1>1, <1>3, <4>1 DEF x, n
        <4>3. QED
          BY <1>2, <1>4, <1>5, <4>1, <4>2 DEF n
      <3>2. CASE j = i
        <4>1. i \in 0 .. i /\ i < n + 1
          BY <1>1
        <4>2. QED
          BY <1>2, <1>4, <3>2, <4>1 DEF x
      <3>3. CASE j = i + 1
        <4>1. CASE i < n
          <5>1. j < n + 1 /\ j + 1 \in i + 2 .. n + 1 /\ (j + 1) - 1 = i + 1
            BY <1>1, <3>3, <4>1
          <5>2. h.link[x] = Cel(s, q, i + 1)
            BY <1>1, <1>5, <4>1 DEF x, n
          <5>3. QED
            BY <1>2, <1>4, <3>3, <5>1, <5>2
        <4>2. CASE ~(i < n)
          <5>1. ~(j < n + 1)
            BY <1>1, <3>3, <4>2
          <5>2. h.link[x] = EndOf(k, q)
            BY <1>1, <1>5, <4>2 DEF x, n
          <5>3. QED
            BY <1>2, <1>4, <3>3, <5>1, <5>2
        <4>3. QED
          BY <4>1, <4>2
      <3>4. CASE j > i + 1
        <4>1. /\ j \in i + 2 .. n + 1 /\ j - 1 \in 0 .. n /\ j - 1 # i
              /\ (j < n + 1 <=> j - 1 < n) /\ (j - 1) + 1 = j /\ (j + 1) - 1 = j
              /\ j < n + 1 => j + 1 \in i + 2 .. n + 1
          BY <1>1, <3>4
        <4>2. Cel(s, q, j - 1) # x /\ Cel(s, q, j - 1) # e /\ Cel(s, q, j - 1) \in Cell
          BY <1>1, <1>3, <4>1 DEF x, n
        <4>3. h.link[Cel(s, q, j - 1)] = IF j < n + 1 THEN Cel(s, q, j) ELSE EndOf(k, q)
          BY <1>5, <4>1 DEF n
        <4>4. j < n + 1 => Cel(z, q, j + 1) = Cel(s, q, j)
          BY <1>2, <4>1
        <4>5. QED
          BY <1>2, <1>4, <4>1, <4>2, <4>3, <4>4
      <3>5. j < i \/ j = i \/ j = i + 1 \/ j > i + 1
        BY <1>1
      <3>6. QED
        BY <3>1, <3>2, <3>3, <3>4, <3>5
    <2>3. ASSUME NEW r \in Queue, NEW j \in 0 .. Len(z[r])
          PROVE  g.link[Cel(z, r, j)] = IF j < Len(z[r]) THEN Cel(z, r, j + 1) ELSE EndOf(k, r)
      <3>1. CASE r = q
        BY <1>2, <2>2, <3>1
      <3>2. CASE r # q
        BY <2>1, <3>2
      <3>3. QED
        BY <3>1, <3>2
    <2>4. QED
      BY <2>3 DEF Forward
  <1>7. Backward(k, g, z)
    <2> SUFFICES ASSUME k \in L!HasPrev
                 PROVE  Backward(k, g, z)
      BY DEF Backward
    <2>1. /\ g.back[e] = x
          /\ i < n => g.back[Cel(s, q, i + 1)] = e
          /\ \A c \in Cell : c # e /\ c # q /\ (i < n => c # Cel(s, q, i + 1)) => g.back[c] = h.back[c]
      BY DEF InsertEffect, x, n
    <2>2. \A r \in Queue : \A j \in 1 .. Len(s[r]) : h.back[Cel(s, r, j)] = Cel(s, r, j - 1)
      BY DEF Sound, Backward
    <2>3. ASSUME NEW r \in Queue \ {q}, NEW j \in 1 .. Len(z[r])
          PROVE  g.back[Cel(z, r, j)] = Cel(z, r, j - 1)
      <3>1. j \in 1 .. Len(s[r]) /\ j \in 0 .. Len(s[r]) /\ j # 0
        BY <1>2, <1>3
      <3>2. i < n => i + 1 \in 0 .. n
        BY <1>1
      <3>3. /\ Cel(s, r, j) # e /\ Cel(s, r, j) # q /\ Cel(s, r, j) \in Cell
            /\ i < n => Cel(s, r, j) # Cel(s, q, i + 1)
        BY <1>1, <1>3, <3>1, <3>2 DEF n
      <3>4. Cel(z, r, j) = Cel(s, r, j) /\ Cel(z, r, j - 1) = Cel(s, r, j - 1)
        BY <1>2 DEF Cel
      <3>5. QED
        BY <2>1, <2>2, <3>1, <3>3, <3>4
    <2>4. ASSUME NEW j \in 1 .. n + 1
          PROVE  g.back[Cel(z, q, j)] = Cel(z, q, j - 1)
      <3>1. CASE j <= i
        <4>1. j \in 0 .. i /\ j - 1 \in 0 .. i /\ j \in 1 .. n /\ j \in 0 .. n /\ j # 0 /\ 0 \in 0 .. n
              /\ (i < n => i + 1 \in 0 .. n /\ j # i + 1)
          BY <1>1, <3>1
        <4>2. /\ Cel(s, q, j) # e /\ Cel(s, q, j) # q /\ Cel(s, q, j) \in Cell
              /\ i < n => Cel(s, q, j) # Cel(s, q, i + 1)
          BY <1>3, <4>1 DEF n
        <4>3. QED
          BY <1>2, <2>1, <2>2, <4>1, <4>2 DEF n
      <3>2. CASE j = i + 1
        <4>1. j - 1 = i /\ i \in 0 .. i
          BY <1>1, <3>2
        <4>2. QED
          BY <1>2, <2>1, <3>2, <4>1 DEF x
      <3>3. CASE j = i + 2
        <4>1. i < n /\ j \in i + 2 .. n + 1 /\ j - 1 = i + 1
          BY <1>1, <3>3
        <4>2. QED
          BY <1>2, <2>1, <4>1
      <3>4. CASE j > i + 2
        <4>1. /\ j \in i + 2 .. n + 1 /\ j - 1 \in i + 2 .. n + 1 /\ j - 1 \in 1 .. n /\ j - 1 \in 0 .. n
              /\ j - 1 # 0 /\ 0 \in 0 .. n /\ (i < n => i + 1 \in 0 .. n /\ j - 1 # i + 1)
          BY <1>1, <3>4
        <4>2. /\ Cel(s, q, j - 1) # e /\ Cel(s, q, j - 1) # q /\ Cel(s, q, j - 1) \in Cell
              /\ i < n => Cel(s, q, j - 1) # Cel(s, q, i + 1)
          BY <1>3, <4>1 DEF n
        <4>3. Cel(z, q, j) = Cel(s, q, j - 1) /\ Cel(z, q, j - 1) = Cel(s, q, (j - 1) - 1)
          BY <1>2, <4>1
        <4>4. QED
          BY <2>1, <2>2, <4>1, <4>2, <4>3 DEF n
      <3>5. j <= i \/ j = i + 1 \/ j = i + 2 \/ j > i + 2
        BY <1>1
      <3>6. QED
        BY <3>1, <3>2, <3>3, <3>4, <3>5
    <2>5. QED
      BY <1>2, <2>3, <2>4 DEF Backward
  <1>8. Lasts(k, g, z)
    <2> SUFFICES ASSUME k \in L!HasLast
                 PROVE  Lasts(k, g, z)
      BY DEF Lasts
    <2>1. /\ g.back[q] = IF i = n THEN e ELSE Cel(s, q, n)
          /\ \A c \in Cell : c # e /\ c # q /\ (i < n => c # Cel(s, q, i + 1)) => g.back[c] = h.back[c]
      BY DEF InsertEffect, n
    <2>2. \A r \in Queue : h.back[r] = Cel(s, r, Len(s[r]))
      BY DEF Sound, Lasts
    <2>3. ASSUME NEW r \in Queue \ {q}
          PROVE  g.back[r] = Cel(z, r, Len(z[r]))
      <3>1. 0 \in 0 .. Len(s[r]) /\ (i < n => i + 1 \in 0 .. n /\ i + 1 # 0)
        BY <1>1, <1>3
      <3>2. r \in Cell /\ r # e /\ (i < n => r # Cel(s, q, i + 1))
        BY <1>3, <3>1 DEF n
      <3>3. QED
        BY <1>2, <2>1, <2>2, <3>2 DEF Cel
    <2>4. g.back[q] = Cel(z, q, n + 1)
      <3>1. i # n => n + 1 \in i + 2 .. n + 1 /\ (n + 1) - 1 = n
        BY <1>1
      <3>2. QED
        BY <1>2, <2>1, <3>1
    <2>5. QED
      BY <1>2, <2>3, <2>4 DEF Lasts
  <1>9. Trashed(k, g, z)
    <2> SUFFICES ASSUME k \in L!SingleLinked
                 PROVE  Trashed(k, g, z)
      BY DEF Trashed
    <2>1. \A y \in Elem : Absent(s, y) => h.link[y] = NULL
      BY DEF Sound, Trashed
    <2>2. ASSUME NEW y \in Elem, Absent(z, y)
          PROVE  g.link[y] = NULL
      <3>1. Absent(s, y) /\ y # e /\ y \in Cell
        BY <1>2, <2>2 DEF Cell
      <3>2. y # x
        BY <1>0, <1>1, <3>1, CellFacts DEF x, n
      <3>3. QED
        BY <1>4, <2>1, <3>1, <3>2
    <2>3. QED
      BY <2>2 DEF Trashed
  <1>10. QED
    BY <1>0, <1>2, <1>6, <1>7, <1>8, <1>9 DEF Sound

-----------------------------------------------------------------------------
(***************************************************************************)
(* Removal of the i-th element of list q.                                  *)
(***************************************************************************)
Removed(a, i, t) ==
  /\ t \in Seq(Elem) /\ Len(t) + 1 = Len(a)
  /\ \A j \in 1 .. Len(t) : t[j] = IF j < i THEN a[j] ELSE a[j + 1]

RemoveEffect(k, h, g, s, q, i) ==
  /\ g \in Heap
  /\ g.link[Cel(s, q, i - 1)] = h.link[Cel(s, q, i)]
  /\ k \in L!SingleLinked => g.link[Cel(s, q, i)] = NULL
  /\ \A c \in Cell \ {Cel(s, q, i - 1), Cel(s, q, i)} : g.link[c] = h.link[c]
  /\ k \in L!HasPrev /\ i < Len(s[q]) => g.back[Cel(s, q, i + 1)] = Cel(s, q, i - 1)
  /\ k \in L!HasLast =>
       g.back[q] = IF i = Len(s[q]) THEN Cel(s, q, i - 1) ELSE Cel(s, q, Len(s[q]))
  /\ \A c \in Cell \ {Cel(s, q, i), q} :
       (i < Len(s[q]) => c # Cel(s, q, i + 1)) => g.back[c] = h.back[c]

RemovedFrom(s, q, i, z) ==
  /\ Contents(z)
  /\ Len(z[q]) = Len(s[q]) - 1
  /\ \A r \in Queue \ {q} : z[r] = s[r]
  /\ \A j \in 0 .. i - 1 : Cel(z, q, j) = Cel(s, q, j)
  /\ \A j \in i .. Len(s[q]) - 1 : Cel(z, q, j) = Cel(s, q, j + 1)
  /\ \A y \in Elem : Absent(z, y) => Absent(s, y) \/ y = s[q][i]

\* What the lists hold after the removal.
LEMMA RemoveContents ==
  ASSUME NEW s, Contents(s), NEW q \in Queue, NEW i \in 1 .. Len(s[q]),
         NEW t, Removed(s[q], i, t), NEW z, z = [s EXCEPT ![q] = t]
  PROVE  RemovedFrom(s, q, i, z)
  <1> DEFINE n == Len(s[q])
  <1>1. n \in Nat /\ i \in 1 .. n /\ s[q] \in Seq(Elem)
    BY CellFacts
  <1>2. /\ z \in [Queue -> Seq(Elem)] /\ z[q] = t
        /\ \A r \in Queue \ {q} : z[r] = s[r]
    BY DEF Contents, Removed
  <1>3. Len(z[q]) = n - 1
    <2>1. t \in Seq(Elem) /\ Len(t) + 1 = n
      BY DEF Removed
    <2>2. Len(t) \in Nat
      BY <2>1
    <2>3. QED
      BY <1>1, <1>2, <2>1, <2>2
  <1>4. \A j \in 1 .. n - 1 : z[q][j] = IF j < i THEN s[q][j] ELSE s[q][j + 1]
    BY <1>2, <1>3 DEF Removed
  <1> HIDE DEF n
  <1>5. /\ \A j \in 1 .. i - 1 : j \in 1 .. n - 1 /\ j < i /\ j # 0
        /\ \A j \in i .. n - 1 : j \in 1 .. n - 1 /\ ~(j < i) /\ j # 0 /\ j + 1 # 0
        /\ \A j \in 0 .. i - 1 : j = 0 \/ j \in 1 .. i - 1
    BY <1>1
  <1>6. /\ \A j \in 0 .. i - 1 : Cel(z, q, j) = Cel(s, q, j)
        /\ \A j \in i .. n - 1 : Cel(z, q, j) = Cel(s, q, j + 1)
    BY <1>4, <1>5 DEF Cel
  <1>7. ASSUME NEW j \in 1 .. n - 1
        PROVE  \E m \in 1 .. n : z[q][j] = s[q][m] /\ m = IF j < i THEN j ELSE j + 1
    <2>1. j \in 1 .. n /\ j + 1 \in 1 .. n
      BY <1>1
    <2>2. QED
      BY <1>4, <2>1
  <1>8. ASSUME NEW r \in Queue, NEW p \in Queue, NEW j \in 1 .. Len(z[r]), NEW m \in 1 .. Len(z[p]),
               z[r][j] = z[p][m]
        PROVE  r = p /\ j = m
    <2>1. CASE r # q /\ p # q
      BY <1>2, <1>8, <2>1 DEF Contents
    <2>2. CASE r = q /\ p # q
      <3>1. m \in 1 .. Len(s[p]) /\ z[p][m] = s[p][m]
        BY <1>2, <2>2
      <3>2. PICK l \in 1 .. n : z[q][j] = s[q][l]
        BY <1>3, <1>7, <2>2
      <3>3. QED
        BY <1>8, <2>2, <3>1, <3>2 DEF Contents, n
    <2>3. CASE r # q /\ p = q
      <3>1. j \in 1 .. Len(s[r]) /\ z[r][j] = s[r][j]
        BY <1>2, <2>3
      <3>2. PICK l \in 1 .. n : z[q][m] = s[q][l]
        BY <1>3, <1>7, <2>3
      <3>3. QED
        BY <1>8, <2>3, <3>1, <3>2 DEF Contents, n
    <2>4. CASE r = q /\ p = q
      <3>1. j \in 1 .. n - 1 /\ m \in 1 .. n - 1
        BY <1>3, <2>4
      <3>2. PICK a \in 1 .. n : z[q][j] = s[q][a] /\ a = IF j < i THEN j ELSE j + 1
        BY <1>7, <3>1
      <3>3. PICK b \in 1 .. n : z[q][m] = s[q][b] /\ b = IF m < i THEN m ELSE m + 1
        BY <1>7, <3>1
      <3>4. a = b
        BY <1>8, <2>4, <3>2, <3>3 DEF Contents, n
      <3>5. QED
        BY <1>1, <2>4, <3>1, <3>2, <3>3, <3>4
    <2>5. QED
      BY <2>1, <2>2, <2>3, <2>4
  <1>9. ASSUME NEW y \in Elem, Absent(z, y), y # s[q][i]
        PROVE  Absent(s, y)
    <2>1. ASSUME NEW r \in Queue, NEW j \in 1 .. Len(s[r]), s[r][j] = y
          PROVE  FALSE
      <3>1. CASE r # q
        BY <1>2, <1>9, <2>1, <3>1 DEF Absent
      <3>2. CASE r = q
        <4>1. j \in 1 .. n /\ j # i
          BY <1>9, <2>1, <3>2 DEF n
        <4>2. CASE j < i
          <5>1. j \in 1 .. n - 1 /\ z[q][j] = s[q][j]
            BY <1>1, <1>4, <4>1, <4>2
          <5>2. QED
            BY <1>3, <1>9, <2>1, <3>2, <5>1 DEF Absent
        <4>3. CASE ~(j < i)
          <5>1. j - 1 \in 1 .. n - 1 /\ ~(j - 1 < i) /\ (j - 1) + 1 = j
            BY <1>1, <4>1, <4>3
          <5>2. z[q][j - 1] = s[q][j]
            BY <1>4, <5>1
          <5>3. QED
            BY <1>3, <1>9, <2>1, <3>2, <5>1, <5>2 DEF Absent
        <4>4. QED
          BY <4>2, <4>3
      <3>3. QED
        BY <3>1, <3>2
    <2>2. QED
      BY <2>1 DEF Absent
  <1>10. Contents(z)
    BY <1>2, <1>8 DEF Contents
  <1>11. QED
    BY <1>2, <1>3, <1>6, <1>9, <1>10 DEF n, RemovedFrom

\* A removal with that effect keeps the lists sound.
LEMMA RemoveKeeps ==
  ASSUME NEW k, NEW h, NEW s, Sound(k, h, s), NEW q \in Queue, NEW i \in 1 .. Len(s[q]),
         NEW t, Removed(s[q], i, t), NEW g, RemoveEffect(k, h, g, s, q, i),
         NEW z, z = [s EXCEPT ![q] = t]
  PROVE  Sound(k, g, z)
  <1>0. Contents(s) /\ h \in Heap /\ g \in Heap /\ k \in L!Kind
    BY DEF Sound, RemoveEffect
  <1>a. RemovedFrom(s, q, i, z)
    BY <1>0, RemoveContents
  <1> DEFINE n == Len(s[q])
             w == Cel(s, q, i - 1)
             x == Cel(s, q, i)
  <1>1. n \in Nat /\ i \in 1 .. n /\ i \in 0 .. n /\ i - 1 \in 0 .. n
    BY <1>0, CellFacts
  <1>2. /\ Contents(z)
        /\ Len(z[q]) = n - 1
        /\ \A r \in Queue \ {q} : z[r] = s[r]
        /\ \A j \in 0 .. i - 1 : Cel(z, q, j) = Cel(s, q, j)
        /\ \A j \in i .. n - 1 : Cel(z, q, j) = Cel(s, q, j + 1)
        /\ \A y \in Elem : Absent(z, y) => Absent(s, y) \/ y = s[q][i]
    BY <1>a DEF RemovedFrom
  <1>3. /\ \A r \in Queue : \A j \in 0 .. Len(s[r]) : Cel(s, r, j) \in Cell
        /\ \A r, p \in Queue : \A j \in 0 .. Len(s[r]), m \in 0 .. Len(s[p]) :
             Cel(s, r, j) = Cel(s, p, m) => r = p /\ j = m
        /\ \A r \in Queue : Cel(s, r, 0) = r /\ Len(s[r]) \in Nat
        /\ Cel(s, q, i) = s[q][i]
    BY <1>0, CellFacts
  <1>4. /\ g.link[w] = h.link[x]
        /\ \A c \in Cell : c # w /\ c # x => g.link[c] = h.link[c]
        /\ k \in L!SingleLinked => g.link[x] = NULL
    BY DEF RemoveEffect
  <1>5. \A r \in Queue : \A j \in 0 .. Len(s[r]) :
          h.link[Cel(s, r, j)] = IF j < Len(s[r]) THEN Cel(s, r, j + 1) ELSE EndOf(k, r)
    BY DEF Sound, Forward
  <1> HIDE DEF n, w, x
  <1>6. Forward(k, g, z)
    <2>1. ASSUME NEW r \in Queue \ {q}, NEW j \in 0 .. Len(z[r])
          PROVE  g.link[Cel(z, r, j)] = IF j < Len(z[r]) THEN Cel(z, r, j + 1) ELSE EndOf(k, r)
      <3>1. j \in 0 .. Len(s[r]) /\ Cel(s, r, j) # w /\ Cel(s, r, j) # x /\ Cel(s, r, j) \in Cell
        BY <1>1, <1>2, <1>3 DEF w, x, n
      <3>2. /\ Cel(z, r, j) = Cel(s, r, j) /\ Cel(z, r, j + 1) = Cel(s, r, j + 1)
            /\ Len(z[r]) = Len(s[r])
        BY <1>2 DEF Cel
      <3>3. QED
        BY <1>4, <1>5, <3>1, <3>2
    <2>2. ASSUME NEW j \in 0 .. n - 1
          PROVE  g.link[Cel(z, q, j)] = IF j < n - 1 THEN Cel(z, q, j + 1) ELSE EndOf(k, q)
      <3>1. CASE j < i - 1
        <4>1. /\ j \in 0 .. i - 1 /\ j \in 0 .. n /\ j < n /\ j < n - 1 /\ j + 1 \in 0 .. i - 1
              /\ j # i /\ j # i - 1
          BY <1>1, <3>1
        <4>2. Cel(s, q, j) # w /\ Cel(s, q, j) # x /\ Cel(s, q, j) \in Cell
          BY <1>1, <1>3, <4>1 DEF w, x, n
        <4>3. QED
          BY <1>2, <1>4, <1>5, <4>1, <4>2 DEF n
      <3>2. CASE j = i - 1
        <4>1. j \in 0 .. i - 1 /\ j + 1 = i
          BY <1>1, <3>2
        <4>2. CASE i < n
          <5>1. j < n - 1 /\ i \in i .. n - 1
            BY <1>1, <3>2, <4>2
          <5>2. h.link[x] = Cel(s, q, i + 1)
            BY <1>1, <1>5, <4>2 DEF x, n
          <5>3. QED
            BY <1>2, <1>4, <3>2, <4>1, <5>1, <5>2 DEF w
        <4>3. CASE ~(i < n)
          <5>1. ~(j < n - 1)
            BY <1>1, <3>2, <4>3
          <5>2. h.link[x] = EndOf(k, q)
            BY <1>1, <1>5, <4>3 DEF x, n
          <5>3. QED
            BY <1>2, <1>4, <3>2, <4>1, <5>1, <5>2 DEF w
        <4>4. QED
          BY <4>2, <4>3
      <3>3. CASE j > i - 1
        <4>1. /\ j \in i .. n - 1 /\ j + 1 \in 0 .. n /\ j + 1 # i /\ j + 1 # i - 1
              /\ (j < n - 1 <=> j + 1 < n)
              /\ j < n - 1 => j + 1 \in i .. n - 1
          BY <1>1, <3>3
        <4>2. Cel(s, q, j + 1) # w /\ Cel(s, q, j + 1) # x /\ Cel(s, q, j + 1) \in Cell
          BY <1>1, <1>3, <4>1 DEF w, x, n
        <4>3. h.link[Cel(s, q, j + 1)] = IF j < n - 1 THEN Cel(s, q, (j + 1) + 1) ELSE EndOf(k, q)
          BY <1>5, <4>1 DEF n
        <4>4. j < n - 1 => Cel(z, q, j + 1) = Cel(s, q, (j + 1) + 1)
          BY <1>2, <4>1
        <4>5. QED
          BY <1>2, <1>4, <4>1, <4>2, <4>3, <4>4
      <3>4. j < i - 1 \/ j = i - 1 \/ j > i - 1
        BY <1>1
      <3>5. QED
        BY <3>1, <3>2, <3>3, <3>4
    <2>3. ASSUME NEW r \in Queue, NEW j \in 0 .. Len(z[r])
          PROVE  g.link[Cel(z, r, j)] = IF j < Len(z[r]) THEN Cel(z, r, j + 1) ELSE EndOf(k, r)
      <3>1. CASE r = q
        BY <1>2, <2>2, <3>1
      <3>2. CASE r # q
        BY <2>1, <3>2
      <3>3. QED
        BY <3>1, <3>2
    <2>4. QED
      BY <2>3 DEF Forward
  <1>7. Backward(k, g, z)
    <2> SUFFICES ASSUME k \in L!HasPrev
                 PROVE  Backward(k, g, z)
      BY DEF Backward
    <2>1. /\ i < n => g.back[Cel(s, q, i + 1)] = w
          /\ \A c \in Cell : c # x /\ c # q /\ (i < n => c # Cel(s, q, i + 1)) => g.back[c] = h.back[c]
      BY DEF RemoveEffect, w, x, n
    <2>2. \A r \in Queue : \A j \in 1 .. Len(s[r]) : h.back[Cel(s, r, j)] = Cel(s, r, j - 1)
      BY DEF Sound, Backward
    <2>3. ASSUME NEW r \in Queue \ {q}, NEW j \in 1 .. Len(z[r])
          PROVE  g.back[Cel(z, r, j)] = Cel(z, r, j - 1)
      <3>1. j \in 1 .. Len(s[r]) /\ j \in 0 .. Len(s[r]) /\ j # 0
        BY <1>2, <1>3
      <3>2. i < n => i + 1 \in 0 .. n
        BY <1>1
      <3>3. /\ Cel(s, r, j) # x /\ Cel(s, r, j) # q /\ Cel(s, r, j) \in Cell
            /\ i < n => Cel(s, r, j) # Cel(s, q, i + 1)
        BY <1>1, <1>3, <3>1, <3>2 DEF n, x
      <3>4. Cel(z, r, j) = Cel(s, r, j) /\ Cel(z, r, j - 1) = Cel(s, r, j - 1)
        BY <1>2 DEF Cel
      <3>5. QED
        BY <2>1, <2>2, <3>1, <3>3, <3>4
    <2>4. ASSUME NEW j \in 1 .. n - 1
          PROVE  g.back[Cel(z, q, j)] = Cel(z, q, j - 1)
      <3>1. CASE j < i
        <4>1. /\ j \in 0 .. i - 1 /\ j - 1 \in 0 .. i - 1 /\ j \in 1 .. n /\ j \in 0 .. n /\ j # 0
              /\ 0 \in 0 .. n /\ j # i /\ (i < n => i + 1 \in 0 .. n /\ j # i + 1)
          BY <1>1, <3>1
        <4>2. /\ Cel(s, q, j) # x /\ Cel(s, q, j) # q /\ Cel(s, q, j) \in Cell
              /\ i < n => Cel(s, q, j) # Cel(s, q, i + 1)
          BY <1>1, <1>3, <4>1 DEF n, x
        <4>3. QED
          BY <1>2, <2>1, <2>2, <4>1, <4>2 DEF n
      <3>2. CASE j = i
        <4>1. i < n /\ j \in i .. n - 1 /\ i - 1 \in 0 .. i - 1
          BY <1>1, <3>2
        <4>2. QED
          BY <1>2, <2>1, <3>2, <4>1 DEF w
      <3>3. CASE j > i
        <4>1. /\ j \in i .. n - 1 /\ j - 1 \in i .. n - 1 /\ j + 1 \in 1 .. n /\ j + 1 \in 0 .. n
              /\ j + 1 # 0 /\ 0 \in 0 .. n /\ j + 1 # i /\ (i < n => i + 1 \in 0 .. n /\ j + 1 # i + 1)
              /\ (j - 1) + 1 = j /\ (j + 1) - 1 = j
          BY <1>1, <3>3
        <4>2. /\ Cel(s, q, j + 1) # x /\ Cel(s, q, j + 1) # q /\ Cel(s, q, j + 1) \in Cell
              /\ i < n => Cel(s, q, j + 1) # Cel(s, q, i + 1)
          BY <1>1, <1>3, <4>1 DEF n, x
        <4>3. Cel(z, q, j) = Cel(s, q, j + 1) /\ Cel(z, q, j - 1) = Cel(s, q, j)
          BY <1>2, <4>1
        <4>4. h.back[Cel(s, q, j + 1)] = Cel(s, q, j)
          BY <2>2, <4>1 DEF n
        <4>5. QED
          BY <2>1, <4>1, <4>2, <4>3, <4>4
      <3>4. j < i \/ j = i \/ j > i
        BY <1>1
      <3>5. QED
        BY <3>1, <3>2, <3>3, <3>4
    <2>5. QED
      BY <1>2, <2>3, <2>4 DEF Backward
  <1>8. Lasts(k, g, z)
    <2> SUFFICES ASSUME k \in L!HasLast
                 PROVE  Lasts(k, g, z)
      BY DEF Lasts
    <2>1. /\ g.back[q] = IF i = n THEN w ELSE Cel(s, q, n)
          /\ \A c \in Cell : c # x /\ c # q /\ (i < n => c # Cel(s, q, i + 1)) => g.back[c] = h.back[c]
      BY DEF RemoveEffect, n, w, x
    <2>2. \A r \in Queue : h.back[r] = Cel(s, r, Len(s[r]))
      BY DEF Sound, Lasts
    <2>3. ASSUME NEW r \in Queue \ {q}
          PROVE  g.back[r] = Cel(z, r, Len(z[r]))
      <3>1. 0 \in 0 .. Len(s[r]) /\ i # 0 /\ (i < n => i + 1 \in 0 .. n /\ i + 1 # 0)
        BY <1>1, <1>3
      <3>2. r \in Cell /\ r # x /\ (i < n => r # Cel(s, q, i + 1))
        BY <1>1, <1>3, <3>1 DEF n, x
      <3>3. QED
        BY <1>2, <2>1, <2>2, <3>2 DEF Cel
    <2>4. g.back[q] = Cel(z, q, n - 1)
      <3>1. /\ i # n => n - 1 \in i .. n - 1 /\ (n - 1) + 1 = n
            /\ i = n => n - 1 \in 0 .. i - 1
        BY <1>1
      <3>2. QED
        BY <1>2, <2>1, <3>1 DEF w
    <2>5. QED
      BY <1>2, <2>3, <2>4 DEF Lasts
  <1>9. Trashed(k, g, z)
    <2> SUFFICES ASSUME k \in L!SingleLinked
                 PROVE  Trashed(k, g, z)
      BY DEF Trashed
    <2>1. \A y \in Elem : Absent(s, y) => h.link[y] = NULL
      BY DEF Sound, Trashed
    <2>2. ASSUME NEW y \in Elem, Absent(z, y)
          PROVE  g.link[y] = NULL
      <3>1. CASE y = s[q][i]
        BY <1>3, <1>4, <3>1 DEF x
      <3>2. CASE Absent(s, y)
        <4>1. y # x /\ y # w /\ y \in Cell
          BY <1>0, <1>1, <3>2, CellFacts DEF x, w, n, Cell
        <4>2. QED
          BY <1>4, <2>1, <3>2, <4>1
      <3>3. QED
        BY <1>2, <2>2, <3>1, <3>2
    <2>3. QED
      BY <2>2 DEF Trashed
  <1>10. QED
    BY <1>0, <1>2, <1>6, <1>7, <1>8, <1>9 DEF Sound

-----------------------------------------------------------------------------
(***************************************************************************)
(* The sequences that the macros are meant to leave.                       *)
(***************************************************************************)
\* A part of a sequence.
LEMMA Part ==
  ASSUME NEW a \in Seq(Elem), NEW m \in Int, NEW n \in Int, 1 <= m, n <= Len(a), m <= n + 1
  PROVE  /\ SubSeq(a, m, n) \in Seq(Elem)
         /\ Len(SubSeq(a, m, n)) = n - m + 1
         /\ \A j \in 1 .. n - m + 1 : SubSeq(a, m, n)[j] = a[m + j - 1]
  OBVIOUS

\* Two sequences, one after the other.
LEMMA Joined ==
  ASSUME NEW a \in Seq(Elem), NEW b \in Seq(Elem)
  PROVE  /\ a \o b \in Seq(Elem)
         /\ Len(a \o b) = Len(a) + Len(b)
         /\ \A j \in 1 .. Len(a) + Len(b) :
              (a \o b)[j] = IF j <= Len(a) THEN a[j] ELSE b[j - Len(a)]
  OBVIOUS

LEMMA InsertAtInserts ==
  ASSUME NEW a \in Seq(Elem), NEW e \in Elem, NEW i \in 1 .. Len(a) + 1
  PROVE  Inserted(a, i - 1, e, L!X!InsertAt(a, i, e))
  <1> DEFINE n == Len(a)
             u == SubSeq(a, 1, i - 1)
             v == SubSeq(a, i, n)
             t == (u \o <<e>>) \o v
  <1>1. n \in Nat /\ i \in 1 .. n + 1
    OBVIOUS
  <1>2. /\ u \in Seq(Elem) /\ Len(u) = i - 1 /\ \A j \in 1 .. i - 1 : u[j] = a[j]
    BY <1>1, Part
  <1>3. v \in Seq(Elem) /\ Len(v) = n - i + 1 /\ \A j \in 1 .. n - i + 1 : v[j] = a[i + j - 1]
    BY <1>1, Part
  <1>4. /\ <<e>> \in Seq(Elem) /\ Len(<<e>>) = 1 /\ <<e>>[1] = e
    OBVIOUS
  <1> DEFINE w == u \o <<e>>
  <1> HIDE DEF u, v
  <1>5. w \in Seq(Elem) /\ Len(w) = i /\ \A j \in 1 .. i : w[j] = IF j <= i - 1 THEN a[j] ELSE e
    <2>1. Len(w) = (i - 1) + 1 /\ w \in Seq(Elem)
      BY <1>2, <1>4, Joined
    <2>2. ASSUME NEW j \in 1 .. i
          PROVE  w[j] = IF j <= i - 1 THEN a[j] ELSE e
      <3>1. w[j] = IF j <= Len(u) THEN u[j] ELSE <<e>>[j - Len(u)]
        BY <1>1, <1>2, <1>4, Joined
      <3>2. j <= i - 1 \/ j - (i - 1) = 1
        BY <1>1
      <3>3. QED
        BY <1>1, <1>2, <1>4, <3>1, <3>2
    <2>3. QED
      BY <1>1, <2>1, <2>2
  <1> HIDE DEF w
  <1>6. t = w \o v
    BY DEF w
  <1> HIDE DEF t
  <1>7. t \in Seq(Elem) /\ Len(t) = n + 1
    <2>1. t \in Seq(Elem) /\ Len(t) = Len(w) + Len(v)
      BY <1>3, <1>5, <1>6, Joined
    <2>2. QED
      BY <1>1, <1>3, <1>5, <2>1
  <1>8. ASSUME NEW j \in 1 .. n + 1
        PROVE  t[j] = IF j <= i - 1 THEN a[j] ELSE IF j = (i - 1) + 1 THEN e ELSE a[j - 1]
    <2>1. t[j] = IF j <= i THEN w[j] ELSE v[j - i]
      BY <1>1, <1>3, <1>5, <1>6, Joined
    <2>2. CASE j <= i
      BY <1>1, <1>5, <2>1, <2>2
    <2>3. CASE ~(j <= i)
      <3>1. j - i \in 1 .. n - i + 1 /\ i + (j - i) - 1 = j - 1
        BY <1>1, <2>3
      <3>2. QED
        BY <1>1, <1>3, <2>1, <2>3, <3>1
    <2>4. QED
      BY <2>2, <2>3
  <1>9. L!X!InsertAt(a, i, e) = t
    BY DEF L!X!InsertAt, t, u, v
  <1>10. QED
    BY <1>7, <1>8, <1>9 DEF Inserted

LEMMA HeadInserts ==
  ASSUME NEW a \in Seq(Elem), NEW e \in Elem
  PROVE  Inserted(a, 0, e, <<e>> \o a)
  <1>1. <<e>> \in Seq(Elem) /\ Len(<<e>>) = 1 /\ <<e>>[1] = e /\ Len(a) \in Nat
    OBVIOUS
  <1>2. /\ <<e>> \o a \in Seq(Elem) /\ Len(<<e>> \o a) = 1 + Len(a)
        /\ \A j \in 1 .. 1 + Len(a) : (<<e>> \o a)[j] = IF j <= 1 THEN <<e>>[j] ELSE a[j - 1]
    BY <1>1, Joined
  <1>3. \A j \in 1 .. Len(a) + 1 : ~(j <= 0) /\ (j <= 1 <=> j = 0 + 1) /\ (j <= 1 => j = 1) /\ j \in 1 .. 1 + Len(a)
    BY <1>1
  <1> DEFINE t == <<e>> \o a
  <1> HIDE DEF t
  <1>4. t \in Seq(Elem) /\ Len(t) = Len(a) + 1
    BY <1>1, <1>2 DEF t
  <1>5. \A j \in 1 .. Len(a) + 1 : t[j] = IF j <= 0 THEN a[j] ELSE IF j = 0 + 1 THEN e ELSE a[j - 1]
    BY <1>1, <1>2, <1>3 DEF t
  <1>6. QED
    BY <1>4, <1>5 DEF Inserted, t

LEMMA TailInserts ==
  ASSUME NEW a \in Seq(Elem), NEW e \in Elem
  PROVE  Inserted(a, Len(a), e, Append(a, e))
  <1> DEFINE t == Append(a, e)
  <1>1. /\ t \in Seq(Elem) /\ Len(t) = Len(a) + 1 /\ t[Len(a) + 1] = e /\ Len(a) \in Nat
        /\ \A j \in 1 .. Len(a) : t[j] = a[j]
    OBVIOUS
  <1> HIDE DEF t
  <1>2. \A j \in 1 .. Len(a) + 1 : IF j <= Len(a) THEN j \in 1 .. Len(a) ELSE j = Len(a) + 1
    BY <1>1
  <1>3. \A j \in 1 .. Len(a) + 1 :
          t[j] = IF j <= Len(a) THEN a[j] ELSE IF j = Len(a) + 1 THEN e ELSE a[j - 1]
    BY <1>1, <1>2
  <1>4. QED
    BY <1>1, <1>3 DEF Inserted, t

LEMMA RemoveAtRemoves ==
  ASSUME NEW a \in Seq(Elem), NEW i \in 1 .. Len(a)
  PROVE  Removed(a, i, L!X!RemoveAt(a, i))
  <1> DEFINE n == Len(a)
             u == SubSeq(a, 1, i - 1)
             v == SubSeq(a, i + 1, n)
             t == u \o v
  <1>1. n \in Nat /\ i \in 1 .. n
    OBVIOUS
  <1>2. /\ u \in Seq(Elem) /\ Len(u) = i - 1 /\ \A j \in 1 .. i - 1 : u[j] = a[j]
    BY <1>1, Part
  <1>3. v \in Seq(Elem) /\ Len(v) = n - i /\ \A j \in 1 .. n - i : v[j] = a[i + j]
    <2>1. /\ v \in Seq(Elem) /\ Len(v) = n - (i + 1) + 1
          /\ \A j \in 1 .. n - (i + 1) + 1 : v[j] = a[(i + 1) + j - 1]
      BY <1>1, Part
    <2> HIDE DEF v
    <2>2. n - (i + 1) + 1 = n - i /\ \A j \in 1 .. n - i : (i + 1) + j - 1 = i + j
      BY <1>1
    <2>3. QED
      BY <2>1, <2>2
  <1> HIDE DEF u, v
  <1>4. t \in Seq(Elem) /\ Len(t) + 1 = n
    <2>1. t \in Seq(Elem) /\ Len(t) = Len(u) + Len(v)
      BY <1>2, <1>3, Joined
    <2> HIDE DEF t
    <2>2. QED
      BY <1>1, <1>2, <1>3, <2>1
  <1>5. ASSUME NEW j \in 1 .. n - 1
        PROVE  t[j] = IF j < i THEN a[j] ELSE a[j + 1]
    <2>1. t[j] = IF j <= i - 1 THEN u[j] ELSE v[j - (i - 1)]
      BY <1>1, <1>2, <1>3, Joined
    <2>2. CASE j < i
      BY <1>1, <1>2, <2>1, <2>2
    <2>3. CASE ~(j < i)
      <3>1. j - (i - 1) \in 1 .. n - i /\ i + (j - (i - 1)) = j + 1 /\ ~(j <= i - 1)
        BY <1>1, <2>3
      <3>2. QED
        BY <1>1, <1>3, <2>1, <2>3, <3>1
    <2>4. QED
      BY <2>2, <2>3
  <1>6. L!X!RemoveAt(a, i) = t
    BY DEF L!X!RemoveAt, u, v
  <1>7. Len(t) \in Nat
    BY <1>4
  <1> HIDE DEF t
  <1>8. Len(t) = n - 1
    BY <1>1, <1>4, <1>7
  <1>9. QED
    BY <1>4, <1>5, <1>6, <1>8 DEF Removed

-----------------------------------------------------------------------------
(***************************************************************************)
(* The macros have these effects.                                          *)
(***************************************************************************)
LEMMA Kinds ==
  ASSUME NEW k \in L!Kind
  PROVE  /\ k \in {"SLIST", "STAILQ", "LIST", "TAILQ", "CIRCLEQ"}
         /\ k \in L!HasPrev <=> k \in {"LIST", "TAILQ", "CIRCLEQ"}
         /\ k \in L!HasLast <=> k \in {"STAILQ", "TAILQ", "CIRCLEQ"}
         /\ k \in L!SingleLinked <=> k \in {"SLIST", "STAILQ"}
  BY DEF L!Kind, L!HasPrev, L!HasLast, L!SingleLinked

\* A new heap from two new fields.
LEMMA HeapFields ==
  ASSUME NEW l \in [Cell -> Cell \cup {NULL}], NEW b \in [Cell -> Cell \cup {NULL}],
         NEW g, g = [link |-> l, back |-> b]
  PROVE  g \in Heap /\ g.link = l /\ g.back = b
  BY DEF Heap

\* What surrounds the gap after the i-th cell of a list.
Gap(k, h, s, q, i, x, y, n) ==
  /\ n = Len(s[q]) /\ n \in Nat /\ i \in 0 .. n /\ q \in Cell /\ q # NULL
  /\ h.link \in [Cell -> Cell \cup {NULL}] /\ h.back \in [Cell -> Cell \cup {NULL}]
  /\ x = Cel(s, q, i) /\ y = Cel(s, q, i + 1)
  /\ x \in Cell /\ x # NULL /\ (x = q <=> i = 0)
  /\ i < n => h.link[x] = y /\ y \in Cell /\ y # NULL /\ y # x /\ y # q
  /\ ~(i < n) => i = n /\ h.link[x] = EndOf(k, q)
  /\ k \in L!HasPrev /\ i < n => h.back[y] = x
  /\ k \in L!HasLast => h.back[q] = Cel(s, q, n)

LEMMA GapFacts ==
  ASSUME NEW k, NEW h, NEW s, Sound(k, h, s), NEW q \in Queue, NEW i \in 0 .. Len(s[q]),
         NEW n, n = Len(s[q]), NEW x, x = Cel(s, q, i), NEW y, y = Cel(s, q, i + 1)
  PROVE  Gap(k, h, s, q, i, x, y, n)
  <1>1. Contents(s) /\ h \in Heap
    BY DEF Sound
  <1>2. /\ n \in Nat /\ i \in 0 .. n /\ 0 \in 0 .. n
        /\ (i < n => i + 1 \in 0 .. n /\ i + 1 \in 1 .. n /\ i + 1 # i /\ i + 1 # 0 /\ (i + 1) - 1 = i)
        /\ (~(i < n) => i = n)
    <2>1. n \in Nat
      BY <1>1, CellFacts
    <2>2. QED
      BY <2>1
  <1>3. /\ \A j \in 0 .. n : Cel(s, q, j) \in Cell
        /\ \A j, m \in 0 .. n : Cel(s, q, j) = Cel(s, q, m) => j = m
        /\ Cel(s, q, 0) = q
    BY <1>1, CellFacts
  <1>4. h.link \in [Cell -> Cell \cup {NULL}] /\ h.back \in [Cell -> Cell \cup {NULL}]
    BY <1>1 DEF Heap
  <1>5. \A c \in Cell : c # NULL
    OBVIOUS
  <1>6. x \in Cell /\ (x = q <=> i = 0) /\ (i < n => y \in Cell /\ y # x /\ y # q)
    BY <1>2, <1>3
  <1>7. h.link[x] = IF i < n THEN y ELSE EndOf(k, q)
    BY DEF Sound, Forward
  <1>8. k \in L!HasPrev /\ i < n => h.back[y] = x
    BY <1>2 DEF Sound, Backward
  <1>9. k \in L!HasLast => h.back[q] = Cel(s, q, n)
    BY DEF Sound, Lasts
  <1>10. QED
    BY <1>2, <1>4, <1>5, <1>6, <1>7, <1>8, <1>9 DEF Gap, Cell

\* The form in which the effect of an insertion is shown.
InsertStores(k, h, g, q, i, e, x, y, n) ==
  /\ g \in Heap /\ e # x
  /\ g.link = [[h.link EXCEPT ![e] = h.link[x]] EXCEPT ![x] = e]
  /\ k \in L!HasPrev => g.back[e] = x /\ (i < n => g.back[y] = e)
  /\ k \in L!HasLast => g.back[q] = IF i = n THEN e ELSE h.back[q]
  /\ \A c \in Cell : c # e /\ c # q /\ (i < n => c # y) => g.back[c] = h.back[c]

LEMMA InsertShown ==
  ASSUME NEW k, NEW h, NEW g, NEW s, NEW q \in Queue, NEW i, NEW e \in Elem, NEW x, NEW y, NEW n,
         Gap(k, h, s, q, i, x, y, n), InsertStores(k, h, g, q, i, e, x, y, n)
  PROVE  InsertEffect(k, h, g, s, q, i, e)
  <1>1. e \in Cell /\ x \in Cell /\ h.link \in [Cell -> Cell \cup {NULL}]
    BY DEF Gap, Cell
  <1>2. /\ g.link[x] = e /\ g.link[e] = h.link[x]
        /\ \A c \in Cell : c # x /\ c # e => g.link[c] = h.link[c]
    BY <1>1 DEF InsertStores
  <1>3. x = Cel(s, q, i) /\ y = Cel(s, q, i + 1) /\ n = Len(s[q])
    BY DEF Gap
  <1>4. k \in L!HasLast => h.back[q] = Cel(s, q, n)
    BY DEF Gap
  <1>5. QED
    BY <1>2, <1>3, <1>4 DEF InsertEffect, InsertStores

\* What the macros read and store around the gap for a new element e.
LEMMA Around ==
  ASSUME NEW k, NEW h, NEW s, Sound(k, h, s), NEW q \in Queue, NEW i \in 0 .. Len(s[q]),
         NEW e \in Elem, Absent(s, e), NEW x, NEW y, NEW n, Gap(k, h, s, q, i, x, y, n)
  PROVE  /\ n \in Nat /\ i \in 0 .. n /\ q \in Cell /\ q # NULL /\ e \in Cell
         /\ h.link \in [Cell -> Cell \cup {NULL}] /\ h.back \in [Cell -> Cell \cup {NULL}]
         /\ x \in Cell /\ x # NULL
         /\ i < n => h.link[x] = y /\ y \in Cell /\ y # NULL /\ y # x /\ y # q
         /\ ~(i < n) => i = n /\ h.link[x] = EndOf(k, q)
         /\ e # x /\ e # q /\ (i < n => e # y)
         /\ k \in L!Kind /\ k \in {"SLIST", "STAILQ", "LIST", "TAILQ", "CIRCLEQ"}
  <1>1. /\ n \in Nat /\ i \in 0 .. n /\ q \in Cell /\ q # NULL /\ e \in Cell
        /\ h.link \in [Cell -> Cell \cup {NULL}] /\ h.back \in [Cell -> Cell \cup {NULL}]
        /\ x \in Cell /\ x # NULL
        /\ i < n => h.link[x] = y /\ y \in Cell /\ y # NULL /\ y # x /\ y # q
        /\ ~(i < n) => i = n /\ h.link[x] = EndOf(k, q)
    BY DEF Gap, Cell
  <1>2. e # x /\ e # q /\ (i < n => e # y)
    <2>1. i < n => i + 1 \in 0 .. n
      BY <1>1
    <2>2. Contents(s)
      BY DEF Sound
    <2>3. \A j \in 0 .. Len(s[q]) : Cel(s, q, j) # e
      BY <2>2, CellFacts
    <2>4. n = Len(s[q]) /\ x = Cel(s, q, i) /\ y = Cel(s, q, i + 1)
      BY DEF Gap
    <2>5. QED
      BY <2>1, <2>3, <2>4
  <1>3. k \in L!Kind /\ k \in {"SLIST", "STAILQ", "LIST", "TAILQ", "CIRCLEQ"}
    BY Kinds DEF Sound
  <1>4. QED
    BY <1>1, <1>2, <1>3

LEMMA InsertAfterEffect ==
  ASSUME Sound(kind, heap, seqs), NEW q \in Queue, NEW i \in 0 .. Len(seqs[q]), NEW e \in Elem,
         Absent(seqs, e), NEW x, x = Cel(seqs, q, i)
  PROVE  InsertEffect(kind, heap, L!INSERT_AFTER(q, x, e), seqs, q, i, e)
  <1> DEFINE g == L!INSERT_AFTER(q, x, e)
  <1>1. PICK n : n = Len(seqs[q])
    OBVIOUS
  <1>2. PICK y : y = Cel(seqs, q, i + 1)
    OBVIOUS
  <1>3. Gap(kind, heap, seqs, q, i, x, y, n)
    BY <1>1, <1>2, GapFacts
  <1>4. /\ n \in Nat /\ i \in 0 .. n /\ q \in Cell /\ q # NULL /\ e \in Cell
        /\ heap.link \in [Cell -> Cell \cup {NULL}] /\ heap.back \in [Cell -> Cell \cup {NULL}]
        /\ x \in Cell /\ x # NULL
        /\ i < n => heap.link[x] = y /\ y \in Cell /\ y # NULL /\ y # x /\ y # q
        /\ ~(i < n) => i = n /\ heap.link[x] = EndOf(kind, q)
    BY <1>3, Around
  <1>5. e # x /\ e # q /\ (i < n => e # y)
    BY <1>3, Around
  <1>6. kind \in L!Kind /\ kind \in {"SLIST", "STAILQ", "LIST", "TAILQ", "CIRCLEQ"}
    BY <1>3, Around
  <1> DEFINE l == [[heap.link EXCEPT ![e] = heap.link[x]] EXCEPT ![x] = e]
  <1>7. l \in [Cell -> Cell \cup {NULL}] /\ heap.link[x] \in Cell \cup {NULL}
    BY <1>4
  <1> SUFFICES InsertEffect(kind, heap, g, seqs, q, i, e)
    OBVIOUS
  <1>8. CASE kind = "SLIST"
    <2>1. g = [link |-> l, back |-> heap.back]
      BY <1>8 DEF L!INSERT_AFTER, L!SLIST_INSERT_AFTER
    <2>2. g \in Heap /\ g.link = l /\ g.back = heap.back
      BY <1>4, <1>7, <2>1, HeapFields
    <2> HIDE DEF g, l
    <2>3. kind \notin L!HasPrev /\ kind \notin L!HasLast
      BY <1>8 DEF L!HasPrev, L!HasLast
    <2>4. InsertStores(kind, heap, g, q, i, e, x, y, n)
      BY <1>5, <2>2, <2>3 DEF InsertStores, l
    <2>5. QED
      BY <1>3, <2>4, InsertShown
  <1>9. CASE kind = "STAILQ"
    <2> DEFINE b == IF heap.link[x] = NULL THEN [heap.back EXCEPT ![q] = e] ELSE heap.back
    <2>1. g = [link |-> l, back |-> b]
      BY <1>9 DEF L!INSERT_AFTER, L!STAILQ_INSERT_AFTER, L!SLIST_INSERT_AFTER
    <2>2. b \in [Cell -> Cell \cup {NULL}]
      BY <1>4
    <2>3. g \in Heap /\ g.link = l /\ g.back = b
      BY <1>7, <2>1, <2>2, HeapFields
    <2>4. heap.link[x] = NULL <=> i = n
      BY <1>4, <1>9 DEF EndOf
    <2>5. b[q] = IF i = n THEN e ELSE heap.back[q]
      BY <1>4, <2>4
    <2>6. \A c \in Cell : c # q => b[c] = heap.back[c]
      BY <1>4
    <2>7. kind \notin L!HasPrev
      BY <1>9 DEF L!HasPrev
    <2> HIDE DEF g, b, l
    <2>8. InsertStores(kind, heap, g, q, i, e, x, y, n)
      BY <1>5, <2>3, <2>5, <2>6, <2>7 DEF InsertStores, l
    <2>9. QED
      BY <1>3, <2>8, InsertShown
  <1>10. CASE kind = "LIST"
    <2> DEFINE a == IF heap.link[x] = NULL THEN heap.back ELSE [heap.back EXCEPT ![heap.link[x]] = e]
               b == [a EXCEPT ![e] = x]
    <2>1. g = [link |-> l, back |-> b]
      BY <1>10 DEF L!INSERT_AFTER, L!LIST_INSERT_AFTER, L!SLIST_INSERT_AFTER, L!SetPrev
    <2>2. a \in [Cell -> Cell \cup {NULL}] /\ b \in [Cell -> Cell \cup {NULL}]
      BY <1>4
    <2>3. g \in Heap /\ g.link = l /\ g.back = b
      BY <1>7, <2>1, <2>2, HeapFields
    <2>4. IF i < n THEN heap.link[x] = y /\ heap.link[x] # NULL ELSE heap.link[x] = NULL
      BY <1>4, <1>10 DEF EndOf
    <2>5. b[e] = x /\ (i < n => b[y] = e)
      BY <1>4, <1>5, <2>4
    <2>6. \A c \in Cell : c # e /\ (i < n => c # y) => b[c] = heap.back[c]
      BY <1>4, <2>4
    <2>7. kind \notin L!HasLast
      BY <1>10 DEF L!HasLast
    <2> HIDE DEF g, b, l
    <2>8. InsertStores(kind, heap, g, q, i, e, x, y, n)
      BY <1>5, <2>3, <2>5, <2>6, <2>7 DEF InsertStores, l
    <2>9. QED
      BY <1>3, <2>8, InsertShown
  <1>11. CASE kind = "TAILQ"
    <2> DEFINE c0 == IF heap.link[x] = NULL THEN q ELSE heap.link[x]
               b == [[heap.back EXCEPT ![c0] = e] EXCEPT ![e] = x]
    <2>1. g = [link |-> l, back |-> b]
      BY <1>11 DEF L!INSERT_AFTER, L!TAILQ_INSERT_AFTER, L!SLIST_INSERT_AFTER
    <2>2. b \in [Cell -> Cell \cup {NULL}]
      BY <1>4
    <2>3. g \in Heap /\ g.link = l /\ g.back = b
      BY <1>7, <2>1, <2>2, HeapFields
    <2>4. c0 = IF i < n THEN y ELSE q
      BY <1>4, <1>11 DEF EndOf
    <2>5. c0 \in Cell
      BY <1>4, <2>4
    <2> HIDE DEF c0
    <2>6. b[e] = x /\ (i < n => b[y] = e) /\ b[q] = IF i = n THEN e ELSE heap.back[q]
      BY <1>4, <1>5, <2>4, <2>5
    <2>7. \A c \in Cell : c # e /\ c # q /\ (i < n => c # y) => b[c] = heap.back[c]
      BY <1>4, <2>4
    <2> HIDE DEF g, b, l
    <2>8. InsertStores(kind, heap, g, q, i, e, x, y, n)
      BY <1>5, <2>3, <2>6, <2>7 DEF InsertStores, l
    <2>9. QED
      BY <1>3, <2>8, InsertShown
  <1>12. CASE kind = "CIRCLEQ"
    <2> DEFINE b == [[heap.back EXCEPT ![e] = x] EXCEPT ![heap.link[x]] = e]
    <2>1. g = [link |-> l, back |-> b]
      BY <1>12 DEF L!INSERT_AFTER, L!CIRCLEQ_INSERT_AFTER
    <2>2. heap.link[x] = IF i < n THEN y ELSE q
      BY <1>4, <1>12 DEF EndOf
    <2>3. b \in [Cell -> Cell \cup {NULL}]
      BY <1>4
    <2>4. g \in Heap /\ g.link = l /\ g.back = b
      BY <1>7, <2>1, <2>3, HeapFields
    <2>5. b[e] = x /\ (i < n => b[y] = e) /\ b[q] = IF i = n THEN e ELSE heap.back[q]
      BY <1>4, <1>5, <2>2
    <2>6. \A c \in Cell : c # e /\ c # q /\ (i < n => c # y) => b[c] = heap.back[c]
      BY <1>4, <2>2
    <2> HIDE DEF g, b, l
    <2>7. InsertStores(kind, heap, g, q, i, e, x, y, n)
      BY <1>5, <2>4, <2>5, <2>6 DEF InsertStores, l
    <2>8. QED
      BY <1>3, <2>7, InsertShown
  <1>13. QED
    BY <1>6, <1>8, <1>9, <1>10, <1>11, <1>12

LEMMA InsertHeadEffect ==
  ASSUME Sound(kind, heap, seqs), NEW q \in Queue, NEW e \in Elem, Absent(seqs, e)
  PROVE  InsertEffect(kind, heap, L!INSERT_HEAD(q, e), seqs, q, 0, e)
  <1> DEFINE g == L!INSERT_HEAD(q, e)
  <1>1. PICK n : n = Len(seqs[q])
    OBVIOUS
  <1>2. PICK y : y = Cel(seqs, q, 1)
    OBVIOUS
  <1>3. 0 \in 0 .. Len(seqs[q]) /\ Cel(seqs, q, 0) = q
    BY CellFacts DEF Sound
  <1>4. Gap(kind, heap, seqs, q, 0, q, y, n)
    BY <1>1, <1>2, <1>3, GapFacts
  <1>5. /\ n \in Nat /\ q \in Cell /\ q # NULL /\ e \in Cell
        /\ heap.link \in [Cell -> Cell \cup {NULL}] /\ heap.back \in [Cell -> Cell \cup {NULL}]
        /\ 0 < n => heap.link[q] = y /\ y \in Cell /\ y # NULL /\ y # q
        /\ ~(0 < n) => 0 = n /\ heap.link[q] = EndOf(kind, q)
        /\ e # q /\ (0 < n => e # y)
    BY <1>3, <1>4, Around
  <1>6. kind \in L!Kind /\ kind \in {"SLIST", "STAILQ", "LIST", "TAILQ", "CIRCLEQ"}
    BY <1>3, <1>4, Around
  <1> DEFINE l == [[heap.link EXCEPT ![e] = heap.link[q]] EXCEPT ![q] = e]
  <1>7. l \in [Cell -> Cell \cup {NULL}]
    BY <1>5
  <1> SUFFICES InsertEffect(kind, heap, g, seqs, q, 0, e)
    OBVIOUS
  <1>8. CASE kind \notin {"TAILQ", "CIRCLEQ"}
    <2>1. g = L!INSERT_AFTER(q, q, e)
      BY <1>8 DEF L!INSERT_HEAD
    <2>2. QED
      BY <1>3, <2>1, InsertAfterEffect
  <1>9. CASE kind = "TAILQ"
    <2> DEFINE c0 == IF heap.link[q] = NULL THEN q ELSE heap.link[q]
               b == [[heap.back EXCEPT ![c0] = e] EXCEPT ![e] = q]
    <2>1. g = [link |-> l, back |-> b]
      BY <1>9 DEF L!INSERT_HEAD, L!TAILQ_INSERT_HEAD
    <2>2. b \in [Cell -> Cell \cup {NULL}]
      BY <1>5
    <2>3. g \in Heap /\ g.link = l /\ g.back = b
      BY <1>7, <2>1, <2>2, HeapFields
    <2>4. c0 = IF 0 < n THEN y ELSE q
      BY <1>5, <1>9 DEF EndOf
    <2>5. c0 \in Cell
      BY <1>5, <2>4
    <2> HIDE DEF c0
    <2>6. b[e] = q /\ (0 < n => b[y] = e) /\ b[q] = IF 0 = n THEN e ELSE heap.back[q]
      BY <1>5, <2>4, <2>5
    <2>7. \A c \in Cell : c # e /\ c # q /\ (0 < n => c # y) => b[c] = heap.back[c]
      BY <1>5, <2>4
    <2> HIDE DEF g, b, l
    <2>8. InsertStores(kind, heap, g, q, 0, e, q, y, n)
      BY <1>5, <2>3, <2>6, <2>7 DEF InsertStores, l
    <2>9. QED
      BY <1>4, <2>8, InsertShown
  <1>10. CASE kind = "CIRCLEQ"
    <2> DEFINE c0 == IF heap.back[q] = q THEN q ELSE heap.link[q]
               b == [[heap.back EXCEPT ![e] = q] EXCEPT ![c0] = e]
    <2>1. g = [link |-> l, back |-> b]
      BY <1>10 DEF L!INSERT_HEAD, L!CIRCLEQ_INSERT_HEAD
    <2>2. b \in [Cell -> Cell \cup {NULL}]
      BY <1>5
    <2>3. g \in Heap /\ g.link = l /\ g.back = b
      BY <1>7, <2>1, <2>2, HeapFields
    <2>4. c0 = IF 0 < n THEN y ELSE q
      <3>1. heap.back[q] = Cel(seqs, q, n)
        BY <1>4, <1>10 DEF Gap, L!HasLast
      <3>2. Cel(seqs, q, n) = q <=> n = 0
        <4>1. n \in 0 .. n /\ Contents(seqs)
          BY <1>5 DEF Sound
        <4>2. QED
          BY <1>1, <1>3, <4>1, CellFacts
      <3>3. QED
        BY <1>5, <1>10, <3>1, <3>2 DEF EndOf
    <2>5. c0 \in Cell
      BY <1>5, <2>4
    <2> HIDE DEF c0
    <2>6. b[e] = q /\ (0 < n => b[y] = e) /\ b[q] = IF 0 = n THEN e ELSE heap.back[q]
      BY <1>5, <2>4, <2>5
    <2>7. \A c \in Cell : c # e /\ c # q /\ (0 < n => c # y) => b[c] = heap.back[c]
      BY <1>5, <2>4
    <2> HIDE DEF g, b, l
    <2>8. InsertStores(kind, heap, g, q, 0, e, q, y, n)
      BY <1>5, <2>3, <2>6, <2>7 DEF InsertStores, l
    <2>9. QED
      BY <1>4, <2>8, InsertShown
  <1>11. QED
    BY <1>8, <1>9, <1>10

LEMMA InsertTailEffect ==
  ASSUME Sound(kind, heap, seqs), NEW q \in Queue, NEW e \in Elem, Absent(seqs, e),
         kind \in L!HasLast
  PROVE  InsertEffect(kind, heap, L!INSERT_TAIL(q, e), seqs, q, Len(seqs[q]), e)
  <1> DEFINE g == L!INSERT_TAIL(q, e)
  <1>1. PICK n : n = Len(seqs[q])
    OBVIOUS
  <1>2. PICK x, y : x = Cel(seqs, q, n) /\ y = Cel(seqs, q, n + 1)
    OBVIOUS
  <1>3. Len(seqs[q]) \in 0 .. Len(seqs[q])
    BY CellFacts DEF Sound
  <1>4. Gap(kind, heap, seqs, q, n, x, y, n)
    BY <1>1, <1>2, <1>3, GapFacts
  <1>5. /\ n \in Nat /\ q \in Cell /\ q # NULL /\ e \in Cell /\ x \in Cell /\ x # NULL
        /\ heap.link \in [Cell -> Cell \cup {NULL}] /\ heap.back \in [Cell -> Cell \cup {NULL}]
        /\ heap.link[x] = EndOf(kind, q)
        /\ e # x /\ e # q /\ ~(n < n)
    <2>1. /\ n \in Nat /\ q \in Cell /\ q # NULL /\ e \in Cell /\ x \in Cell /\ x # NULL
          /\ heap.link \in [Cell -> Cell \cup {NULL}] /\ heap.back \in [Cell -> Cell \cup {NULL}]
          /\ ~(n < n) => heap.link[x] = EndOf(kind, q)
          /\ e # x /\ e # q
      BY <1>1, <1>3, <1>4, Around
    <2>2. QED
      BY <2>1
  <1>6. kind \in {"STAILQ", "TAILQ", "CIRCLEQ"} /\ heap.back[q] = x
    BY <1>2, <1>4 DEF L!HasLast, Gap
  <1> DEFINE l == [[heap.link EXCEPT ![e] = heap.link[x]] EXCEPT ![x] = e]
  <1>7. l \in [Cell -> Cell \cup {NULL}]
    BY <1>5
  <1> SUFFICES InsertEffect(kind, heap, g, seqs, q, n, e)
    BY <1>1
  <1>8. CASE kind = "STAILQ"
    <2> DEFINE b == [heap.back EXCEPT ![q] = e]
    <2>1. heap.link[x] = NULL
      BY <1>5, <1>8 DEF EndOf
    <2>2. g = [link |-> l, back |-> b]
      BY <1>6, <1>8, <2>1 DEF L!INSERT_TAIL, L!STAILQ_INSERT_TAIL
    <2>3. b \in [Cell -> Cell \cup {NULL}]
      BY <1>5
    <2>4. g \in Heap /\ g.link = l /\ g.back = b
      BY <1>7, <2>2, <2>3, HeapFields
    <2>5. b[q] = e /\ \A c \in Cell : c # q => b[c] = heap.back[c]
      BY <1>5
    <2>6. kind \notin L!HasPrev
      BY <1>8 DEF L!HasPrev
    <2> HIDE DEF g, b, l
    <2>7. InsertStores(kind, heap, g, q, n, e, x, y, n)
      BY <1>5, <2>4, <2>5, <2>6 DEF InsertStores, l
    <2>8. QED
      BY <1>4, <2>7, InsertShown
  <1>9. CASE kind \in {"TAILQ", "CIRCLEQ"}
    <2> DEFINE b == [[heap.back EXCEPT ![e] = heap.back[q]] EXCEPT ![q] = e]
    <2>2. g = [link |-> l, back |-> b]
      <3>1. CASE kind = "TAILQ"
        <4>1. heap.link[x] = NULL
          BY <1>5, <3>1 DEF EndOf
        <4>2. QED
          BY <1>6, <3>1, <4>1 DEF L!INSERT_TAIL, L!TAILQ_INSERT_TAIL
      <3>2. CASE kind = "CIRCLEQ"
        <4>1. heap.link[x] = q
          BY <1>5, <3>2 DEF EndOf
        <4>2. (IF heap.link[q] = q THEN q ELSE heap.back[q]) = x
          <5>1. heap.link[q] = IF 0 < n THEN Cel(seqs, q, 1) ELSE q
            <6>1. 0 \in 0 .. Len(seqs[q]) /\ Cel(seqs, q, 0) = q
              BY CellFacts DEF Sound
            <6>2. QED
              BY <1>1, <3>2, <6>1 DEF Sound, Forward, EndOf
          <5>2. 0 < n => Cel(seqs, q, 1) # q
            <6>1. 0 < n => 0 \in 0 .. n /\ 1 \in 0 .. n
              BY <1>5
            <6>2. QED
              BY <1>1, <6>1, CellFacts DEF Sound
          <5>3. n = 0 => x = q
            BY <1>2, CellFacts DEF Sound
          <5>4. QED
            BY <1>5, <1>6, <5>1, <5>2, <5>3
        <4>3. QED
          BY <3>2, <4>1, <4>2 DEF L!INSERT_TAIL, L!CIRCLEQ_INSERT_TAIL
      <3>3. QED
        BY <1>9, <3>1, <3>2
    <2>3. b \in [Cell -> Cell \cup {NULL}]
      BY <1>5
    <2>4. g \in Heap /\ g.link = l /\ g.back = b
      BY <1>7, <2>2, <2>3, HeapFields
    <2>5. b[q] = e /\ b[e] = x /\ \A c \in Cell : c # q /\ c # e => b[c] = heap.back[c]
      BY <1>5, <1>6
    <2> HIDE DEF g, b, l
    <2>6. InsertStores(kind, heap, g, q, n, e, x, y, n)
      BY <1>5, <2>4, <2>5 DEF InsertStores, l
    <2>7. QED
      BY <1>4, <2>6, InsertShown
  <1>10. QED
    BY <1>6, <1>8, <1>9

LEMMA InsertBeforeEffect ==
  ASSUME Sound(kind, heap, seqs), NEW q \in Queue, NEW i \in 0 .. Len(seqs[q]), i < Len(seqs[q]),
         NEW e \in Elem, Absent(seqs, e), kind \in L!HasPrev,
         NEW y, y = Cel(seqs, q, i + 1)
  PROVE  InsertEffect(kind, heap, L!INSERT_BEFORE(q, y, e), seqs, q, i, e)
  <1> DEFINE g == L!INSERT_BEFORE(q, y, e)
  <1>1. PICK n : n = Len(seqs[q])
    OBVIOUS
  <1>2. PICK x : x = Cel(seqs, q, i)
    OBVIOUS
  <1>3. Gap(kind, heap, seqs, q, i, x, y, n)
    BY <1>1, <1>2, GapFacts
  <1>4. /\ n \in Nat /\ i \in 0 .. n /\ q \in Cell /\ q # NULL /\ e \in Cell
        /\ heap.link \in [Cell -> Cell \cup {NULL}] /\ heap.back \in [Cell -> Cell \cup {NULL}]
        /\ x \in Cell /\ x # NULL
        /\ heap.link[x] = y /\ y \in Cell /\ y # NULL /\ y # x /\ y # q
        /\ e # x /\ e # q /\ e # y
    BY <1>1, <1>3, Around
  <1>5. kind \in {"LIST", "TAILQ", "CIRCLEQ"} /\ heap.back[y] = x /\ i < n /\ i # n
    <2>1. kind \in {"LIST", "TAILQ", "CIRCLEQ"} /\ heap.back[y] = x /\ i < n
      BY <1>1, <1>3 DEF L!HasPrev, Gap
    <2>2. QED
      BY <1>4, <2>1
  <1> DEFINE l == [[heap.link EXCEPT ![e] = heap.link[x]] EXCEPT ![x] = e]
             b == [[heap.back EXCEPT ![e] = heap.back[y]] EXCEPT ![y] = e]
  <1>6. l \in [Cell -> Cell \cup {NULL}] /\ b \in [Cell -> Cell \cup {NULL}]
    BY <1>4
  <1>7. g = [link |-> l, back |-> b]
    BY <1>4, <1>5 DEF L!INSERT_BEFORE, L!LIST_INSERT_BEFORE, L!TAILQ_INSERT_BEFORE, L!CIRCLEQ_INSERT_BEFORE
  <1>8. g \in Heap /\ g.link = l /\ g.back = b
    BY <1>6, <1>7, HeapFields
  <1>9. b[e] = x /\ b[y] = e /\ \A c \in Cell : c # e /\ c # y => b[c] = heap.back[c]
    BY <1>4, <1>5
  <1> HIDE DEF g, b, l
  <1>10. InsertStores(kind, heap, g, q, i, e, x, y, n)
    BY <1>4, <1>5, <1>8, <1>9 DEF InsertStores, l
  <1>11. InsertEffect(kind, heap, g, seqs, q, i, e)
    BY <1>3, <1>10, InsertShown
  <1>12. QED
    BY <1>11 DEF g

\* A set of numbers has a least one.
LEMMA LeastElement ==
  ASSUME NEW T, T \subseteq Nat, T # {}
  PROVE  \E x \in T : \A y \in T : x <= y
  <1> DEFINE less == OpToRel(<, Nat)
  <1>1. IsWellFoundedOn(less, Nat)
    BY NatLessThanWellFounded
  <1>2. PICK x \in T : \A y \in T : ~(<<y, x>> \in less)
    <2> HIDE DEF less
    <2> QED BY <1>1, WFMin
  <1>3. \A y \in T : x <= y
    <2> TAKE y \in T
    <2>1. ~(y < x)
      BY <1>2 DEF OpToRel
    <2>2. QED
      BY <2>1
  <1>4. QED
    BY <1>3

\* The walk of SLIST_REMOVE and STAILQ_REMOVE stops at the cell before the
\* element that is removed.
LEMMA WalkStops ==
  ASSUME NEW k, NEW h, NEW s, Sound(k, h, s), k \in L!SingleLinked,
         NEW q \in Queue, NEW i \in 1 .. Len(s[q])
  PROVE  L!CellBefore(h, q, Cel(s, q, i)) = Cel(s, q, i - 1)
  <1> DEFINE e == Cel(s, q, i)
             v == Cel(s, q, i - 1)
             Dom == Cell \cup {NULL}
             Body(f) == [x \in Dom |-> IF x = NULL \/ h.link[x] = e THEN x ELSE f[h.link[x]]]
             before(x) == \E j \in 0 .. i - 1 : x = Cel(s, q, j)
             w == [x \in Dom |-> IF before(x) THEN v ELSE NULL]
             F == CHOOSE f : f = Body(f)
  <1>1. /\ Contents(s) /\ Len(s[q]) \in Nat /\ h \in Heap
        /\ k # "CIRCLEQ"
    BY CellFacts DEF Sound, L!SingleLinked
  <1>2. i \in 1 .. Len(s[q]) /\ i \in Nat /\ i - 1 \in Nat /\ i \in 0 .. Len(s[q]) /\ 0 .. i - 1 \subseteq 0 .. Len(s[q])
    BY <1>1
  <1>3. /\ \A r \in Queue : \A j \in 0 .. Len(s[r]) : Cel(s, r, j) \in Cell
        /\ \A r, p \in Queue : \A j \in 0 .. Len(s[r]), m \in 0 .. Len(s[p]) :
             Cel(s, r, j) = Cel(s, p, m) => r = p /\ j = m
        /\ \A r \in Queue : Cel(s, r, 0) = r /\ Len(s[r]) \in Nat
    BY <1>1, CellFacts
  <1>4. \A r \in Queue : \A j \in 0 .. Len(s[r]) :
          h.link[Cel(s, r, j)] = IF j < Len(s[r]) THEN Cel(s, r, j + 1) ELSE NULL
    BY <1>1 DEF Sound, Forward, EndOf
  <1>5. \A c \in Cell : c # NULL
    OBVIOUS
  <1>6. ASSUME NEW x \in Dom
        PROVE  w[x] = IF x = NULL \/ h.link[x] = e THEN x ELSE w[h.link[x]]
    <2>1. w[NULL] = NULL
      BY <1>2, <1>3, <1>5
    <2>2. CASE x = NULL
      BY <2>1, <2>2
    <2>3. ASSUME NEW j \in 0 .. i - 1, x = Cel(s, q, j)
          PROVE  w[x] = IF x = NULL \/ h.link[x] = e THEN x ELSE w[h.link[x]]
      <3>1. w[x] = v
        BY <2>3
      <3>2. j \in 0 .. Len(s[q]) /\ j < Len(s[q])
        BY <1>1, <1>2
      <3>3. h.link[x] = Cel(s, q, j + 1) /\ x # NULL
        BY <1>3, <1>4, <1>5, <2>3, <3>2
      <3>4. CASE j = i - 1
        <4>1. j + 1 = i
          BY <1>2, <3>4
        <4>2. QED
          BY <2>3, <3>1, <3>3, <3>4, <4>1
      <3>5. CASE j # i - 1
        <4>1. j + 1 \in 0 .. i - 1 /\ j + 1 \in 0 .. Len(s[q]) /\ j + 1 # i
          BY <1>1, <1>2, <3>5
        <4>2. h.link[x] # e
          BY <1>2, <1>3, <3>3, <4>1
        <4>3. Cel(s, q, j + 1) \in Dom
          BY <1>3, <4>1
        <4>4. w[h.link[x]] = v
          BY <3>3, <4>1, <4>3
        <4>5. QED
          BY <3>1, <3>3, <4>2, <4>4
      <3>6. QED
        BY <3>4, <3>5
    <2>4. ASSUME NEW r \in Queue, NEW j \in 0 .. Len(s[r]), x = Cel(s, r, j), ~before(x)
          PROVE  w[x] = IF x = NULL \/ h.link[x] = e THEN x ELSE w[h.link[x]]
      <3>1. w[x] = NULL /\ x # NULL
        BY <1>3, <1>5, <2>4
      <3>2. CASE ~(j < Len(s[r]))
        <4>1. h.link[x] = NULL
          BY <1>4, <2>4, <3>2
        <4>2. e # NULL
          BY <1>2, <1>3, <1>5
        <4>3. QED
          BY <2>1, <3>1, <4>1, <4>2
      <3>3. CASE j < Len(s[r])
        <4>1. h.link[x] = Cel(s, r, j + 1) /\ j + 1 \in 0 .. Len(s[r])
          BY <1>3, <1>4, <2>4, <3>3
        <4>2. r = q => ~(j \in 0 .. i - 1)
          BY <2>4
        <4>3. r = q => j + 1 # i /\ ~(j + 1 \in 0 .. i - 1)
          BY <1>2, <1>3, <4>2
        <4>4. h.link[x] # e
          BY <1>2, <1>3, <4>1, <4>3
        <4>5. ~before(h.link[x])
          <5>1. ASSUME NEW m \in 0 .. i - 1, Cel(s, r, j + 1) = Cel(s, q, m)
                PROVE  FALSE
            <6>1. m \in 0 .. Len(s[q])
              BY <1>2
            <6>2. r = q /\ j + 1 = m
              BY <1>3, <4>1, <5>1, <6>1
            <6>3. QED
              BY <4>3, <6>2
          <5>2. QED
            BY <4>1, <5>1
        <4>6. h.link[x] \in Dom
          BY <1>3, <4>1
        <4>7. w[h.link[x]] = NULL
          BY <4>5, <4>6
        <4>8. QED
          BY <3>1, <4>4, <4>7
      <3>4. QED
        BY <3>2, <3>3
    <2>5. CASE x \in Elem /\ Absent(s, x)
      <3>1. h.link[x] = NULL
        BY <2>5 DEF Sound, Trashed
      <3>2. ~before(x)
        BY <1>1, <1>2, <2>5, CellFacts
      <3>3. w[x] = NULL /\ e # NULL /\ x # NULL
        BY <1>2, <1>3, <1>5, <2>5, <3>2 DEF Cell
      <3>4. QED
        BY <2>1, <3>1, <3>3
    <2>6. CASE x \in Elem /\ ~Absent(s, x)
      <3>0. PICK r \in Queue : \E j \in 1 .. Len(s[r]) : s[r][j] = x
        BY <2>6 DEF Absent
      <3>1. PICK j \in 1 .. Len(s[r]) : s[r][j] = x
        BY <3>0
      <3>2. j \in 0 .. Len(s[r]) /\ x = Cel(s, r, j)
        BY <1>1, <1>3, <3>1, CellFacts
      <3>3. QED
        BY <2>3, <2>4, <3>2
    <2>7. CASE x \in Queue
      <3>1. 0 \in 0 .. Len(s[x]) /\ x = Cel(s, x, 0)
        BY <1>3, <2>7
      <3>2. QED
        BY <2>3, <2>4, <2>7, <3>1
    <2>8. QED
      BY <2>2, <2>5, <2>6, <2>7 DEF Cell
  <1>7. w = Body(w)
    BY <1>6
  <1>8. F = Body(F)
    <2> HIDE DEF w, Body
    <2> QED BY <1>7
  <1>9. \A x \in Dom : F[x] = IF x = NULL \/ h.link[x] = e THEN x ELSE F[h.link[x]]
    <2> HIDE DEF F
    <2> QED BY <1>8
  <1>10. L!CellBefore(h, q, e) = F[q]
    BY DEF L!CellBefore, L!Cell, Cell
  <1> HIDE DEF F, w, Body, before
  <1>11. ASSUME NEW m \in Nat, m <= i - 1, F[Cel(s, q, (i - 1) - m)] # v,
                \A l \in Nat : l < m => F[Cel(s, q, (i - 1) - l)] = v
         PROVE  FALSE
    <2>1. /\ (i - 1) - m \in 0 .. i - 1 /\ (i - 1) - m \in 0 .. Len(s[q]) /\ (i - 1) - m < Len(s[q])
      BY <1>1, <1>2, <1>11
    <2>2. Cel(s, q, (i - 1) - m) \in Dom /\ Cel(s, q, (i - 1) - m) # NULL
      BY <1>3, <1>5, <2>1
    <2>3. h.link[Cel(s, q, (i - 1) - m)] = Cel(s, q, ((i - 1) - m) + 1)
      BY <1>4, <2>1
    <2>4. CASE m = 0
      <3>1. (i - 1) - m = i - 1 /\ ((i - 1) - m) + 1 = i
        BY <1>2, <2>4
      <3>2. QED
        BY <1>9, <1>11, <2>2, <2>3, <3>1
    <2>5. CASE m # 0
      <3>1. m - 1 \in Nat /\ m - 1 < m /\ ((i - 1) - m) + 1 = (i - 1) - (m - 1) /\ (i - 1) - (m - 1) # i
            /\ (i - 1) - (m - 1) \in 0 .. Len(s[q])
        BY <1>1, <1>2, <1>11, <2>5
      <3>2. F[Cel(s, q, (i - 1) - (m - 1))] = v
        BY <1>11, <3>1
      <3>3. Cel(s, q, (i - 1) - (m - 1)) # e
        BY <1>2, <1>3, <3>1
      <3>4. QED
        BY <1>9, <1>11, <2>2, <2>3, <3>1, <3>2, <3>3
    <2>6. QED
      BY <2>4, <2>5
  <1>12. F[q] = v
    <2> DEFINE T == {m \in Nat : m <= i - 1 /\ F[Cel(s, q, (i - 1) - m)] # v}
    <2>1. SUFFICES ASSUME F[q] # v
                   PROVE  FALSE
      OBVIOUS
    <2>2. i - 1 \in T
      <3>1. (i - 1) - (i - 1) = 0 /\ i - 1 <= i - 1
        BY <1>2
      <3>2. QED
        BY <1>2, <1>3, <2>1, <3>1
    <2>3. PICK m \in T : \A l \in T : m <= l
      BY <2>2, LeastElement
    <2>4. m \in Nat /\ m <= i - 1 /\ F[Cel(s, q, (i - 1) - m)] # v
      BY <2>3
    <2>5. ASSUME NEW l \in Nat, l < m
          PROVE  F[Cel(s, q, (i - 1) - l)] = v
      <3>1. l <= i - 1 /\ ~(m <= l)
        BY <1>2, <2>4, <2>5
      <3>2. QED
        BY <2>3, <3>1
    <2>6. QED
      BY <1>11, <2>4, <2>5
  <1>13. QED
    BY <1>10, <1>12

\* What surrounds the i-th element of a list.
Spot(k, h, s, q, i, w, x, y, n) ==
  /\ n = Len(s[q]) /\ n \in Nat /\ i \in 1 .. n /\ q \in Cell /\ q # NULL
  /\ h.link \in [Cell -> Cell \cup {NULL}] /\ h.back \in [Cell -> Cell \cup {NULL}]
  /\ w = Cel(s, q, i - 1) /\ x = Cel(s, q, i) /\ y = Cel(s, q, i + 1)
  /\ w \in Cell /\ w # NULL /\ x \in Cell /\ x # NULL /\ x # w /\ x # q
  /\ h.link[w] = x
  /\ i < n => h.link[x] = y /\ y \in Cell /\ y # NULL /\ y # x /\ y # w /\ y # q
  /\ ~(i < n) => i = n /\ h.link[x] = EndOf(k, q)
  /\ k \in L!HasPrev => h.back[x] = w
  /\ k \in L!HasLast => h.back[q] = Cel(s, q, n)

LEMMA SpotFacts ==
  ASSUME NEW k, NEW h, NEW s, Sound(k, h, s), NEW q \in Queue, NEW i \in 1 .. Len(s[q]),
         NEW n, n = Len(s[q]), NEW w, w = Cel(s, q, i - 1), NEW x, x = Cel(s, q, i),
         NEW y, y = Cel(s, q, i + 1)
  PROVE  Spot(k, h, s, q, i, w, x, y, n)
  <1>1. Contents(s) /\ h \in Heap
    BY DEF Sound
  <1>2. n \in Nat
    BY <1>1, CellFacts
  <1>3. /\ i \in 1 .. n /\ 0 \in 0 .. n /\ i \in 0 .. n /\ i - 1 \in 0 .. n
        /\ i # i - 1 /\ i # 0 /\ i - 1 < n /\ (i - 1) + 1 = i
        /\ (i < n => i + 1 \in 0 .. n /\ i + 1 # i /\ i + 1 # i - 1 /\ i + 1 # 0)
        /\ (~(i < n) => i = n)
    BY <1>2
  <1>4. /\ \A j \in 0 .. n : Cel(s, q, j) \in Cell
        /\ \A j, m \in 0 .. n : Cel(s, q, j) = Cel(s, q, m) => j = m
        /\ Cel(s, q, 0) = q
    BY <1>1, CellFacts
  <1>5. h.link \in [Cell -> Cell \cup {NULL}] /\ h.back \in [Cell -> Cell \cup {NULL}]
    BY <1>1 DEF Heap
  <1>6. \A c \in Cell : c # NULL
    OBVIOUS
  <1>7. /\ w \in Cell /\ x \in Cell /\ x # w /\ x # q
        /\ i < n => y \in Cell /\ y # x /\ y # w /\ y # q
    BY <1>3, <1>4
  <1>8. /\ h.link[w] = x
        /\ h.link[x] = IF i < n THEN y ELSE EndOf(k, q)
    <2>1. \A j \in 0 .. n : h.link[Cel(s, q, j)] = IF j < n THEN Cel(s, q, j + 1) ELSE EndOf(k, q)
      BY DEF Sound, Forward
    <2>2. QED
      BY <1>3, <2>1
  <1>9. k \in L!HasPrev => h.back[x] = w
    BY DEF Sound, Backward
  <1>10. k \in L!HasLast => h.back[q] = Cel(s, q, n)
    BY DEF Sound, Lasts
  <1>11. QED
    BY <1>2, <1>3, <1>5, <1>6, <1>7, <1>8, <1>9, <1>10 DEF Spot, Cell

\* The form in which the effect of a removal is shown.
RemoveStores(k, h, g, q, i, w, x, y, n) ==
  /\ g \in Heap
  /\ g.link[w] = h.link[x]
  /\ k \in L!SingleLinked => g.link[x] = NULL
  /\ \A c \in Cell : c # w /\ c # x => g.link[c] = h.link[c]
  /\ k \in L!HasPrev /\ i < n => g.back[y] = w
  /\ k \in L!HasLast => g.back[q] = IF i = n THEN w ELSE h.back[q]
  /\ \A c \in Cell : c # x /\ c # q /\ (i < n => c # y) => g.back[c] = h.back[c]

LEMMA RemoveShown ==
  ASSUME NEW k, NEW h, NEW g, NEW s, NEW q, NEW i, NEW w, NEW x, NEW y, NEW n,
         Spot(k, h, s, q, i, w, x, y, n), RemoveStores(k, h, g, q, i, w, x, y, n)
  PROVE  RemoveEffect(k, h, g, s, q, i)
  <1>1. /\ w = Cel(s, q, i - 1) /\ x = Cel(s, q, i) /\ y = Cel(s, q, i + 1) /\ n = Len(s[q])
        /\ k \in L!HasLast => h.back[q] = Cel(s, q, n)
    BY DEF Spot
  <1>2. QED
    BY <1>1 DEF RemoveEffect, RemoveStores

\* SLIST_REMOVE_AFTER, STAILQ_REMOVE_AFTER and the REMOVE_HEADs.
RemoveAfter(w, q) == IF kind = "SLIST" THEN L!SLIST_REMOVE_AFTER(heap, w)
                                       ELSE L!STAILQ_REMOVE_AFTER(heap, q, w)

LEMMA RemoveAfterEffect ==
  ASSUME Sound(kind, heap, seqs), kind \in L!SingleLinked,
         NEW q \in Queue, NEW i \in 1 .. Len(seqs[q]), NEW w, w = Cel(seqs, q, i - 1)
  PROVE  RemoveEffect(kind, heap, RemoveAfter(w, q), seqs, q, i)
  <1> DEFINE g == RemoveAfter(w, q)
  <1>1. PICK n : n = Len(seqs[q])
    OBVIOUS
  <1>2. PICK x, y : x = Cel(seqs, q, i) /\ y = Cel(seqs, q, i + 1)
    OBVIOUS
  <1>3. Spot(kind, heap, seqs, q, i, w, x, y, n)
    BY <1>1, <1>2, SpotFacts
  <1>4. /\ n \in Nat /\ i \in 1 .. n /\ q \in Cell /\ q # NULL
        /\ heap.link \in [Cell -> Cell \cup {NULL}] /\ heap.back \in [Cell -> Cell \cup {NULL}]
        /\ w \in Cell /\ w # NULL /\ x \in Cell /\ x # NULL /\ x # w /\ x # q
        /\ heap.link[w] = x
        /\ i < n => heap.link[x] = y /\ y # NULL
        /\ ~(i < n) => i = n /\ heap.link[x] = EndOf(kind, q)
    BY <1>3 DEF Spot
  <1>5. kind \in {"SLIST", "STAILQ"} /\ kind \notin L!HasPrev
    BY DEF L!SingleLinked, L!HasPrev
  <1>6. heap.link[x] = NULL <=> i = n
    BY <1>4, <1>5 DEF EndOf
  <1> DEFINE l == [[heap.link EXCEPT ![w] = heap.link[x]] EXCEPT ![x] = NULL]
             b == IF kind = "STAILQ" /\ heap.link[x] = NULL THEN [heap.back EXCEPT ![q] = w] ELSE heap.back
  <1>7. g = [link |-> l, back |-> b]
    BY <1>4, <1>5 DEF RemoveAfter, L!SLIST_REMOVE_AFTER, L!STAILQ_REMOVE_AFTER
  <1>8. l \in [Cell -> Cell \cup {NULL}] /\ b \in [Cell -> Cell \cup {NULL}]
    BY <1>4
  <1>9. g \in Heap /\ g.link = l /\ g.back = b
    BY <1>7, <1>8, HeapFields
  <1>10. /\ l[w] = heap.link[x] /\ l[x] = NULL
         /\ \A c \in Cell : c # w /\ c # x => l[c] = heap.link[c]
    BY <1>4
  <1>11. /\ kind = "STAILQ" => b[q] = IF i = n THEN w ELSE heap.back[q]
         /\ \A c \in Cell : c # q => b[c] = heap.back[c]
    BY <1>4, <1>6
  <1>12. kind \in L!HasLast => kind = "STAILQ"
    BY <1>5 DEF L!HasLast
  <1> HIDE DEF g, l, b
  <1>13. RemoveStores(kind, heap, g, q, i, w, x, y, n)
    BY <1>4, <1>5, <1>9, <1>10, <1>11, <1>12 DEF RemoveStores
  <1>14. RemoveEffect(kind, heap, g, seqs, q, i)
    BY <1>3, <1>13, RemoveShown
  <1>15. QED
    BY <1>14 DEF g

LEMMA RemoveEffects ==
  ASSUME Sound(kind, heap, seqs), NEW q \in Queue, NEW i \in 1 .. Len(seqs[q]),
         NEW x, x = Cel(seqs, q, i)
  PROVE  RemoveEffect(kind, heap, L!REMOVE(q, x), seqs, q, i)
  <1> DEFINE g == L!REMOVE(q, x)
  <1>1. PICK n : n = Len(seqs[q])
    OBVIOUS
  <1>2. PICK w, y : w = Cel(seqs, q, i - 1) /\ y = Cel(seqs, q, i + 1)
    OBVIOUS
  <1>3. Spot(kind, heap, seqs, q, i, w, x, y, n)
    BY <1>1, <1>2, SpotFacts
  <1>4. /\ n \in Nat /\ i \in 1 .. n /\ q \in Cell /\ q # NULL
        /\ heap.link \in [Cell -> Cell \cup {NULL}] /\ heap.back \in [Cell -> Cell \cup {NULL}]
        /\ w \in Cell /\ w # NULL /\ x \in Cell /\ x # NULL /\ x # w /\ x # q
        /\ heap.link[w] = x
        /\ i < n => heap.link[x] = y /\ y \in Cell /\ y # NULL /\ y # x /\ y # w /\ y # q
        /\ ~(i < n) => i = n /\ heap.link[x] = EndOf(kind, q)
        /\ kind \in L!HasPrev => heap.back[x] = w
    BY <1>3 DEF Spot
  <1>5. kind \in {"SLIST", "STAILQ", "LIST", "TAILQ", "CIRCLEQ"}
    BY Kinds DEF Sound
  <1> SUFFICES RemoveEffect(kind, heap, g, seqs, q, i)
    OBVIOUS
  <1>6. CASE kind \in {"SLIST", "STAILQ"}
    <2>1. kind \in L!SingleLinked
      BY <1>6 DEF L!SingleLinked
    <2>2. L!CellBefore(heap, q, x) = w
      BY <1>2, <2>1, WalkStops
    <2>3. g = RemoveAfter(w, q)
      BY <1>6, <2>2 DEF L!REMOVE, L!SLIST_REMOVE, L!STAILQ_REMOVE, RemoveAfter
    <2>4. QED
      BY <1>2, <2>1, <2>3, RemoveAfterEffect
  <1>7. CASE kind = "LIST"
    <2> DEFINE l == [[heap.link EXCEPT ![w] = heap.link[x]] EXCEPT ![x] = NULL]
               a == IF heap.link[x] = NULL THEN heap.back ELSE [heap.back EXCEPT ![heap.link[x]] = w]
               b == [a EXCEPT ![x] = NULL]
    <2>1. heap.back[x] = w
      BY <1>4, <1>7 DEF L!HasPrev
    <2>2. g = [link |-> l, back |-> b]
      BY <1>7, <2>1 DEF L!REMOVE, L!LIST_REMOVE, L!SetPrev
    <2>3. l \in [Cell -> Cell \cup {NULL}] /\ a \in [Cell -> Cell \cup {NULL}] /\ b \in [Cell -> Cell \cup {NULL}]
      BY <1>4
    <2>4. g \in Heap /\ g.link = l /\ g.back = b
      BY <2>2, <2>3, HeapFields
    <2>5. /\ l[w] = heap.link[x]
          /\ \A c \in Cell : c # w /\ c # x => l[c] = heap.link[c]
      BY <1>4
    <2>6. IF i < n THEN heap.link[x] = y /\ heap.link[x] # NULL ELSE heap.link[x] = NULL
      BY <1>4, <1>7 DEF EndOf
    <2>7. /\ i < n => b[y] = w
          /\ \A c \in Cell : c # x /\ (i < n => c # y) => b[c] = heap.back[c]
      BY <1>4, <2>6
    <2>8. kind \notin L!HasLast /\ kind \notin L!SingleLinked
      BY <1>7 DEF L!HasLast, L!SingleLinked
    <2> HIDE DEF g, l, b
    <2>9. RemoveStores(kind, heap, g, q, i, w, x, y, n)
      BY <1>4, <2>4, <2>5, <2>7, <2>8 DEF RemoveStores
    <2>10. QED
      BY <1>3, <2>9, RemoveShown
  <1>8. CASE kind = "TAILQ"
    <2> DEFINE l == [[heap.link EXCEPT ![w] = heap.link[x]] EXCEPT ![x] = NULL]
               c0 == IF heap.link[x] = NULL THEN q ELSE heap.link[x]
               b == [[heap.back EXCEPT ![c0] = w] EXCEPT ![x] = NULL]
    <2>1. heap.back[x] = w
      BY <1>4, <1>8 DEF L!HasPrev
    <2>2. g = [link |-> l, back |-> b]
      BY <1>8, <2>1 DEF L!REMOVE, L!TAILQ_REMOVE
    <2>3. l \in [Cell -> Cell \cup {NULL}] /\ b \in [Cell -> Cell \cup {NULL}]
      BY <1>4
    <2>4. g \in Heap /\ g.link = l /\ g.back = b
      BY <2>2, <2>3, HeapFields
    <2>5. /\ l[w] = heap.link[x]
          /\ \A c \in Cell : c # w /\ c # x => l[c] = heap.link[c]
      BY <1>4
    <2>6. c0 = IF i < n THEN y ELSE q
      BY <1>4, <1>8 DEF EndOf
    <2>7. c0 \in Cell
      BY <1>4, <2>6
    <2> HIDE DEF c0
    <2>8. /\ i < n => b[y] = w
          /\ b[q] = IF i = n THEN w ELSE heap.back[q]
          /\ \A c \in Cell : c # x /\ c # q /\ (i < n => c # y) => b[c] = heap.back[c]
      BY <1>4, <2>6, <2>7
    <2>9. kind \notin L!SingleLinked
      BY <1>8 DEF L!SingleLinked
    <2> HIDE DEF g, l, b
    <2>10. RemoveStores(kind, heap, g, q, i, w, x, y, n)
      BY <1>4, <2>4, <2>5, <2>8, <2>9 DEF RemoveStores
    <2>11. QED
      BY <1>3, <2>10, RemoveShown
  <1>9. CASE kind = "CIRCLEQ"
    <2> DEFINE l == [heap.link EXCEPT ![w] = heap.link[x]]
               b == [heap.back EXCEPT ![heap.link[x]] = w]
    <2>1. heap.back[x] = w
      BY <1>4, <1>9 DEF L!HasPrev
    <2>2. g = [link |-> l, back |-> b]
      BY <1>9, <2>1 DEF L!REMOVE, L!CIRCLEQ_REMOVE
    <2>3. l \in [Cell -> Cell \cup {NULL}] /\ b \in [Cell -> Cell \cup {NULL}]
      BY <1>4
    <2>4. g \in Heap /\ g.link = l /\ g.back = b
      BY <2>2, <2>3, HeapFields
    <2>5. /\ l[w] = heap.link[x]
          /\ \A c \in Cell : c # w /\ c # x => l[c] = heap.link[c]
      BY <1>4
    <2>6. heap.link[x] = IF i < n THEN y ELSE q
      BY <1>4, <1>9 DEF EndOf
    <2>7. /\ i < n => b[y] = w
          /\ b[q] = IF i = n THEN w ELSE heap.back[q]
          /\ \A c \in Cell : c # q /\ (i < n => c # y) => b[c] = heap.back[c]
      BY <1>4, <2>6
    <2>8. kind \notin L!SingleLinked
      BY <1>9 DEF L!SingleLinked
    <2> HIDE DEF g, l, b
    <2>9. RemoveStores(kind, heap, g, q, i, w, x, y, n)
      BY <1>4, <2>4, <2>5, <2>7, <2>8 DEF RemoveStores
    <2>10. QED
      BY <1>3, <2>9, RemoveShown
  <1>10. QED
    BY <1>5, <1>6, <1>7, <1>8, <1>9

-----------------------------------------------------------------------------
(***************************************************************************)
(* Two lists change their content, which STAILQ, LIST and TAILQ can do.    *)
(***************************************************************************)
\* What list q of the new lists z holds is what list r of the old ones held.
Moved(s, z, r, q) ==
  /\ Len(z[q]) = Len(s[r]) /\ Len(s[r]) \in Nat
  /\ Cel(z, q, 0) = q
  /\ \A j \in 1 .. Len(s[r]) : Cel(z, q, j) = Cel(s, r, j)

SwapEffect(k, h, g, s, q, r) ==
  /\ g.link[q] = h.link[r]
  /\ k \in L!HasPrev /\ Len(s[r]) # 0 => g.back[Cel(s, r, 1)] = q
  /\ k \in L!HasLast => g.back[q] = IF Len(s[r]) = 0 THEN q ELSE Cel(s, r, Len(s[r]))

\* The pointers of one list.
ListSound(k, h, s, q) ==
  /\ \A j \in 0 .. Len(s[q]) :
       h.link[Cel(s, q, j)] = IF j < Len(s[q]) THEN Cel(s, q, j + 1) ELSE EndOf(k, q)
  /\ k \in L!HasPrev => \A j \in 1 .. Len(s[q]) : h.back[Cel(s, q, j)] = Cel(s, q, j - 1)
  /\ k \in L!HasLast => h.back[q] = Cel(s, q, Len(s[q]))

\* Nothing else is stored into.
SwapFrame(h, g, s, q, r) ==
  /\ \A c \in Cell : c # q /\ c # r => g.link[c] = h.link[c]
  /\ \A c \in Cell : /\ c # q /\ c # r
                     /\ Len(s[q]) # 0 => c # Cel(s, q, 1)
                     /\ Len(s[r]) # 0 => c # Cel(s, r, 1)
                     => g.back[c] = h.back[c]

\* List q of z is sound when it has got the content of list r of s.
LEMMA SwapHalf ==
  ASSUME NEW k, NEW h, NEW s, Sound(k, h, s), k # "CIRCLEQ", NEW q \in Queue, NEW r \in Queue, q # r,
         NEW g, SwapEffect(k, h, g, s, q, r), SwapFrame(h, g, s, q, r),
         NEW z, Moved(s, z, r, q)
  PROVE  ListSound(k, g, z, q)
  <1> DEFINE m == Len(s[r])
  <1>1. /\ Len(z[q]) = m /\ m \in Nat
        /\ Cel(z, q, 0) = q
        /\ \A j \in 1 .. m : Cel(z, q, j) = Cel(s, r, j)
    BY DEF Moved
  <1>2. /\ \A j \in 0 .. m : Cel(s, r, j) \in Cell
        /\ \A p, o \in Queue : \A j \in 0 .. Len(s[p]), l \in 0 .. Len(s[o]) :
             Cel(s, p, j) = Cel(s, o, l) => p = o /\ j = l
        /\ \A p \in Queue : Cel(s, p, 0) = p /\ Len(s[p]) \in Nat
    BY CellFacts DEF Sound
  <1>3. \A j \in 0 .. m : h.link[Cel(s, r, j)] = IF j < m THEN Cel(s, r, j + 1) ELSE NULL
    BY DEF Sound, Forward, EndOf
  <1>4. EndOf(k, q) = NULL
    BY DEF EndOf
  <1>5. \A j \in 1 .. m : Cel(s, r, j) # q /\ Cel(s, r, j) # r
    <2>1. 0 \in 0 .. Len(s[q]) /\ 0 \in 0 .. m /\ \A j \in 1 .. m : j \in 0 .. m /\ j # 0
      BY <1>1, <1>2
    <2>2. QED
      BY <1>2, <2>1
  <1>6. ASSUME NEW j \in 0 .. m
        PROVE  g.link[Cel(z, q, j)] = IF j < m THEN Cel(z, q, j + 1) ELSE NULL
    <2>1. CASE j = 0
      <3>1. 0 < m => 1 \in 1 .. m
        BY <1>1
      <3>2. g.link[q] = IF 0 < m THEN Cel(s, r, 1) ELSE NULL
        BY <1>1, <1>2, <1>3 DEF SwapEffect
      <3>3. QED
        BY <1>1, <2>1, <3>1, <3>2
    <2>2. CASE j # 0
      <3>1. j \in 1 .. m /\ (j < m => j + 1 \in 1 .. m)
        BY <1>1, <2>2
      <3>2. g.link[Cel(s, r, j)] = h.link[Cel(s, r, j)]
        BY <1>2, <1>5, <3>1 DEF SwapFrame
      <3>3. QED
        BY <1>1, <1>3, <3>1, <3>2
    <2>3. QED
      BY <2>1, <2>2
  <1>7. ASSUME k \in L!HasPrev, NEW j \in 1 .. m
        PROVE  g.back[Cel(z, q, j)] = Cel(z, q, j - 1)
    <2>1. CASE j = 1
      <3>1. m # 0
        BY <1>1
      <3>2. QED
        BY <1>1, <1>7, <2>1, <3>1 DEF SwapEffect
    <2>2. CASE j # 1
      <3>1. j \in 1 .. m /\ j - 1 \in 1 .. m /\ j \in 0 .. m /\ 1 \in 0 .. m /\ (Len(s[q]) # 0 => 1 \in 0 .. Len(s[q]))
        BY <1>1, <1>2, <2>2
      <3>2. /\ Len(s[q]) # 0 => Cel(s, r, j) # Cel(s, q, 1)
            /\ Len(s[r]) # 0 => Cel(s, r, j) # Cel(s, r, 1)
        BY <1>2, <2>2, <3>1
      <3>3. g.back[Cel(s, r, j)] = h.back[Cel(s, r, j)]
        BY <1>2, <1>5, <3>1, <3>2 DEF SwapFrame
      <3>4. h.back[Cel(s, r, j)] = Cel(s, r, j - 1)
        BY <1>7, <3>1 DEF Sound, Backward
      <3>5. QED
        BY <1>1, <3>1, <3>3, <3>4
    <2>3. QED
      BY <2>1, <2>2
  <1>8. k \in L!HasLast => g.back[q] = Cel(z, q, m)
    <2>1. m # 0 => m \in 1 .. m
      BY <1>1
    <2>2. QED
      BY <1>1, <2>1 DEF SwapEffect
  <1>9. QED
    BY <1>1, <1>4, <1>6, <1>7, <1>8 DEF ListSound

Swapped(s, z, q, r) ==
  /\ Contents(z) /\ Moved(s, z, r, q) /\ Moved(s, z, q, r)
  /\ \A p \in Queue : p # q /\ p # r => z[p] = s[p]
  /\ \A y \in Elem : Absent(z, y) => Absent(s, y)

\* The lists after the contents of q and r have been swapped.
LEMMA SwapContents ==
  ASSUME NEW s, Contents(s), NEW q \in Queue, NEW r \in Queue, q # r,
         NEW z, z = [s EXCEPT ![q] = s[r], ![r] = s[q]]
  PROVE  Swapped(s, z, q, r)
  <1>1. /\ z[q] = s[r] /\ z[r] = s[q]
        /\ \A p \in Queue : p # q /\ p # r => z[p] = s[p]
        /\ z \in [Queue -> Seq(Elem)]
    BY DEF Contents
  <1>2. /\ \A p \in Queue : Len(s[p]) \in Nat
        /\ \A p \in Queue : \A j \in 1 .. Len(s[p]) : j # 0
    BY CellFacts
  <1>3. Moved(s, z, r, q) /\ Moved(s, z, q, r)
    BY <1>1, <1>2 DEF Moved, Cel
  <1>4. ASSUME NEW p \in Queue, NEW o \in Queue, NEW i \in 1 .. Len(z[p]), NEW j \in 1 .. Len(z[o]),
               z[p][i] = z[o][j]
        PROVE  p = o /\ i = j
    <2> DEFINE from(x) == IF x = q THEN r ELSE IF x = r THEN q ELSE x
    <2>1. \A x \in Queue : from(x) \in Queue /\ z[x] = s[from(x)]
      BY <1>1
    <2>2. \A x, y \in Queue : from(x) = from(y) => x = y
      OBVIOUS
    <2> HIDE DEF from
    <2>3. from(p) = from(o) /\ i = j
      BY <1>4, <2>1 DEF Contents
    <2>4. QED
      BY <2>2, <2>3
  <1>5. ASSUME NEW y \in Elem, Absent(z, y)
        PROVE  Absent(s, y)
    <2>1. ASSUME NEW p \in Queue, NEW i \in 1 .. Len(s[p])
          PROVE  s[p][i] # y
      <3>1. CASE p = q
        BY <1>1, <1>5, <3>1 DEF Absent
      <3>2. CASE p = r
        BY <1>1, <1>5, <3>2 DEF Absent
      <3>3. CASE p # q /\ p # r
        BY <1>1, <1>5, <3>3 DEF Absent
      <3>4. QED
        BY <3>1, <3>2, <3>3
    <2>2. QED
      BY <2>1 DEF Absent
  <1>6. Contents(z)
    BY <1>1, <1>4 DEF Contents
  <1>7. QED
    BY <1>1, <1>3, <1>5, <1>6 DEF Swapped

\* A list whose cells are not stored into stays sound.
LEMMA Untouched ==
  ASSUME NEW k, NEW h, NEW s, Sound(k, h, s), NEW p \in Queue, NEW g, NEW z, z[p] = s[p],
         \A j \in 0 .. Len(s[p]) : /\ g.link[Cel(s, p, j)] = h.link[Cel(s, p, j)]
                                   /\ g.back[Cel(s, p, j)] = h.back[Cel(s, p, j)]
  PROVE  ListSound(k, g, z, p)
  <1>1. \A j \in Int : Cel(z, p, j) = Cel(s, p, j)
    BY DEF Cel
  <1>2. Len(s[p]) \in Nat /\ Cel(s, p, 0) = p
    BY CellFacts DEF Sound
  <1>3. \A j \in 0 .. Len(s[p]) : j \in Int /\ j + 1 \in Int
    BY <1>2
  <1>4. \A j \in 0 .. Len(z[p]) :
          g.link[Cel(z, p, j)] = IF j < Len(z[p]) THEN Cel(z, p, j + 1) ELSE EndOf(k, p)
    BY <1>1, <1>3 DEF Sound, Forward
  <1>5. \A j \in 1 .. Len(s[p]) : j \in 0 .. Len(s[p]) /\ j \in Int /\ j - 1 \in Int
    BY <1>2
  <1>6. k \in L!HasPrev => \A j \in 1 .. Len(z[p]) : g.back[Cel(z, p, j)] = Cel(z, p, j - 1)
    BY <1>1, <1>5 DEF Sound, Backward
  <1>7. 0 \in 0 .. Len(s[p]) /\ Len(s[p]) \in Int
    BY <1>2
  <1>8. k \in L!HasLast => g.back[p] = Cel(z, p, Len(z[p]))
    BY <1>1, <1>2, <1>7 DEF Sound, Lasts
  <1>9. QED
    BY <1>4, <1>6, <1>8 DEF ListSound

\* The lists are sound when each of them is.
LEMMA AllSound ==
  ASSUME NEW k \in L!Kind, NEW g \in Heap, NEW z, Contents(z), Trashed(k, g, z),
         \A p \in Queue : ListSound(k, g, z, p)
  PROVE  Sound(k, g, z)
  <1>1. Forward(k, g, z)
    BY DEF Forward, ListSound
  <1>2. Backward(k, g, z)
    BY DEF Backward, ListSound
  <1>3. Lasts(k, g, z)
    BY DEF Lasts, ListSound
  <1>4. QED
    BY <1>1, <1>2, <1>3 DEF Sound

LEMMA SwapKeeps ==
  ASSUME NEW k, NEW h, NEW s, Sound(k, h, s), k # "CIRCLEQ", NEW q \in Queue, NEW r \in Queue, q # r,
         NEW g \in Heap, SwapEffect(k, h, g, s, q, r), SwapEffect(k, h, g, s, r, q),
         SwapFrame(h, g, s, q, r), NEW z, Swapped(s, z, q, r)
  PROVE  Sound(k, g, z)
  <1>1. Contents(s) /\ k \in L!Kind
    BY DEF Sound
  <1>2. Contents(z) /\ Moved(s, z, r, q) /\ Moved(s, z, q, r)
    BY DEF Swapped
  <1>5. SwapFrame(h, g, s, r, q)
    BY DEF SwapFrame
  <1>6. ListSound(k, g, z, q)
    BY <1>2, SwapHalf
  <1>7. ListSound(k, g, z, r)
    BY <1>2, <1>5, SwapHalf
  <1>8. ASSUME NEW p \in Queue, p # q, p # r
        PROVE  ListSound(k, g, z, p)
    <2>1. z[p] = s[p]
      BY <1>8 DEF Swapped
    <2>2. /\ \A o, b \in Queue : \A j \in 0 .. Len(s[o]), l \in 0 .. Len(s[b]) :
               Cel(s, o, j) = Cel(s, b, l) => o = b /\ j = l
          /\ \A o \in Queue : Cel(s, o, 0) = o /\ Len(s[o]) \in Nat
          /\ \A j \in 0 .. Len(s[p]) : Cel(s, p, j) \in Cell
      BY <1>1, CellFacts
    <2>3. /\ 0 \in 0 .. Len(s[q]) /\ 0 \in 0 .. Len(s[r])
          /\ Len(s[q]) # 0 => 1 \in 0 .. Len(s[q])
          /\ Len(s[r]) # 0 => 1 \in 0 .. Len(s[r])
      BY <2>2
    <2>4. \A j \in 0 .. Len(s[p]) : /\ Cel(s, p, j) # q /\ Cel(s, p, j) # r
                                    /\ Len(s[q]) # 0 => Cel(s, p, j) # Cel(s, q, 1)
                                    /\ Len(s[r]) # 0 => Cel(s, p, j) # Cel(s, r, 1)
      BY <1>8, <2>2, <2>3
    <2>5. \A j \in 0 .. Len(s[p]) : /\ g.link[Cel(s, p, j)] = h.link[Cel(s, p, j)]
                                    /\ g.back[Cel(s, p, j)] = h.back[Cel(s, p, j)]
      BY <2>2, <2>4 DEF SwapFrame
    <2>6. QED
      BY <2>1, <2>5, Untouched
  <1>9. Trashed(k, g, z)
    <2> SUFFICES ASSUME k \in L!SingleLinked, NEW y \in Elem, Absent(z, y)
                 PROVE  g.link[y] = NULL
      BY DEF Trashed
    <2>1. h.link[y] = NULL
      BY DEF Sound, Trashed, Swapped
    <2>2. y # q /\ y # r /\ y \in Cell
      BY DEF Cell
    <2>3. QED
      BY <2>1, <2>2 DEF SwapFrame
  <1>10. QED
    BY <1>1, <1>2, <1>6, <1>7, <1>8, <1>9, AllSound

\* STAILQ_SWAP, LIST_SWAP and TAILQ_SWAP.
LEMMA SwapStep ==
  ASSUME Sound(kind, heap, seqs), NEW q \in Queue, NEW r \in Queue, L!swap(q, r)
  PROVE  Sound(kind, heap', seqs')
  <1>1. kind \in {"STAILQ", "LIST", "TAILQ"} /\ q # r
    BY DEF L!swap
  <1>2. Contents(seqs) /\ heap \in Heap
    BY DEF Sound
  <1>3. Swapped(seqs, seqs', q, r)
    <2>1. PICK z : z = seqs'
      OBVIOUS
    <2>2. z = [seqs EXCEPT ![q] = seqs[r], ![r] = seqs[q]]
      BY <2>1 DEF L!swap
    <2>3. Swapped(seqs, z, q, r)
      BY <1>1, <1>2, <2>2, SwapContents
    <2>4. QED
      BY <2>1, <2>3
  <1> DEFINE m == Len(seqs[r])
             n == Len(seqs[q])
             x == heap.link[q]
             y == heap.link[r]
  <1>4. Gap(kind, heap, seqs, q, 0, q, Cel(seqs, q, 1), n) /\ Gap(kind, heap, seqs, r, 0, r, Cel(seqs, r, 1), m)
    <2>1. 0 \in 0 .. n /\ 0 \in 0 .. m /\ Cel(seqs, q, 0) = q /\ Cel(seqs, r, 0) = r /\ 0 + 1 = 1
      BY <1>2, CellFacts
    <2>2. QED
      BY <2>1, GapFacts
  <1>5. /\ n \in Nat /\ m \in Nat /\ q \in Cell /\ r \in Cell
        /\ heap.link \in [Cell -> Cell \cup {NULL}] /\ heap.back \in [Cell -> Cell \cup {NULL}]
        /\ n # 0 => x = Cel(seqs, q, 1) /\ x \in Cell /\ x # NULL /\ x # q
        /\ n = 0 => x = NULL
        /\ m # 0 => y = Cel(seqs, r, 1) /\ y \in Cell /\ y # NULL /\ y # r
        /\ m = 0 => y = NULL
    <2>1. /\ n \in Nat /\ m \in Nat
          /\ (n # 0 <=> 0 < n) /\ (m # 0 <=> 0 < m)
      BY <1>2, CellFacts
    <2>2. EndOf(kind, q) = NULL /\ EndOf(kind, r) = NULL
      BY <1>1 DEF EndOf
    <2>3. QED
      BY <1>4, <2>1, <2>2 DEF Gap
  <1>6. /\ n # 0 => x # r /\ (m # 0 => x # y)
        /\ m # 0 => y # q
    <2>1. /\ 0 \in 0 .. n /\ 0 \in 0 .. m /\ (n # 0 => 1 \in 0 .. n) /\ (m # 0 => 1 \in 0 .. m)
      BY <1>5
    <2>2. QED
      BY <1>1, <1>2, <1>5, <2>1, CellFacts
  <1>7. kind \in L!HasLast => /\ heap.back[q] = Cel(seqs, q, n)
                              /\ heap.back[r] = Cel(seqs, r, m)
    BY <1>4 DEF Gap
  <1> DEFINE l == [[heap.link EXCEPT ![q] = y] EXCEPT ![r] = x]
             a == IF kind = "LIST" THEN heap.back
                  ELSE [[heap.back EXCEPT ![q] = IF y = NULL THEN q ELSE heap.back[r]]
                                   EXCEPT ![r] = IF x = NULL THEN r ELSE heap.back[q]]
             b == IF kind = "STAILQ" \/ y = NULL THEN a ELSE [a EXCEPT ![y] = q]
             c == IF kind = "STAILQ" \/ x = NULL THEN b ELSE [b EXCEPT ![x] = r]
  <1>8. heap' = [link |-> l, back |-> c]
    <2>1. CASE kind = "STAILQ"
      BY <2>1 DEF L!swap, L!STAILQ_SWAP
    <2>2. CASE kind = "LIST"
      BY <2>2 DEF L!swap, L!LIST_SWAP, L!SetPrev
    <2>3. CASE kind = "TAILQ"
      BY <2>3 DEF L!swap, L!TAILQ_SWAP, L!STAILQ_SWAP, L!SetPrev
    <2>4. QED
      BY <1>1, <2>1, <2>2, <2>3
  <1>9. l \in [Cell -> Cell \cup {NULL}] /\ a \in [Cell -> Cell \cup {NULL}]
    BY <1>5
  <1>10. b \in [Cell -> Cell \cup {NULL}] /\ c \in [Cell -> Cell \cup {NULL}]
    <2> HIDE DEF a
    <2>1. b \in [Cell -> Cell \cup {NULL}]
      BY <1>5, <1>9
    <2> HIDE DEF b
    <2>2. QED
      BY <1>5, <2>1
  <1>11. PICK g : g = heap'
    OBVIOUS
  <1>12. g \in Heap /\ g.link = l /\ g.back = c
    <2> HIDE DEF l, c
    <2>1. g = [link |-> l, back |-> c]
      BY <1>8, <1>11
    <2>2. QED
      BY <1>9, <1>10, <2>1, HeapFields
  <1>13. /\ l[q] = y /\ l[r] = x
         /\ \A d \in Cell : d # q /\ d # r => l[d] = heap.link[d]
    BY <1>1, <1>5
  <1>14. /\ kind # "LIST" => /\ a[q] = IF m = 0 THEN q ELSE heap.back[r]
                             /\ a[r] = IF n = 0 THEN r ELSE heap.back[q]
         /\ \A d \in Cell : d # q /\ d # r => a[d] = heap.back[d]
    BY <1>1, <1>5
  <1> HIDE DEF a
  <1>15. /\ b[q] = a[q] /\ b[r] = a[r]
         /\ kind # "STAILQ" /\ m # 0 => b[y] = q
         /\ \A d \in Cell : (m # 0 => d # y) => b[d] = a[d]
    BY <1>5, <1>6, <1>9
  <1> HIDE DEF b
  <1>16. /\ c[q] = b[q] /\ c[r] = b[r]
         /\ kind # "STAILQ" /\ n # 0 => c[x] = r
         /\ kind # "STAILQ" /\ m # 0 => c[y] = b[y]
         /\ \A d \in Cell : (n # 0 => d # x) => c[d] = b[d]
    BY <1>5, <1>6, <1>10
  <1> HIDE DEF c, l
  <1>17. kind \in L!HasPrev => kind # "STAILQ"
    BY DEF L!HasPrev
  <1>18. kind \in L!HasLast => kind # "LIST"
    BY DEF L!HasLast
  <1>19. SwapEffect(kind, heap, g, seqs, q, r)
    BY <1>5, <1>7, <1>12, <1>13, <1>14, <1>15, <1>16, <1>17, <1>18 DEF SwapEffect
  <1>20. SwapEffect(kind, heap, g, seqs, r, q)
    BY <1>5, <1>7, <1>12, <1>13, <1>14, <1>15, <1>16, <1>17, <1>18 DEF SwapEffect
  <1>21. SwapFrame(heap, g, seqs, q, r)
    BY <1>5, <1>12, <1>13, <1>14, <1>15, <1>16 DEF SwapFrame
  <1>22. PICK z : z = seqs'
    OBVIOUS
  <1>23. Swapped(seqs, z, q, r)
    BY <1>3, <1>22
  <1>24. Sound(kind, g, z)
    BY <1>1, <1>12, <1>19, <1>20, <1>21, <1>23, SwapKeeps
  <1>25. QED
    BY <1>11, <1>22, <1>24

Joins(s, z, q, r) ==
  /\ Contents(z)
  /\ \A p \in Queue : p # q /\ p # r => z[p] = s[p]
  /\ Len(z[r]) = 0 /\ Cel(z, r, 0) = r /\ Cel(z, q, 0) = q
  /\ Len(z[q]) = Len(s[q]) + Len(s[r])
  /\ \A j \in 1 .. Len(s[q]) : Cel(z, q, j) = Cel(s, q, j)
  /\ \A j \in 1 .. Len(s[r]) : Cel(z, q, Len(s[q]) + j) = Cel(s, r, j)
  /\ \A y \in Elem : Absent(z, y) => Absent(s, y)

\* The lists after the content of r has been put behind that of q.
LEMMA ConcatContents ==
  ASSUME NEW s, Contents(s), NEW q \in Queue, NEW r \in Queue, q # r,
         NEW z, z = [s EXCEPT ![q] = s[q] \o s[r], ![r] = << >>]
  PROVE  Joins(s, z, q, r)
  <1> DEFINE n == Len(s[q])
             m == Len(s[r])
  <1>1. n \in Nat /\ m \in Nat /\ s[q] \in Seq(Elem) /\ s[r] \in Seq(Elem) /\ s \in [Queue -> Seq(Elem)]
    BY CellFacts DEF Contents
  <1>2. /\ s[q] \o s[r] \in Seq(Elem)
        /\ Len(s[q] \o s[r]) = n + m
        /\ \A j \in 1 .. n + m : (s[q] \o s[r])[j] = IF j <= n THEN s[q][j] ELSE s[r][j - n]
    BY <1>1, Joined
  <1>3. /\ z \in [Queue -> Seq(Elem)]
        /\ z[q] = s[q] \o s[r] /\ z[r] = << >>
        /\ \A p \in Queue : p # q /\ p # r => z[p] = s[p]
    <2> DEFINE u == s[q] \o s[r]
               v == [s EXCEPT ![q] = u]
    <2>1. u \in Seq(Elem) /\ << >> \in Seq(Elem)
      BY <1>2
    <2>2. z = [v EXCEPT ![r] = << >>]
      BY <1>1
    <2> HIDE DEF u
    <2>3. v \in [Queue -> Seq(Elem)] /\ v[q] = u /\ \A p \in Queue : p # q => v[p] = s[p]
      BY <1>1, <2>1
    <2> HIDE DEF v
    <2>4. /\ z \in [Queue -> Seq(Elem)] /\ z[r] = << >>
          /\ \A p \in Queue : p # r => z[p] = v[p]
      BY <2>1, <2>2, <2>3
    <2>5. z[q] = u
      BY <2>3, <2>4
    <2>6. QED
      BY <2>3, <2>4, <2>5 DEF u
  <1>4. /\ Len(z[q]) = n + m /\ Len(z[r]) = 0
        /\ \A j \in 1 .. n + m : z[q][j] = IF j <= n THEN s[q][j] ELSE s[r][j - n]
    BY <1>2, <1>3
  <1> HIDE DEF n, m
  <1>5. /\ \A j \in 1 .. n : j \in 1 .. n + m /\ j <= n /\ j # 0
        /\ \A j \in 1 .. m : n + j \in 1 .. n + m /\ ~(n + j <= n) /\ (n + j) - n = j /\ n + j # 0 /\ j # 0
        /\ \A j \in 1 .. n + m : IF j <= n THEN j \in 1 .. n ELSE j - n \in 1 .. m
    BY <1>1
  <1>6. /\ Cel(z, r, 0) = r /\ Cel(z, q, 0) = q
        /\ \A j \in 1 .. n : Cel(z, q, j) = Cel(s, q, j)
        /\ \A j \in 1 .. m : Cel(z, q, n + j) = Cel(s, r, j)
    <2>1. Cel(z, r, 0) = r /\ Cel(z, q, 0) = q
      BY DEF Cel
    <2>2. ASSUME NEW j \in 1 .. n
          PROVE  Cel(z, q, j) = Cel(s, q, j)
      BY <1>4, <1>5 DEF Cel
    <2>3. ASSUME NEW j \in 1 .. m
          PROVE  Cel(z, q, n + j) = Cel(s, r, j)
      <3>1. z[q][n + j] = s[r][j]
        BY <1>4, <1>5
      <3>2. n + j # 0 /\ j # 0
        BY <1>5
      <3>3. QED
        BY <3>1, <3>2 DEF Cel
    <2>4. QED
      BY <2>1, <2>2, <2>3
  <1>7. ASSUME NEW p \in Queue, NEW i \in 1 .. Len(z[p])
        PROVE  \E o \in Queue : \E j \in 1 .. Len(s[o]) :
                 /\ z[p][i] = s[o][j]
                 /\ p = q => \/ o = q /\ i = j
                             \/ o = r /\ i = n + j
                 /\ p # q => o = p /\ o # q /\ o # r /\ i = j
    <2>1. CASE p = q
      <3>1. i \in 1 .. n + m
        BY <1>4, <2>1
      <3>2. CASE i <= n
        <4>1. i \in 1 .. Len(s[q]) /\ z[q][i] = s[q][i]
          BY <1>4, <1>5, <3>1, <3>2 DEF n
        <4>2. QED
          BY <2>1, <4>1
      <3>3. CASE ~(i <= n)
        <4>1. i - n \in 1 .. Len(s[r]) /\ z[q][i] = s[r][i - n]
          BY <1>4, <1>5, <3>1, <3>3 DEF m
        <4>2. i = n + (i - n)
          BY <1>1, <3>1
        <4>3. QED
          BY <2>1, <4>1, <4>2
      <3>4. QED
        BY <3>2, <3>3
    <2>2. CASE p = r
      BY <1>4, <2>2
    <2>3. CASE p # q /\ p # r
      BY <1>3, <2>3
    <2>4. QED
      BY <2>1, <2>2, <2>3
  <1>8. ASSUME NEW p \in Queue, NEW o \in Queue, NEW i \in 1 .. Len(z[p]), NEW j \in 1 .. Len(z[o]),
               z[p][i] = z[o][j]
        PROVE  p = o /\ i = j
    <2>1. PICK a \in Queue : \E l \in 1 .. Len(s[a]) :
                 /\ z[p][i] = s[a][l]
                 /\ p = q => \/ a = q /\ i = l
                             \/ a = r /\ i = n + l
                 /\ p # q => a = p /\ a # q /\ a # r /\ i = l
      BY <1>7
    <2>2. PICK l \in 1 .. Len(s[a]) :
                 /\ z[p][i] = s[a][l]
                 /\ p = q => \/ a = q /\ i = l
                             \/ a = r /\ i = n + l
                 /\ p # q => a = p /\ a # q /\ a # r /\ i = l
      BY <2>1
    <2>3. PICK b \in Queue : \E e \in 1 .. Len(s[b]) :
                 /\ z[o][j] = s[b][e]
                 /\ o = q => \/ b = q /\ j = e
                             \/ b = r /\ j = n + e
                 /\ o # q => b = o /\ b # q /\ b # r /\ j = e
      BY <1>7
    <2>4. PICK e \in 1 .. Len(s[b]) :
                 /\ z[o][j] = s[b][e]
                 /\ o = q => \/ b = q /\ j = e
                             \/ b = r /\ j = n + e
                 /\ o # q => b = o /\ b # q /\ b # r /\ j = e
      BY <2>3
    <2>5. a = b /\ l = e
      BY <1>8, <2>2, <2>4 DEF Contents
    <2>6. QED
      BY <2>2, <2>4, <2>5
  <1>9. ASSUME NEW y \in Elem, Absent(z, y)
        PROVE  Absent(s, y)
    <2>1. ASSUME NEW p \in Queue, NEW i \in 1 .. Len(s[p])
          PROVE  s[p][i] # y
      <3>1. CASE p = q
        <4>1. i \in 1 .. n + m /\ z[q][i] = s[q][i]
          BY <1>4, <1>5, <3>1 DEF n
        <4>2. QED
          BY <1>4, <1>9, <3>1, <4>1 DEF Absent
      <3>2. CASE p = r
        <4>1. n + i \in 1 .. n + m /\ z[q][n + i] = s[r][i]
          BY <1>4, <1>5, <3>2 DEF m
        <4>2. QED
          BY <1>4, <1>9, <3>2, <4>1 DEF Absent
      <3>3. CASE p # q /\ p # r
        BY <1>3, <1>9, <3>3 DEF Absent
      <3>4. QED
        BY <3>1, <3>2, <3>3
    <2>2. QED
      BY <2>1 DEF Absent
  <1>10. Contents(z)
    BY <1>3, <1>8 DEF Contents
  <1>11. QED
    BY <1>3, <1>4, <1>6, <1>9, <1>10 DEF Joins, n, m

\* STAILQ_CONCAT and TAILQ_CONCAT of a list r that is not empty.
LEMMA ConcatKeeps ==
  ASSUME NEW k, NEW h, NEW s, Sound(k, h, s), k \in {"STAILQ", "TAILQ"},
         NEW q \in Queue, NEW r \in Queue, q # r, NEW z, Joins(s, z, q, r),
         NEW g \in Heap, NEW x, NEW f, x = Cel(s, q, Len(s[q])), f = Cel(s, r, 1), Len(s[r]) # 0,
         g.link[x] = f, g.link[r] = NULL,
         \A c \in Cell : c # x /\ c # r => g.link[c] = h.link[c],
         g.back[q] = h.back[r], g.back[r] = r, k = "TAILQ" => g.back[f] = x,
         \A c \in Cell : c # q /\ c # r /\ c # f => g.back[c] = h.back[c]
  PROVE  Sound(k, g, z)
  <1> DEFINE n == Len(s[q])
             m == Len(s[r])
  <1>1. Contents(s) /\ k \in L!Kind
    BY DEF Sound
  <1>2. n \in Nat /\ m \in Nat /\ m # 0
    BY <1>1, CellFacts
  <1>3. /\ Contents(z)
        /\ \A p \in Queue : p # q /\ p # r => z[p] = s[p]
        /\ Len(z[r]) = 0 /\ Cel(z, r, 0) = r /\ Cel(z, q, 0) = q
        /\ Len(z[q]) = n + m
        /\ \A j \in 1 .. n : Cel(z, q, j) = Cel(s, q, j)
        /\ \A j \in 1 .. m : Cel(z, q, n + j) = Cel(s, r, j)
        /\ \A y \in Elem : Absent(z, y) => Absent(s, y)
    BY DEF Joins
  <1>4. /\ \A p \in Queue : \A j \in 0 .. Len(s[p]) : Cel(s, p, j) \in Cell
        /\ \A p, o \in Queue : \A j \in 0 .. Len(s[p]), l \in 0 .. Len(s[o]) :
             Cel(s, p, j) = Cel(s, o, l) => p = o /\ j = l
        /\ \A p \in Queue : Cel(s, p, 0) = p /\ Len(s[p]) \in Nat
    BY <1>1, CellFacts
  <1>5. \A p \in Queue : \A j \in 0 .. Len(s[p]) :
          h.link[Cel(s, p, j)] = IF j < Len(s[p]) THEN Cel(s, p, j + 1) ELSE NULL
    BY DEF Sound, Forward, EndOf
  <1>6. EndOf(k, q) = NULL /\ EndOf(k, r) = NULL /\ k \in L!HasLast
    BY DEF EndOf, L!HasLast
  <1>7. h.back[r] = Cel(s, r, m) /\ h.back[q] = x
    BY <1>6 DEF Sound, Lasts
  <1>8. /\ 0 \in 0 .. n /\ n \in 0 .. n /\ 0 \in 0 .. m /\ 1 \in 0 .. m /\ m \in 1 .. m
        /\ \A j \in 1 .. m : j \in 0 .. m /\ j # 0
        /\ \A j \in 0 .. n : j = 0 \/ j \in 1 .. n
        /\ \A j \in 1 .. n : j \in 0 .. n /\ j # 0
    BY <1>2
  <1> HIDE DEF n, m
  <1>9. \A j \in 0 .. n : Cel(z, q, j) = Cel(s, q, j)
    BY <1>3, <1>4, <1>8
  <1>10. x \in Cell /\ r \in Cell /\ f \in Cell /\ x # r
    BY <1>4, <1>8 DEF n, m
  <1>11. ListSound(k, g, z, r)
    <2>1. \A j \in 0 .. Len(z[r]) : j = 0 /\ ~(j < Len(z[r]))
      BY <1>3
    <2>2. \A j \in 0 .. Len(z[r]) :
            g.link[Cel(z, r, j)] = IF j < Len(z[r]) THEN Cel(z, r, j + 1) ELSE EndOf(k, r)
      BY <1>3, <1>6, <2>1
    <2>3. \A j \in 1 .. Len(z[r]) : FALSE
      BY <1>3
    <2>4. QED
      BY <1>3, <2>2, <2>3 DEF ListSound
  <1>12. ASSUME NEW p \in Queue, p # q, p # r
         PROVE  ListSound(k, g, z, p)
    <2>1. \A j \in 0 .. Len(s[p]) : /\ Cel(s, p, j) \in Cell
                                    /\ Cel(s, p, j) # x /\ Cel(s, p, j) # r
                                    /\ Cel(s, p, j) # q /\ Cel(s, p, j) # f
      BY <1>4, <1>8, <1>12 DEF n, m
    <2>2. QED
      BY <1>3, <1>12, <2>1, Untouched
  <1>13. ASSUME NEW j \in 0 .. n + m
         PROVE  g.link[Cel(z, q, j)] = IF j < n + m THEN Cel(z, q, j + 1) ELSE NULL
    <2>1. CASE j < n
      <3>1. j \in 0 .. n /\ j + 1 \in 0 .. n /\ j < n + m /\ j # n
        BY <1>2, <2>1
      <3>2. Cel(s, q, j) # x /\ Cel(s, q, j) # r /\ Cel(s, q, j) \in Cell
        BY <1>4, <1>8, <3>1 DEF n, m
      <3>3. h.link[Cel(s, q, j)] = Cel(s, q, j + 1)
        BY <1>5, <2>1, <3>1 DEF n
      <3>4. QED
        BY <1>9, <3>1, <3>2, <3>3
    <2>2. CASE j = n
      <3>1. n \in 0 .. n /\ n < n + m /\ 1 \in 1 .. m
        BY <1>2
      <3>2. Cel(z, q, n) = x /\ Cel(z, q, n + 1) = f
        BY <1>3, <1>9, <3>1 DEF n
      <3>3. QED
        BY <2>2, <3>1, <3>2
    <2>3. CASE j > n
      <3>1. PICK l \in 1 .. m : j = n + l
        <4>1. j - n \in 1 .. m /\ j = n + (j - n)
          BY <1>2, <2>3
        <4>2. QED
          BY <4>1
      <3>2. /\ l \in 0 .. m /\ l # 0 /\ (l < m <=> j < n + m) /\ (l < m => l + 1 \in 1 .. m) /\ j + 1 = n + (l + 1)
        BY <1>2, <3>1
      <3>3. Cel(s, r, l) # x /\ Cel(s, r, l) # r /\ Cel(s, r, l) \in Cell
        BY <1>4, <1>8, <3>2 DEF n, m
      <3>4. h.link[Cel(s, r, l)] = IF l < m THEN Cel(s, r, l + 1) ELSE NULL
        BY <1>5, <3>2 DEF m
      <3>5. Cel(z, q, j) = Cel(s, r, l) /\ (l < m => Cel(z, q, j + 1) = Cel(s, r, l + 1))
        BY <1>3, <3>1, <3>2
      <3>6. QED
        BY <3>2, <3>3, <3>4, <3>5
    <2>4. j < n \/ j = n \/ j > n
      BY <1>2
    <2>5. QED
      BY <2>1, <2>2, <2>3, <2>4
  <1>14. ASSUME k \in L!HasPrev, NEW j \in 1 .. n + m
         PROVE  g.back[Cel(z, q, j)] = Cel(z, q, j - 1)
    <2>1. \A p \in Queue : \A l \in 1 .. Len(s[p]) : h.back[Cel(s, p, l)] = Cel(s, p, l - 1)
      BY <1>14 DEF Sound, Backward
    <2>2. CASE j <= n
      <3>1. j \in 0 .. n /\ j \in 1 .. n /\ j - 1 \in 0 .. n /\ j # 0
        BY <1>2, <2>2
      <3>2. Cel(s, q, j) # q /\ Cel(s, q, j) # r /\ Cel(s, q, j) # f /\ Cel(s, q, j) \in Cell
        BY <1>4, <1>8, <3>1 DEF n, m
      <3>3. h.back[Cel(s, q, j)] = Cel(s, q, j - 1)
        BY <2>1, <3>1 DEF n
      <3>4. QED
        BY <1>9, <3>1, <3>2, <3>3
    <2>3. CASE j = n + 1
      <3>1. n \in 0 .. n /\ j - 1 = n /\ 1 \in 1 .. m
        BY <1>2, <2>3
      <3>2. Cel(z, q, j) = f /\ Cel(z, q, j - 1) = x
        BY <1>3, <1>9, <2>3, <3>1 DEF n
      <3>3. k = "TAILQ"
        BY <1>14 DEF L!HasPrev
      <3>4. QED
        BY <3>2, <3>3
    <2>4. CASE j > n + 1
      <3>1. PICK l \in 1 .. m : j = n + l
        <4>1. j - n \in 1 .. m /\ j = n + (j - n)
          BY <1>2, <2>4
        <4>2. QED
          BY <4>1
      <3>2. l \in 0 .. m /\ l # 0 /\ l # 1 /\ l - 1 \in 1 .. m /\ j - 1 = n + (l - 1)
        BY <1>2, <2>4, <3>1
      <3>3. Cel(s, r, l) # q /\ Cel(s, r, l) # r /\ Cel(s, r, l) # f /\ Cel(s, r, l) \in Cell
        BY <1>4, <1>8, <3>2 DEF n, m
      <3>4. h.back[Cel(s, r, l)] = Cel(s, r, l - 1)
        BY <2>1 DEF m
      <3>5. Cel(z, q, j) = Cel(s, r, l) /\ Cel(z, q, j - 1) = Cel(s, r, l - 1)
        BY <1>3, <3>1, <3>2
      <3>6. QED
        BY <3>3, <3>4, <3>5
    <2>5. j <= n \/ j = n + 1 \/ j > n + 1
      BY <1>2
    <2>6. QED
      BY <2>2, <2>3, <2>4, <2>5
  <1>15. ListSound(k, g, z, q)
    <2>1. g.back[q] = Cel(z, q, n + m)
      BY <1>3, <1>7, <1>8
    <2>2. QED
      BY <1>3, <1>6, <1>13, <1>14, <2>1 DEF ListSound
  <1>16. Trashed(k, g, z)
    <2> SUFFICES ASSUME k \in L!SingleLinked, NEW y \in Elem, Absent(z, y)
                 PROVE  g.link[y] = NULL
      BY DEF Trashed
    <2>1. h.link[y] = NULL
      BY <1>3 DEF Sound, Trashed
    <2>2. y # x /\ y # r /\ y \in Cell
      <3>1. Absent(s, y)
        BY <1>3
      <3>2. y # x
        BY <1>1, <1>8, <3>1, CellFacts DEF n
      <3>3. QED
        BY <3>2 DEF Cell
    <2>3. QED
      BY <2>1, <2>2
  <1>17. QED
    BY <1>1, <1>3, <1>11, <1>12, <1>15, <1>16, AllSound

LEMMA ConcatStep ==
  ASSUME Sound(kind, heap, seqs), NEW q \in Queue, NEW r \in Queue, L!concat(q, r)
  PROVE  Sound(kind, heap', seqs')
  <1>1. kind \in {"STAILQ", "TAILQ"} /\ q # r
    BY DEF L!concat
  <1>2. Contents(seqs) /\ heap \in Heap
    BY DEF Sound
  <1> DEFINE m == Len(seqs[r])
             n == Len(seqs[q])
             x == heap.back[q]
             f == heap.link[r]
  <1>3. Gap(kind, heap, seqs, q, n, Cel(seqs, q, n), Cel(seqs, q, n + 1), n)
    <2>1. n \in 0 .. n
      BY <1>2, CellFacts
    <2>2. QED
      BY <2>1, GapFacts
  <1>4. Gap(kind, heap, seqs, r, 0, r, Cel(seqs, r, 1), m)
    <2>1. 0 \in 0 .. m /\ Cel(seqs, r, 0) = r /\ 0 + 1 = 1
      BY <1>2, CellFacts
    <2>2. QED
      BY <2>1, GapFacts
  <1>5. /\ q \in Cell /\ r \in Cell /\ x \in Cell
        /\ heap.link \in [Cell -> Cell \cup {NULL}] /\ heap.back \in [Cell -> Cell \cup {NULL}]
        /\ x = Cel(seqs, q, n)
        /\ m # 0 => f = Cel(seqs, r, 1) /\ f \in Cell /\ f # NULL /\ f # r
        /\ m = 0 => f = NULL
    <2>1. m \in Nat /\ (m # 0 <=> 0 < m)
      BY <1>2, CellFacts
    <2>2. EndOf(kind, r) = NULL /\ kind \in L!HasLast
      BY <1>1 DEF EndOf, L!HasLast
    <2>3. QED
      BY <1>3, <1>4, <2>1, <2>2 DEF Gap
  <1>6. PICK g, z : g = heap' /\ z = seqs'
    OBVIOUS
  <1>7. z = [seqs EXCEPT ![q] = seqs[q] \o seqs[r], ![r] = << >>]
    BY <1>6 DEF L!concat
  <1>8. CASE m = 0
    <2>1. heap' = heap
      BY <1>1, <1>5, <1>8 DEF L!concat, L!STAILQ_CONCAT, L!TAILQ_CONCAT
    <2>2. seqs \in [Queue -> Seq(Elem)]
      BY <1>2 DEF Contents
    <2>3. seqs[r] = << >>
      BY <1>8, <2>2
    <2>4. seqs[q] \o << >> = seqs[q]
      BY <2>2
    <2>5. z = seqs
      BY <1>7, <2>2, <2>3, <2>4
    <2>6. QED
      BY <1>6, <2>1, <2>5
  <1>9. CASE m # 0
    <2> DEFINE l == [[heap.link EXCEPT ![x] = f] EXCEPT ![r] = NULL]
               a == [[heap.back EXCEPT ![q] = heap.back[r]] EXCEPT ![r] = r]
               b == IF kind = "TAILQ" THEN [a EXCEPT ![f] = x] ELSE a
    <2>1. g = [link |-> l, back |-> b]
      <3>1. f # NULL
        BY <1>5, <1>9
      <3>2. CASE kind = "STAILQ"
        BY <1>6, <3>1, <3>2 DEF L!concat, L!STAILQ_CONCAT
      <3>3. CASE kind = "TAILQ"
        BY <1>6, <3>1, <3>3 DEF L!concat, L!STAILQ_CONCAT, L!TAILQ_CONCAT
      <3>4. QED
        BY <1>1, <3>2, <3>3
    <2>2. l \in [Cell -> Cell \cup {NULL}] /\ a \in [Cell -> Cell \cup {NULL}]
      BY <1>5, <1>9
    <2>3. b \in [Cell -> Cell \cup {NULL}]
      <3> HIDE DEF a
      <3> QED BY <1>5, <1>9, <2>2
    <2>4. g \in Heap /\ g.link = l /\ g.back = b
      <3> HIDE DEF l, b
      <3> QED BY <2>1, <2>2, <2>3, HeapFields
    <2>5. x # r /\ f # q
      <3>1. n \in 0 .. n /\ 0 \in 0 .. m /\ 0 \in 0 .. n /\ 1 \in 0 .. m
        BY <1>2, <1>9, CellFacts
      <3>2. QED
        BY <1>1, <1>2, <1>5, <1>9, <3>1, CellFacts
    <2>6. l[x] = f /\ l[r] = NULL /\ \A c \in Cell : c # x /\ c # r => l[c] = heap.link[c]
      BY <1>5, <2>5
    <2>7. a[q] = heap.back[r] /\ a[r] = r /\ \A c \in Cell : c # q /\ c # r => a[c] = heap.back[c]
      BY <1>1, <1>5
    <2>8. /\ b[q] = heap.back[r] /\ b[r] = r /\ (kind = "TAILQ" => b[f] = x)
          /\ \A c \in Cell : c # q /\ c # r /\ c # f => b[c] = heap.back[c]
      <3> HIDE DEF a
      <3> QED BY <1>5, <1>9, <2>2, <2>5, <2>7
    <2> HIDE DEF l, a, b
    <2>9. Joins(seqs, z, q, r)
      BY <1>1, <1>2, <1>7, ConcatContents
    <2>10. PICK x0, f0 : x0 = x /\ f0 = f
      OBVIOUS
    <2>11. Sound(kind, g, z)
      <3>1. x0 = Cel(seqs, q, Len(seqs[q])) /\ f0 = Cel(seqs, r, 1) /\ Len(seqs[r]) # 0
        BY <1>5, <1>9, <2>10
      <3>2. /\ g.link[x0] = f0 /\ g.link[r] = NULL
            /\ \A c \in Cell : c # x0 /\ c # r => g.link[c] = heap.link[c]
            /\ g.back[q] = heap.back[r] /\ g.back[r] = r /\ (kind = "TAILQ" => g.back[f0] = x0)
            /\ \A c \in Cell : c # q /\ c # r /\ c # f0 => g.back[c] = heap.back[c]
        BY <2>4, <2>6, <2>8, <2>10
      <3> HIDE DEF x, f, m, n
      <3>3. QED
        BY <1>1, <2>4, <2>9, <3>1, <3>2, ConcatKeeps
    <2>12. QED
      BY <1>6, <2>11
  <1>10. QED
    BY <1>8, <1>9

-----------------------------------------------------------------------------
(***************************************************************************)
(* The steps that insert and remove.                                       *)
(***************************************************************************)
LEMMA FreshAbsent ==
  ASSUME NEW e, L!Fresh(e)
  PROVE  Absent(seqs, e)
  BY DEF L!Fresh, L!Members, Absent

\* The place of an element in its list.
LEMMA PlaceFound ==
  ASSUME NEW q \in Queue, NEW x, x \in L!Members(seqs[q])
  PROVE  /\ L!Place(q, x) \in 1 .. Len(seqs[q])
         /\ seqs[q][L!Place(q, x)] = x
  <1>1. \E i \in 1 .. Len(seqs[q]) : seqs[q][i] = x
    BY DEF L!Members
  <1>2. QED
    BY <1>1 DEF L!Place

\* An insertion into list q of a heap g and a content t.
LEMMA InsertStep ==
  ASSUME Sound(kind, heap, seqs), NEW q \in Queue, NEW i \in 0 .. Len(seqs[q]),
         NEW e \in Elem, L!Fresh(e), NEW t, Inserted(seqs[q], i, e, t),
         NEW g, InsertEffect(kind, heap, g, seqs, q, i, e), L!Change(g, q, t)
  PROVE  Sound(kind, heap', seqs')
  <1>1. Absent(seqs, e)
    BY FreshAbsent
  <1>2. PICK z : z = [seqs EXCEPT ![q] = t]
    OBVIOUS
  <1>3. Sound(kind, g, z)
    BY <1>1, <1>2, InsertKeeps
  <1>4. heap' = g /\ seqs' = z
    BY <1>2 DEF L!Change
  <1>5. QED
    BY <1>3, <1>4

LEMMA RemoveStep ==
  ASSUME Sound(kind, heap, seqs), NEW q \in Queue, NEW i \in 1 .. Len(seqs[q]),
         NEW t, Removed(seqs[q], i, t),
         NEW g, RemoveEffect(kind, heap, g, seqs, q, i),
         heap' = g, seqs' = [seqs EXCEPT ![q] = t]
  PROVE  Sound(kind, heap', seqs')
  <1>1. PICK z : z = [seqs EXCEPT ![q] = t]
    OBVIOUS
  <1>2. Sound(kind, g, z)
    BY <1>1, RemoveKeeps
  <1>3. QED
    BY <1>1, <1>2

\* The macros that insert.
LEMMA InsertSteps ==
  ASSUME Sound(kind, heap, seqs), NEW q \in Queue, NEW e \in Elem,
         \/ L!insert_head(q, e) \/ L!insert_tail(q, e)
         \/ \E x \in Elem : L!insert_after(q, x, e) \/ L!insert_before(q, x, e)
  PROVE  Sound(kind, heap', seqs') /\ loop = NULL /\ loop' = NULL /\ kind' = kind
  <1>1. Contents(seqs) /\ L!Fresh(e) /\ Absent(seqs, e)
    BY FreshAbsent DEF Sound, L!insert_head, L!insert_tail, L!insert_after, L!insert_before
  <1>2. seqs[q] \in Seq(Elem) /\ Len(seqs[q]) \in Nat
    BY <1>1, CellFacts
  <1>3. CASE L!insert_head(q, e)
    <2>1. PICK g, t : g = L!INSERT_HEAD(q, e) /\ t = <<e>> \o seqs[q]
      OBVIOUS
    <2>2. L!Change(g, q, t)
      BY <1>3, <2>1 DEF L!insert_head
    <2>3. Inserted(seqs[q], 0, e, t) /\ InsertEffect(kind, heap, g, seqs, q, 0, e)
      BY <1>1, <1>2, <2>1, HeadInserts, InsertHeadEffect
    <2>4. 0 \in 0 .. Len(seqs[q])
      BY <1>2
    <2>5. Sound(kind, heap', seqs')
      BY <1>1, <2>2, <2>3, <2>4, InsertStep
    <2>6. QED
      BY <2>2, <2>5 DEF L!Change
  <1>4. CASE L!insert_tail(q, e)
    <2>1. PICK g, t : g = L!INSERT_TAIL(q, e) /\ t = Append(seqs[q], e)
      OBVIOUS
    <2>2. L!Change(g, q, t) /\ kind \in L!HasLast
      BY <1>4, <2>1 DEF L!insert_tail
    <2>3. PICK n : n = Len(seqs[q])
      OBVIOUS
    <2>4. Inserted(seqs[q], n, e, t) /\ InsertEffect(kind, heap, g, seqs, q, n, e)
      BY <1>1, <1>2, <2>1, <2>2, <2>3, TailInserts, InsertTailEffect
    <2>5. n \in 0 .. Len(seqs[q])
      BY <1>2, <2>3
    <2>6. Sound(kind, heap', seqs')
      BY <1>1, <2>2, <2>4, <2>5, InsertStep
    <2>7. QED
      BY <2>2, <2>6 DEF L!Change
  <1>5. ASSUME NEW x \in Elem, L!insert_after(q, x, e)
        PROVE  Sound(kind, heap', seqs') /\ loop = NULL /\ loop' = NULL /\ kind' = kind
    <2>1. PICK i : i = L!Place(q, x)
      OBVIOUS
    <2>2. PICK g, t : g = L!INSERT_AFTER(q, x, e) /\ t = L!X!InsertAt(seqs[q], i + 1, e)
      OBVIOUS
    <2>3. L!Change(g, q, t) /\ x \in L!Members(seqs[q])
      BY <1>5, <2>1, <2>2 DEF L!insert_after
    <2>4. i \in 1 .. Len(seqs[q]) /\ seqs[q][i] = x
      BY <2>1, <2>3, PlaceFound
    <2>5. i \in 0 .. Len(seqs[q]) /\ i # 0 /\ i + 1 \in 1 .. Len(seqs[q]) + 1 /\ (i + 1) - 1 = i
      BY <1>2, <2>4
    <2>6. x = Cel(seqs, q, i)
      BY <2>4, <2>5 DEF Cel
    <2>7. Inserted(seqs[q], i, e, t)
      <3>1. Inserted(seqs[q], (i + 1) - 1, e, t)
        BY <1>2, <2>2, <2>5, InsertAtInserts
      <3>2. QED
        BY <2>5, <3>1
    <2>8. InsertEffect(kind, heap, g, seqs, q, i, e)
      BY <1>1, <2>2, <2>5, <2>6, InsertAfterEffect
    <2>9. Sound(kind, heap', seqs')
      BY <1>1, <2>3, <2>5, <2>7, <2>8, InsertStep
    <2>10. QED
      BY <2>3, <2>9 DEF L!Change
  <1>6. ASSUME NEW x \in Elem, L!insert_before(q, x, e)
        PROVE  Sound(kind, heap', seqs') /\ loop = NULL /\ loop' = NULL /\ kind' = kind
    <2>1. PICK i : i = L!Place(q, x)
      OBVIOUS
    <2>2. PICK g, t, l : g = L!INSERT_BEFORE(q, x, e) /\ t = L!X!InsertAt(seqs[q], i, e) /\ l = i - 1
      OBVIOUS
    <2>3. L!Change(g, q, t) /\ x \in L!Members(seqs[q]) /\ kind \in L!HasPrev
      BY <1>6, <2>1, <2>2 DEF L!insert_before
    <2>4. i \in 1 .. Len(seqs[q]) /\ seqs[q][i] = x
      BY <2>1, <2>3, PlaceFound
    <2>5. /\ l \in 0 .. Len(seqs[q]) /\ l < Len(seqs[q]) /\ l + 1 = i /\ i # 0
          /\ i \in 1 .. Len(seqs[q]) + 1
      BY <1>2, <2>2, <2>4
    <2>6. x = Cel(seqs, q, l + 1)
      BY <2>4, <2>5 DEF Cel
    <2>7. Inserted(seqs[q], l, e, t)
      BY <1>2, <2>2, <2>5, InsertAtInserts
    <2>8. InsertEffect(kind, heap, g, seqs, q, l, e)
      BY <1>1, <2>2, <2>3, <2>5, <2>6, InsertBeforeEffect
    <2>9. Sound(kind, heap', seqs')
      BY <1>1, <2>3, <2>5, <2>7, <2>8, InsertStep
    <2>10. QED
      BY <2>3, <2>9 DEF L!Change
  <1>7. QED
    BY <1>3, <1>4, <1>5, <1>6

\* The macros that remove.
LEMMA RemoveSteps ==
  ASSUME Sound(kind, heap, seqs), NEW q \in Queue,
         \/ \E x \in Elem : L!remove(q, x)
         \/ \E x \in Cell : L!remove_after(q, x)
  PROVE  Sound(kind, heap', seqs') /\ loop = NULL /\ loop' = NULL /\ kind' = kind
  <1>1. Contents(seqs)
    BY DEF Sound
  <1>2. seqs[q] \in Seq(Elem) /\ Len(seqs[q]) \in Nat
    BY <1>1, CellFacts
  <1>3. ASSUME NEW x \in Elem, L!remove(q, x)
        PROVE  Sound(kind, heap', seqs') /\ loop = NULL /\ loop' = NULL /\ kind' = kind
    <2>1. PICK i : i = L!Place(q, x)
      OBVIOUS
    <2>2. PICK g, t : g = L!REMOVE(q, x) /\ t = L!X!RemoveAt(seqs[q], i)
      OBVIOUS
    <2>3. L!Change(g, q, t) /\ x \in L!Members(seqs[q])
      BY <1>3, <2>1, <2>2 DEF L!remove
    <2>4. i \in 1 .. Len(seqs[q]) /\ seqs[q][i] = x
      BY <2>1, <2>3, PlaceFound
    <2>5. x = Cel(seqs, q, i)
      BY <1>2, <2>4 DEF Cel
    <2>6. Removed(seqs[q], i, t) /\ RemoveEffect(kind, heap, g, seqs, q, i)
      BY <1>2, <2>2, <2>4, <2>5, RemoveAtRemoves, RemoveEffects
    <2>7. heap' = g /\ seqs' = [seqs EXCEPT ![q] = t]
      BY <2>3 DEF L!Change
    <2>8. Sound(kind, heap', seqs')
      BY <2>4, <2>6, <2>7, RemoveStep
    <2>9. QED
      BY <2>3, <2>8 DEF L!Change
  <1>4. ASSUME NEW x \in Cell, L!remove_after(q, x)
        PROVE  Sound(kind, heap', seqs') /\ loop = NULL /\ loop' = NULL /\ kind' = kind
    <2>1. PICK i : i = (IF x = q THEN 0 ELSE L!Place(q, x)) + 1
      OBVIOUS
    <2>2. PICK g, t : g = RemoveAfter(x, q) /\ t = L!X!RemoveAt(seqs[q], i)
      OBVIOUS
    <2>3. /\ L!Change(g, q, t) /\ x \in {q} \cup L!Members(seqs[q]) /\ kind \in L!SingleLinked
          /\ (IF x = q THEN 0 ELSE L!Place(q, x)) < Len(seqs[q])
      BY <1>4, <2>1, <2>2 DEF L!remove_after, RemoveAfter
    <2>4. i \in 1 .. Len(seqs[q]) /\ x = Cel(seqs, q, i - 1)
      <3>1. CASE x = q
        <4>1. i = 1 /\ i - 1 = 0 /\ i \in 1 .. Len(seqs[q])
          BY <1>2, <2>1, <2>3, <3>1
        <4>2. QED
          BY <3>1, <4>1 DEF Cel
      <3>2. CASE x # q
        <4>1. PICK p : p = L!Place(q, x)
          OBVIOUS
        <4>2. p \in 1 .. Len(seqs[q]) /\ seqs[q][p] = x /\ p < Len(seqs[q]) /\ i = p + 1
          BY <2>1, <2>3, <3>2, <4>1, PlaceFound
        <4>3. i - 1 = p /\ i \in 1 .. Len(seqs[q]) /\ p # 0
          BY <1>2, <4>2
        <4>4. QED
          BY <4>2, <4>3 DEF Cel
      <3>3. QED
        BY <3>1, <3>2
    <2>5. Removed(seqs[q], i, t) /\ RemoveEffect(kind, heap, g, seqs, q, i)
      BY <1>2, <2>2, <2>3, <2>4, RemoveAtRemoves, RemoveAfterEffect
    <2>6. heap' = g /\ seqs' = [seqs EXCEPT ![q] = t]
      BY <2>3 DEF L!Change
    <2>7. Sound(kind, heap', seqs')
      BY <2>4, <2>5, <2>6, RemoveStep
    <2>8. QED
      BY <2>3, <2>7 DEF L!Change
  <1>5. QED
    BY <1>3, <1>4

-----------------------------------------------------------------------------
(***************************************************************************)
(* The loops.  A loop that is at the p-th element of a list that now holds *)
(* a has seen the front of what it is due to see, and the rest of that is  *)
(* what a holds from p on (in a reverse loop: from p down).                *)
(***************************************************************************)
Ahead(a, p, seen, due) ==
  /\ Len(due) = Len(seen) + (Len(a) - p + 1)
  /\ \A i \in 1 .. Len(seen) : due[i] = seen[i]
  /\ \A j \in p .. Len(a) : due[Len(seen) + 1 + (j - p)] = a[j]

Behind(a, p, seen, due) ==
  /\ Len(due) = Len(seen) + p
  /\ \A i \in 1 .. Len(seen) : due[i] = seen[i]
  /\ \A j \in 1 .. p : due[Len(seen) + 1 + (p - j)] = a[j]

\* The loop variable at the p-th place of list q.
VarAt(k, s, q, p) == IF p \in 1 .. Len(s[q]) THEN s[q][p] ELSE EndOf(k, q)

AtPlace(k, s, l, p) ==
  /\ l.var = VarAt(k, s, l.on, p)
  /\ ~l.reverse => p \in 1 .. Len(s[l.on]) + 1 /\ Ahead(s[l.on], p, l.seen, l.due)
  /\ l.reverse  => p \in 0 .. Len(s[l.on]) /\ Behind(s[l.on], p, l.seen, l.due)

Loop == [on : Queue, reverse : BOOLEAN, safe : BOOLEAN, var : Cell \cup {NULL},
         seen : Seq(Elem), due : Seq(Elem)]

Running(k, s, l) ==
  /\ l \in Loop
  /\ l.reverse => k \in {"TAILQ", "CIRCLEQ"}
  /\ \E p \in 0 .. Len(s[l.on]) + 1 : AtPlace(k, s, l, p)

ListsInv == Sound(kind, heap, seqs) /\ (loop # NULL => Running(kind, seqs, loop))

\* A sequence that has grown by one element.
LEMMA Appended ==
  ASSUME NEW a \in Seq(Elem), NEW e \in Elem
  PROVE  /\ Append(a, e) \in Seq(Elem) /\ Len(Append(a, e)) = Len(a) + 1 /\ Len(a) \in Nat
         /\ Append(a, e)[Len(a) + 1] = e
         /\ \A j \in 1 .. Len(a) : Append(a, e)[j] = a[j]
  OBVIOUS

\* A turn of a forward loop: what was behind the element it was at is now, in
\* the list b that the body leaves, what is from r on.
LEMMA AheadTurn ==
  ASSUME NEW a \in Seq(Elem), NEW p \in 1 .. Len(a), NEW seen \in Seq(Elem), NEW due \in Seq(Elem),
         Ahead(a, p, seen, due), NEW e \in Elem, e = a[p],
         NEW b \in Seq(Elem), NEW r \in 1 .. Len(b) + 1, Len(b) - r = Len(a) - p - 1,
         \A j \in r .. Len(b) : b[j] = a[j + (p + 1 - r)]
  PROVE  Ahead(b, r, Append(seen, e), due)
  <1>1. PICK n, m, k, t : n = Len(a) /\ m = Len(b) /\ k = Len(seen) /\ t = Append(seen, e)
    OBVIOUS
  <1>2. n \in Nat /\ m \in Nat /\ k \in Nat /\ p \in 1 .. n /\ r \in 1 .. m + 1 /\ m - r = n - p - 1
    BY <1>1
  <1>3. Len(t) = k + 1 /\ t[k + 1] = e /\ \A j \in 1 .. k : t[j] = seen[j]
    BY <1>1, Appended
  <1>4. /\ Len(due) = k + (n - p + 1)
        /\ \A i \in 1 .. k : due[i] = seen[i]
        /\ \A j \in p .. n : due[k + 1 + (j - p)] = a[j]
    BY <1>1 DEF Ahead
  <1>5. Len(due) = k + 1 + (m - r + 1)
    BY <1>2, <1>4
  <1>6. \A i \in 1 .. k + 1 : due[i] = t[i]
    <2>1. \A i \in 1 .. k + 1 : i \in 1 .. k \/ i = k + 1
      BY <1>2
    <2>2. p \in p .. n /\ k + 1 + (p - p) = k + 1
      BY <1>2
    <2>3. due[k + 1] = e
      BY <1>4, <2>2
    <2>4. QED
      BY <1>3, <1>4, <2>1, <2>3
  <1>7. ASSUME NEW j \in r .. m
        PROVE  due[k + 1 + 1 + (j - r)] = b[j]
    <2>1. PICK l : l = j + (p + 1 - r)
      OBVIOUS
    <2>2. l \in p .. n /\ k + 1 + (l - p) = k + 1 + 1 + (j - r)
      BY <1>2, <2>1
    <2>3. b[j] = a[l]
      BY <1>1, <2>1
    <2>4. QED
      BY <1>4, <2>2, <2>3
  <1>8. QED
    BY <1>1, <1>3, <1>5, <1>6, <1>7 DEF Ahead

\* A turn of a reverse loop; its body leaves alone what is before the element.
LEMMA BehindTurn ==
  ASSUME NEW a \in Seq(Elem), NEW p \in 1 .. Len(a), NEW seen \in Seq(Elem), NEW due \in Seq(Elem),
         Behind(a, p, seen, due), NEW e \in Elem, e = a[p],
         NEW b, \A j \in 1 .. p - 1 : b[j] = a[j]
  PROVE  Behind(b, p - 1, Append(seen, e), due)
  <1>1. PICK n, k, t : n = Len(a) /\ k = Len(seen) /\ t = Append(seen, e)
    OBVIOUS
  <1>2. n \in Nat /\ k \in Nat /\ p \in 1 .. n
    BY <1>1
  <1>3. Len(t) = k + 1 /\ t[k + 1] = e /\ \A j \in 1 .. k : t[j] = seen[j]
    BY <1>1, Appended
  <1>4. /\ Len(due) = k + p
        /\ \A i \in 1 .. k : due[i] = seen[i]
        /\ \A j \in 1 .. p : due[k + 1 + (p - j)] = a[j]
    BY <1>1 DEF Behind
  <1>5. Len(due) = k + 1 + (p - 1)
    BY <1>2, <1>4
  <1>6. \A i \in 1 .. k + 1 : due[i] = t[i]
    <2>1. \A i \in 1 .. k + 1 : i \in 1 .. k \/ i = k + 1
      BY <1>2
    <2>2. p \in 1 .. p /\ k + 1 + (p - p) = k + 1
      BY <1>2
    <2>3. due[k + 1] = e
      BY <1>4, <2>2
    <2>4. QED
      BY <1>3, <1>4, <2>1, <2>3
  <1>7. ASSUME NEW j \in 1 .. p - 1
        PROVE  due[k + 1 + 1 + (p - 1 - j)] = b[j]
    <2>1. j \in 1 .. p /\ k + 1 + (p - j) = k + 1 + 1 + (p - 1 - j)
      BY <1>2
    <2>2. QED
      BY <1>4, <2>1
  <1>8. QED
    BY <1>1, <1>3, <1>5, <1>6, <1>7 DEF Behind

\* Where a loop goes from the i-th cell of a list: forward, and in reverse
\* for TAILQ by way of the link that the cell before points back to.
LEMMA NextFound ==
  ASSUME Sound(kind, heap, seqs), NEW q \in Queue, NEW i \in 0 .. Len(seqs[q])
  PROVE  L!NEXT(Cel(seqs, q, i)) = VarAt(kind, seqs, q, i + 1)
  <1>1. PICK n : n = Len(seqs[q])
    OBVIOUS
  <1>2. n \in Nat
    BY <1>1, CellFacts DEF Sound
  <1>3. i \in 0 .. n /\ (i < n <=> i + 1 \in 1 .. n) /\ i + 1 # 0
    BY <1>1, <1>2
  <1>4. heap.link[Cel(seqs, q, i)] = IF i < n THEN Cel(seqs, q, i + 1) ELSE EndOf(kind, q)
    BY <1>1 DEF Sound, Forward
  <1>5. QED
    BY <1>1, <1>3, <1>4 DEF VarAt, Cel, L!NEXT

LEMMA BackFound ==
  ASSUME Sound(kind, heap, seqs), kind = "TAILQ", NEW q \in Queue, NEW i \in 0 .. Len(seqs[q])
  PROVE  heap.link[heap.back[Cel(seqs, q, i)]] = VarAt(kind, seqs, q, i)
  <1>1. PICK n : n = Len(seqs[q])
    OBVIOUS
  <1>2. n \in Nat /\ i \in 0 .. n /\ Cel(seqs, q, 0) = q
    BY <1>1, CellFacts DEF Sound
  <1>3. kind \in L!HasPrev /\ kind \in L!HasLast
    BY DEF L!HasPrev, L!HasLast
  <1>4. CASE i = 0
    <2>1. heap.back[q] = Cel(seqs, q, n)
      BY <1>1, <1>3 DEF Sound, Lasts
    <2>2. n \in 0 .. n /\ ~(n < n) /\ i \notin 1 .. n
      BY <1>2, <1>4
    <2>3. heap.link[Cel(seqs, q, n)] = EndOf(kind, q)
      BY <1>1, <2>2 DEF Sound, Forward
    <2>4. QED
      BY <1>1, <1>2, <1>4, <2>1, <2>2, <2>3 DEF VarAt
  <1>5. CASE i # 0
    <2>1. i \in 1 .. n /\ i - 1 \in 0 .. n /\ i - 1 < n /\ (i - 1) + 1 = i
      BY <1>2, <1>5
    <2>2. heap.back[Cel(seqs, q, i)] = Cel(seqs, q, i - 1)
      BY <1>1, <1>3, <2>1 DEF Sound, Backward
    <2>3. heap.link[Cel(seqs, q, i - 1)] = Cel(seqs, q, i)
      BY <1>1, <2>1 DEF Sound, Forward
    <2>4. QED
      BY <1>1, <1>5, <2>1, <2>2, <2>3 DEF VarAt, Cel
  <1>6. QED
    BY <1>4, <1>5

LEMMA LastIsFound ==
  ASSUME Sound(kind, heap, seqs), kind \in L!HasLast, NEW q \in Queue
  PROVE  L!LAST(q) = VarAt(kind, seqs, q, Len(seqs[q]))
  <1>1. PICK n : n = Len(seqs[q])
    OBVIOUS
  <1>2. n \in Nat /\ Cel(seqs, q, 0) = q
    BY <1>1, CellFacts DEF Sound
  <1>3. heap.back[q] = Cel(seqs, q, n)
    BY <1>1 DEF Sound, Lasts
  <1>4. n \in 0 .. n /\ (n # 0 => n \in 1 .. n) /\ (n = 0 => n \notin 1 .. n)
    BY <1>2
  <1>5. CASE kind = "TAILQ"
    <2>1. heap.link[heap.back[Cel(seqs, q, n)]] = VarAt(kind, seqs, q, n)
      BY <1>1, <1>4, <1>5, BackFound
    <2>2. QED
      BY <1>1, <1>3, <1>5, <2>1 DEF L!LAST, L!TAILQ_PREV
  <1>6. CASE kind = "STAILQ"
    <2>1. heap.link[q] = NULL <=> n = 0
      <3>1. 0 \in 0 .. n /\ (0 < n <=> n # 0) /\ (n # 0 => 0 + 1 \in 0 .. n)
        BY <1>2
      <3>2. heap.link[q] = IF 0 < n THEN Cel(seqs, q, 0 + 1) ELSE NULL
        BY <1>1, <1>2, <1>6, <3>1 DEF Sound, Forward, EndOf
      <3>3. n # 0 => Cel(seqs, q, 0 + 1) # NULL
        BY <1>1, <3>1, CellFacts DEF Sound
      <3>4. QED
        BY <3>1, <3>2, <3>3
    <2>2. L!LAST(q) = IF n = 0 THEN NULL ELSE Cel(seqs, q, n)
      BY <1>3, <1>6, <2>1 DEF L!LAST
    <2>3. QED
      BY <1>1, <1>4, <1>6, <2>2 DEF VarAt, Cel, EndOf
  <1>7. CASE kind = "CIRCLEQ"
    <2>1. L!LAST(q) = Cel(seqs, q, n)
      BY <1>3, <1>7 DEF L!LAST
    <2>2. QED
      BY <1>1, <1>4, <1>7, <2>1 DEF VarAt, Cel, EndOf
  <1>8. QED
    BY <1>5, <1>6, <1>7 DEF L!HasLast

LEMMA PrevFound ==
  ASSUME Sound(kind, heap, seqs), kind \in {"TAILQ", "CIRCLEQ"},
         NEW q \in Queue, NEW i \in 1 .. Len(seqs[q])
  PROVE  L!PREV(Cel(seqs, q, i)) = VarAt(kind, seqs, q, i - 1)
  <1>1. PICK n : n = Len(seqs[q])
    OBVIOUS
  <1>2. n \in Nat /\ i \in 1 .. n /\ Cel(seqs, q, 0) = q
    BY <1>1, CellFacts DEF Sound
  <1>3. i - 1 \in 0 .. n /\ (i - 1 # 0 => i - 1 \in 1 .. n) /\ (i - 1 = 0 => i - 1 \notin 1 .. n)
    BY <1>2
  <1>4. heap.back[Cel(seqs, q, i)] = Cel(seqs, q, i - 1)
    BY <1>1, <1>2 DEF Sound, Backward, L!HasPrev
  <1>5. CASE kind = "TAILQ"
    <2>1. heap.link[heap.back[Cel(seqs, q, i - 1)]] = VarAt(kind, seqs, q, i - 1)
      BY <1>1, <1>3, <1>5, BackFound
    <2>2. QED
      BY <1>4, <1>5, <2>1 DEF L!PREV, L!TAILQ_PREV
  <1>6. CASE kind = "CIRCLEQ"
    <2>1. L!PREV(Cel(seqs, q, i)) = Cel(seqs, q, i - 1)
      BY <1>4, <1>6 DEF L!PREV
    <2>2. QED
      BY <1>1, <1>3, <1>6, <2>1 DEF VarAt, Cel, EndOf
  <1>7. QED
    BY <1>5, <1>6

LEMMA VarType ==
  ASSUME NEW k, NEW s, Contents(s), NEW q \in Queue, NEW p
  PROVE  /\ VarAt(k, s, q, p) \in Cell \cup {NULL}
         /\ VarAt(k, s, q, p) # EndOf(k, q) <=> p \in 1 .. Len(s[q])
  <1>1. EndOf(k, q) \in Cell \cup {NULL} /\ EndOf(k, q) \notin Elem
    BY DEF EndOf, Cell
  <1>2. p \in 1 .. Len(s[q]) => s[q][p] \in Elem
    BY CellFacts
  <1>3. QED
    BY <1>1, <1>2 DEF VarAt, Cell

\* A turn of a loop whose body leaves the list as it is, or without the
\* element the loop is at.
LEMMA LoopTurn ==
  ASSUME NEW k, NEW s, Contents(s), NEW l, Running(k, s, l),
         NEW q \in Queue, q = l.on, NEW p \in 1 .. Len(s[q]), AtPlace(k, s, l, p),
         NEW z, Contents(z), z[q] = s[q] \/ Removed(s[q], p, z[q]),
         NEW x, x = IF l.reverse THEN VarAt(k, s, q, p - 1) ELSE VarAt(k, s, q, p + 1),
         NEW g, g = [l EXCEPT !.var = x, !.seen = Append(l.seen, s[q][p])]
  PROVE  Running(k, z, g)
  <1>1. /\ l \in Loop /\ l.reverse \in BOOLEAN /\ l.seen \in Seq(Elem) /\ l.due \in Seq(Elem)
        /\ l.reverse => k \in {"TAILQ", "CIRCLEQ"}
    BY DEF Running, Loop
  <1>2. PICK n, m, a, b, e : n = Len(s[q]) /\ m = Len(z[q]) /\ a = s[q] /\ b = z[q] /\ e = s[q][p]
    OBVIOUS
  <1>3. n \in Nat /\ m \in Nat /\ p \in 1 .. n /\ a \in Seq(Elem) /\ b \in Seq(Elem) /\ e \in Elem
    BY <1>2, CellFacts
  <1>4. x \in Cell \cup {NULL}
    BY VarType
  <1>5. PICK t : t = Append(l.seen, e)
    OBVIOUS
  <1>6. t \in Seq(Elem)
    BY <1>1, <1>3, <1>5
  <1>7. g = [l EXCEPT !.var = x, !.seen = t]
    BY <1>2, <1>5
  <1>8. /\ g \in Loop /\ g.on = q /\ g.reverse = l.reverse
        /\ g.var = x /\ g.seen = t /\ g.due = l.due
    BY <1>1, <1>4, <1>6, <1>7 DEF Loop
  <1>9. \/ m = n /\ b = a
        \/ m = n - 1 /\ \A j \in 1 .. m : b[j] = IF j < p THEN a[j] ELSE a[j + 1]
    BY <1>2, <1>3 DEF Removed
  <1>10. CASE l.reverse
    <2>1. Behind(a, p, l.seen, l.due)
      BY <1>2, <1>10 DEF AtPlace
    <2>2. \A j \in 1 .. p - 1 : j \in 1 .. m /\ b[j] = a[j] /\ j < p /\ j \in 1 .. n
      BY <1>3, <1>9
    <2>3. Behind(b, p - 1, t, l.due)
      BY <1>1, <1>2, <1>3, <1>5, <2>1, <2>2, BehindTurn
    <2>4. p - 1 \in 0 .. m /\ p - 1 \in 0 .. m + 1
      BY <1>3, <1>9
    <2>5. x = VarAt(k, z, q, p - 1)
      <3>1. p - 1 \in 1 .. m <=> p - 1 \in 1 .. n
        BY <1>3, <1>9
      <3>2. p - 1 \in 1 .. n => p - 1 \in 1 .. p - 1
        BY <1>3
      <3>3. p - 1 \in 1 .. n => b[p - 1] = a[p - 1]
        BY <2>2, <3>2
      <3>4. QED
        BY <1>2, <1>10, <3>1, <3>3 DEF VarAt
    <2>6. AtPlace(k, z, g, p - 1)
      BY <1>2, <1>8, <1>10, <2>3, <2>4, <2>5 DEF AtPlace
    <2>7. QED
      BY <1>1, <1>2, <1>8, <2>4, <2>6 DEF Running
  <1>11. CASE ~l.reverse
    <2>1. Ahead(a, p, l.seen, l.due)
      BY <1>2, <1>11 DEF AtPlace
    <2>2. PICK r : r = IF m = n THEN p + 1 ELSE p
      OBVIOUS
    <2>3. /\ r \in 1 .. m + 1 /\ r \in 0 .. m + 1 /\ m - r = n - p - 1
          /\ \A j \in r .. m : b[j] = a[j + (p + 1 - r)]
          /\ r \in 1 .. m <=> p + 1 \in 1 .. n
          /\ r \in 1 .. m => b[r] = a[p + 1]
      <3>1. CASE m = n /\ b = a
        <4>1. r = p + 1
          BY <2>2, <3>1
        <4>2. \A j \in r .. m : j + (p + 1 - r) = j
          BY <1>3, <4>1
        <4>3. r \in 1 .. m + 1 /\ r \in 0 .. m + 1 /\ m - r = n - p - 1 /\ (r \in 1 .. m <=> p + 1 \in 1 .. n)
          BY <1>3, <3>1, <4>1
        <4>4. QED
          BY <3>1, <4>1, <4>2, <4>3
      <3>2. CASE m = n - 1 /\ \A j \in 1 .. m : b[j] = IF j < p THEN a[j] ELSE a[j + 1]
        <4>1. r = p
          BY <1>3, <2>2, <3>2
        <4>2. \A j \in r .. m : j + (p + 1 - r) = j + 1 /\ j \in 1 .. m /\ ~(j < p)
          BY <1>3, <4>1
        <4>3. r \in 1 .. m + 1 /\ r \in 0 .. m + 1 /\ m - r = n - p - 1 /\ (r \in 1 .. m <=> p + 1 \in 1 .. n)
          BY <1>3, <3>2, <4>1
        <4>4. ~(p < p)
          BY <1>3
        <4>5. QED
          BY <3>2, <4>1, <4>2, <4>3, <4>4
      <3>3. QED
        BY <1>9, <3>1, <3>2
    <2>4. Ahead(b, r, t, l.due)
      <3>1. /\ p \in 1 .. Len(a) /\ e = a[p] /\ r \in 1 .. Len(b) + 1
            /\ Len(b) - r = Len(a) - p - 1
            /\ \A j \in r .. Len(b) : b[j] = a[j + (p + 1 - r)]
        BY <1>2, <2>3
      <3>2. Ahead(b, r, Append(l.seen, e), l.due)
        BY <1>1, <1>3, <2>1, <3>1, AheadTurn
      <3>3. QED
        BY <1>5, <3>2
    <2>5. x = VarAt(k, z, q, r)
      BY <1>2, <1>11, <2>3 DEF VarAt
    <2>6. AtPlace(k, z, g, r)
      BY <1>2, <1>8, <1>11, <2>3, <2>4, <2>5 DEF AtPlace
    <2>7. QED
      BY <1>1, <1>2, <1>8, <2>3, <2>6 DEF Running
  <1>12. QED
    BY <1>1, <1>10, <1>11

\* The start of a FOREACH loop.
LEMMA ForeachStep ==
  ASSUME Sound(kind, heap, seqs), NEW q \in Queue, NEW reverse \in BOOLEAN, NEW safe \in BOOLEAN,
         L!foreach(q, reverse, safe)
  PROVE  Running(kind, seqs, loop')
  <1>1. Contents(seqs) /\ kind \in L!Kind
    BY DEF Sound
  <1>2. PICK n, a : n = Len(seqs[q]) /\ a = seqs[q]
    OBVIOUS
  <1>3. n \in Nat /\ n = Len(a) /\ a \in Seq(Elem) /\ \A j \in 1 .. n : a[j] \in Elem
    BY <1>1, <1>2, CellFacts
  <1>4. PICK x, d, g : /\ x = (IF reverse THEN L!LAST(q) ELSE L!NEXT(q))
                       /\ d = (IF reverse THEN L!X!Reverse(seqs[q]) ELSE seqs[q])
                       /\ g = loop'
    OBVIOUS
  <1>5. /\ g = [on |-> q, reverse |-> reverse, safe |-> safe, var |-> x, seen |-> << >>, due |-> d]
        /\ reverse => kind \in {"TAILQ", "CIRCLEQ"}
    BY <1>4 DEF L!foreach
  <1>6. x = VarAt(kind, seqs, q, IF reverse THEN n ELSE 1)
    <2>1. CASE reverse
      <3>1. kind \in L!HasLast
        BY <1>5, <2>1 DEF L!HasLast
      <3>2. QED
        BY <1>2, <1>4, <2>1, <3>1, LastIsFound
    <2>2. CASE ~reverse
      <3>1. 0 \in 0 .. Len(seqs[q]) /\ Cel(seqs, q, 0) = q /\ 0 + 1 = 1
        BY <1>1, CellFacts
      <3>2. L!NEXT(q) = VarAt(kind, seqs, q, 1)
        BY <3>1, NextFound
      <3>3. QED
        BY <1>4, <2>2, <3>2
    <2>3. QED
      BY <2>1, <2>2
  <1>7. /\ d \in Seq(Elem) /\ Len(d) = n
        /\ \A j \in 1 .. n : d[IF reverse THEN 1 + (n - j) ELSE j] = a[j]
    <2>1. CASE reverse
      <3>1. d = [i \in 1 .. n |-> a[(n - i) + 1]]
        BY <1>2, <1>4, <2>1 DEF L!X!Reverse
      <3>2. \A i \in 1 .. n : (n - i) + 1 \in 1 .. n
        BY <1>3
      <3>3. d \in [1 .. n -> Elem]
        BY <1>3, <3>1, <3>2
      <3>4. d \in Seq(Elem) /\ Len(d) = n
        BY <1>3, <3>3
      <3>5. \A j \in 1 .. n : 1 + (n - j) \in 1 .. n /\ (n - (1 + (n - j))) + 1 = j
        BY <1>3
      <3>6. QED
        BY <2>1, <3>1, <3>4, <3>5
    <2>2. CASE ~reverse
      BY <1>2, <1>3, <1>4, <2>2
    <2>3. QED
      BY <2>1, <2>2
  <1>8. x \in Cell \cup {NULL} /\ << >> \in Seq(Elem) /\ Len(<< >>) = 0
    BY <1>1, <1>6, VarType
  <1>9. /\ g \in Loop /\ g.on = q /\ g.reverse = reverse /\ g.var = x
        /\ g.seen = << >> /\ g.due = d
    BY <1>5, <1>7, <1>8 DEF Loop
  <1>10. CASE reverse
    <2>1. \A j \in 1 .. n : d[0 + 1 + (n - j)] = a[j]
      <3>1. \A j \in 1 .. n : 0 + 1 + (n - j) = 1 + (n - j)
        BY <1>3
      <3>2. QED
        BY <1>7, <1>10, <3>1
    <2>2. Len(d) = 0 + n /\ \A i \in 1 .. 0 : FALSE
      BY <1>3, <1>7
    <2>3. Behind(a, n, << >>, d)
      BY <1>8, <2>1, <2>2 DEF Behind
    <2>4. n \in 0 .. n /\ n \in 0 .. n + 1
      BY <1>3
    <2>5. AtPlace(kind, seqs, g, n)
      BY <1>2, <1>6, <1>9, <1>10, <2>3, <2>4 DEF AtPlace
    <2>6. QED
      BY <1>2, <1>4, <1>5, <1>9, <2>4, <2>5 DEF Running
  <1>11. CASE ~reverse
    <2>1. \A j \in 1 .. n : d[0 + 1 + (j - 1)] = a[j]
      <3>1. \A j \in 1 .. n : 0 + 1 + (j - 1) = j
        BY <1>3
      <3>2. QED
        BY <1>7, <1>11, <3>1
    <2>2. Len(d) = 0 + (n - 1 + 1) /\ \A i \in 1 .. 0 : FALSE
      BY <1>3, <1>7
    <2>3. Ahead(a, 1, << >>, d)
      BY <1>3, <1>8, <2>1, <2>2 DEF Ahead
    <2>4. 1 \in 1 .. n + 1 /\ 1 \in 0 .. n + 1
      BY <1>3
    <2>5. AtPlace(kind, seqs, g, 1)
      BY <1>2, <1>6, <1>9, <1>11, <2>3, <2>4 DEF AtPlace
    <2>6. QED
      BY <1>2, <1>4, <1>5, <1>9, <1>11, <2>4, <2>5 DEF Running
  <1>12. QED
    BY <1>10, <1>11

\* A turn of a loop.
LEMMA IterateStep ==
  ASSUME Sound(kind, heap, seqs), Running(kind, seqs, loop), L!Inside,
         NEW removes \in BOOLEAN, L!iterate(removes)
  PROVE  Sound(kind, heap', seqs') /\ Running(kind, seqs', loop') /\ kind' = kind
  <1>1. PICK l, q, e : l = loop /\ q = l.on /\ e = l.var
    OBVIOUS
  <1>2. Contents(seqs) /\ Running(kind, seqs, l) /\ q \in Queue /\ l.reverse \in BOOLEAN
    BY <1>1 DEF Sound, Running, Loop
  <1>3. PICK p \in 0 .. Len(seqs[q]) + 1 : AtPlace(kind, seqs, l, p)
    BY <1>1, <1>2 DEF Running
  <1>4. e = VarAt(kind, seqs, q, p) /\ e # EndOf(kind, q)
    BY <1>1, <1>3 DEF AtPlace, L!Inside, L!End, EndOf
  <1>5. p \in 1 .. Len(seqs[q])
    BY <1>2, <1>4, VarType
  <1>6. e = seqs[q][p] /\ e = Cel(seqs, q, p) /\ seqs[q] \in Seq(Elem) /\ p \in 0 .. Len(seqs[q])
    <2>1. Len(seqs[q]) \in Nat /\ seqs[q] \in Seq(Elem)
      BY <1>2, CellFacts
    <2>2. p # 0 /\ p \in 0 .. Len(seqs[q])
      BY <1>5, <2>1
    <2>3. QED
      BY <1>4, <1>5, <2>1, <2>2 DEF VarAt, Cel
  <1>7. PICK x : x = L!Advance(e)
    OBVIOUS
  <1>8. x = IF l.reverse THEN VarAt(kind, seqs, q, p - 1) ELSE VarAt(kind, seqs, q, p + 1)
    <2>1. CASE l.reverse
      <3>1. kind \in {"TAILQ", "CIRCLEQ"}
        BY <1>2, <2>1 DEF Running
      <3>2. L!PREV(e) = VarAt(kind, seqs, q, p - 1)
        BY <1>2, <1>5, <1>6, <3>1, PrevFound
      <3>3. QED
        BY <1>1, <1>7, <2>1, <3>2 DEF L!Advance
    <2>2. CASE ~l.reverse
      <3>1. L!NEXT(e) = VarAt(kind, seqs, q, p + 1)
        BY <1>2, <1>6, NextFound
      <3>2. QED
        BY <1>1, <1>7, <2>2, <3>1 DEF L!Advance
    <2>3. QED
      BY <2>1, <2>2
  <1>9. PICK g, h, z : g = loop' /\ h = heap' /\ z = seqs'
    OBVIOUS
  <1>10. g = [l EXCEPT !.var = x, !.seen = Append(l.seen, seqs[q][p])]
    BY <1>1, <1>6, <1>7, <1>9 DEF L!iterate
  <1>11. kind' = kind
    BY DEF L!iterate
  <1>12. CASE ~removes
    <2>1. z = seqs /\ h = heap
      BY <1>1, <1>9, <1>12 DEF L!iterate
    <2>2. z[q] = seqs[q] \/ Removed(seqs[q], p, z[q])
      BY <2>1
    <2>3. Running(kind, z, g)
      BY <1>1, <1>2, <1>3, <1>5, <1>8, <1>10, <2>1, <2>2, LoopTurn
    <2>4. QED
      BY <1>9, <1>11, <2>1, <2>3
  <1>13. CASE removes
    <2>1. e \in L!Members(seqs[q])
      BY <1>5, <1>6 DEF L!Members
    <2>2. L!Place(q, e) = p
      <3>1. PICK i : i = L!Place(q, e)
        OBVIOUS
      <3>2. i \in 1 .. Len(seqs[q]) /\ seqs[q][i] = e
        BY <1>2, <2>1, <3>1, PlaceFound
      <3>3. i = p
        BY <1>2, <1>5, <1>6, <3>2 DEF Contents
      <3>4. QED
        BY <3>1, <3>3
    <2>3. PICK t, f : t = L!X!RemoveAt(seqs[q], p) /\ f = L!REMOVE(q, e)
      OBVIOUS
    <2>4. seqs' = [seqs EXCEPT ![q] = t] /\ heap' = f
      BY <1>1, <1>13, <2>2, <2>3 DEF L!iterate
    <2>5. Removed(seqs[q], p, t) /\ RemoveEffect(kind, heap, f, seqs, q, p)
      BY <1>2, <1>5, <1>6, <2>3, RemoveAtRemoves, RemoveEffects
    <2>6. Sound(kind, heap', seqs')
      BY <1>2, <1>5, <2>4, <2>5, RemoveStep
    <2>7. Contents(z) /\ z[q] = t
      <3>1. Sound(kind, h, z)
        BY <1>9, <2>6
      <3>2. seqs \in [Queue -> Seq(Elem)]
        BY <1>2 DEF Contents
      <3>3. QED
        BY <1>2, <1>9, <2>4, <3>1, <3>2 DEF Sound
    <2>8. z[q] = seqs[q] \/ Removed(seqs[q], p, z[q])
      BY <2>5, <2>7
    <2>9. Running(kind, z, g)
      BY <1>1, <1>2, <1>3, <1>5, <1>8, <1>10, <2>7, <2>8, LoopTurn
    <2>10. QED
      BY <1>9, <1>11, <2>6, <2>9
  <1>14. QED
    BY <1>12, <1>13

-----------------------------------------------------------------------------
(***************************************************************************)
(* The specification.                                                      *)
(***************************************************************************)
LEMMA ListsInit ==
  ASSUME MCInit
  PROVE  ListsInv
  <1>1. /\ kind \in L!Kind /\ loop = NULL /\ heap = L!INIT(kind)
        /\ seqs = [q \in Queue |-> << >>]
    BY DEF MCInit, L!Init
  <1>2. PICK b, f : /\ f = [x \in Cell |-> IF kind = "CIRCLEQ" /\ x \in Queue THEN x ELSE NULL]
                    /\ b = [x \in Cell |-> IF kind \in L!HasLast /\ x \in Queue THEN x ELSE NULL]
    OBVIOUS
  <1>3. heap = [link |-> f, back |-> b]
    BY <1>1, <1>2 DEF L!INIT, L!Cell, Cell
  <1>4. f \in [Cell -> Cell \cup {NULL}] /\ b \in [Cell -> Cell \cup {NULL}]
    BY <1>2
  <1>5. heap \in Heap /\ heap.link = f /\ heap.back = b
    BY <1>3, <1>4, HeapFields
  <1>6. /\ seqs \in [Queue -> Seq(Elem)]
        /\ \A q \in Queue : Len(seqs[q]) = 0 /\ Cel(seqs, q, 0) = q
    BY <1>1 DEF Cel
  <1>7. /\ \A i \in 0 .. 0 : i = 0 /\ ~(i < 0)
        /\ \A i \in 1 .. 0 : FALSE
    OBVIOUS
  <1>8. Contents(seqs)
    BY <1>6, <1>7 DEF Contents
  <1>9. \A q \in Queue : q \in Cell
    BY DEF Cell
  <1>10. Forward(kind, heap, seqs)
    <2> SUFFICES ASSUME NEW q \in Queue, NEW i \in 0 .. Len(seqs[q])
                 PROVE  heap.link[Cel(seqs, q, i)] = IF i < Len(seqs[q]) THEN Cel(seqs, q, i + 1) ELSE EndOf(kind, q)
      BY DEF Forward
    <2>1. i = 0 /\ ~(i < Len(seqs[q])) /\ Cel(seqs, q, i) = q
      BY <1>6, <1>7
    <2>2. heap.link[q] = EndOf(kind, q)
      BY <1>2, <1>5, <1>9 DEF EndOf
    <2>3. QED
      BY <2>1, <2>2
  <1>11. Backward(kind, heap, seqs)
    BY <1>6, <1>7 DEF Backward
  <1>12. Lasts(kind, heap, seqs)
    <2> SUFFICES ASSUME kind \in L!HasLast, NEW q \in Queue
                 PROVE  heap.back[q] = Cel(seqs, q, Len(seqs[q]))
      BY DEF Lasts
    <2>1. q \in Cell
      BY <1>9
    <2>2. b[q] = q
      BY <1>2, <2>1
    <2>3. QED
      BY <1>5, <1>6, <2>2
  <1>13. Trashed(kind, heap, seqs)
    BY <1>2, <1>5 DEF Trashed, Cell
  <1>14. QED
    BY <1>1, <1>5, <1>8, <1>10, <1>11, <1>12, <1>13 DEF ListsInv, Sound

LEMMA ListsNext ==
  ASSUME ListsInv, L!Next
  PROVE  ListsInv'
  <1>1. Sound(kind, heap, seqs) /\ (loop # NULL => Running(kind, seqs, loop))
    BY DEF ListsInv
  <1>2. SUFFICES /\ kind' = kind /\ Sound(kind, heap', seqs')
                 /\ loop' = NULL \/ Running(kind, seqs', loop')
    <2>1. ASSUME kind' = kind, Sound(kind, heap', seqs'), loop' = NULL \/ Running(kind, seqs', loop')
          PROVE  ListsInv'
      BY <2>1 DEF ListsInv
    <2>2. QED
      BY <2>1
  <1>3. ASSUME NEW q \in Queue, NEW e \in Elem,
               \/ L!insert_head(q, e) \/ L!insert_tail(q, e)
               \/ \E x \in Elem : L!insert_after(q, x, e) \/ L!insert_before(q, x, e)
        PROVE  kind' = kind /\ Sound(kind, heap', seqs') /\ loop' = NULL
    BY <1>1, <1>3, InsertSteps
  <1>4. ASSUME NEW q \in Queue,
               \/ \E x \in Elem : L!remove(q, x)
               \/ \E x \in Cell : L!remove_after(q, x)
        PROVE  kind' = kind /\ Sound(kind, heap', seqs') /\ loop' = NULL
    BY <1>1, <1>4, RemoveSteps
  <1>5. ASSUME NEW q \in Queue, NEW r \in Queue, L!concat(q, r) \/ L!swap(q, r)
        PROVE  kind' = kind /\ Sound(kind, heap', seqs') /\ loop' = NULL
    <2>1. Sound(kind, heap', seqs')
      BY <1>1, <1>5, ConcatStep, SwapStep
    <2>2. kind' = kind /\ loop' = NULL
      BY <1>5 DEF L!concat, L!swap
    <2>3. QED
      BY <2>1, <2>2
  <1>6. ASSUME NEW q \in Queue, NEW reverse \in BOOLEAN, NEW safe \in BOOLEAN,
               L!foreach(q, reverse, safe)
        PROVE  kind' = kind /\ Sound(kind, heap', seqs') /\ Running(kind, seqs', loop')
    <2>1. kind' = kind /\ heap' = heap /\ seqs' = seqs
      BY <1>6 DEF L!foreach
    <2>2. Running(kind, seqs, loop')
      BY <1>1, <1>6, ForeachStep
    <2>3. QED
      BY <1>1, <2>1, <2>2
  <1>7. ASSUME L!Inside, NEW removes \in BOOLEAN, L!iterate(removes)
        PROVE  kind' = kind /\ Sound(kind, heap', seqs') /\ Running(kind, seqs', loop')
    <2>1. Running(kind, seqs, loop)
      BY <1>1, <1>7 DEF L!Inside
    <2>2. QED
      BY <1>1, <1>7, <2>1, IterateStep
  <1>8. CASE L!finish
    BY <1>1, <1>8 DEF L!finish
  <1>9. L!Cell = Cell
    BY DEF L!Cell, Cell
  <1>10. QED
    BY <1>3, <1>4, <1>5, <1>6, <1>7, <1>8, <1>9 DEF L!Next

\* The invariant implies the properties that the run checks.
LEMMA ListsInvSound ==
  ASSUME ListsInv
  PROVE  L!ListsSound
  <1>1. Sound(kind, heap, seqs)
    BY DEF ListsInv
  <1>2. Contents(seqs)
    BY <1>1 DEF Sound
  <1>3. /\ \A q \in Queue : L!End(q) = EndOf(kind, q)
        /\ \A q \in Queue : \A i \in Int : L!At(q, i) = Cel(seqs, q, i)
    BY DEF L!End, EndOf, L!At, Cel
  <1>4. L!ListsHold
    <2>1. ASSUME NEW q \in Queue
          PROVE  /\ \A i \in 0 .. Len(seqs[q]) :
                      heap.link[L!At(q, i)] = IF i < Len(seqs[q]) THEN L!At(q, i + 1) ELSE L!End(q)
                 /\ kind \in L!HasPrev =>
                      \A i \in 1 .. Len(seqs[q]) : heap.back[L!At(q, i)] = L!At(q, i - 1)
                 /\ kind \in L!HasLast => heap.back[q] = L!At(q, Len(seqs[q]))
      <3>1. Len(seqs[q]) \in Nat
        BY <1>2, CellFacts
      <3>2. \A i \in 0 .. Len(seqs[q]) : i \in Int /\ i + 1 \in Int /\ i - 1 \in Int
        BY <3>1
      <3>3. \A i \in 1 .. Len(seqs[q]) : i \in 0 .. Len(seqs[q])
        BY <3>1
      <3>4. \A i \in 0 .. Len(seqs[q]) :
              heap.link[L!At(q, i)] = IF i < Len(seqs[q]) THEN L!At(q, i + 1) ELSE L!End(q)
        BY <1>1, <1>3, <3>2 DEF Sound, Forward
      <3>5. kind \in L!HasPrev =>
              \A i \in 1 .. Len(seqs[q]) : heap.back[L!At(q, i)] = L!At(q, i - 1)
        BY <1>1, <1>3, <3>2, <3>3 DEF Sound, Backward
      <3>6. kind \in L!HasLast => heap.back[q] = L!At(q, Len(seqs[q]))
        BY <1>1, <1>3, <3>1 DEF Sound, Lasts
      <3>7. QED
        BY <3>4, <3>5, <3>6
    <2>2. QED
      BY <2>1 DEF L!ListsHold
  <1>5. L!LastFound
    <2> SUFFICES ASSUME kind \in L!HasLast, NEW q \in Queue
                 PROVE  L!LAST(q) = IF seqs[q] = << >> THEN L!End(q) ELSE L!X!Last(seqs[q])
      BY DEF L!LastFound
    <2>1. L!LAST(q) = VarAt(kind, seqs, q, Len(seqs[q]))
      BY <1>1, LastIsFound
    <2>2. Len(seqs[q]) \in Nat /\ seqs[q] \in Seq(Elem)
      BY <1>2, CellFacts
    <2>3. seqs[q] = << >> <=> Len(seqs[q]) = 0
      BY <2>2
    <2>4. Len(seqs[q]) \in 1 .. Len(seqs[q]) <=> Len(seqs[q]) # 0
      BY <2>2
    <2>5. QED
      BY <1>3, <2>1, <2>3, <2>4 DEF VarAt, L!X!Last
  <1>6. QED
    BY <1>4, <1>5 DEF L!ListsSound

\* Sequences with the same elements are equal.
LEMMA SameElements ==
  ASSUME NEW a \in Seq(Elem), NEW b \in Seq(Elem), Len(a) = Len(b),
         \A i \in 1 .. Len(a) : a[i] = b[i]
  PROVE  a = b
  OBVIOUS

LEMMA ListsInvLoops ==
  ASSUME ListsInv
  PROVE  L!LoopsVisitAll
  <1> SUFFICES ASSUME loop # NULL
               PROVE  /\ L!X!IsPrefix(loop.seen, loop.due)
                      /\ L!Inside \/ loop.seen = loop.due
    BY DEF L!LoopsVisitAll
  <1>1. Contents(seqs) /\ Running(kind, seqs, loop)
    BY DEF ListsInv, Sound
  <1>2. PICK q, t, d, k, m : q = loop.on /\ t = loop.seen /\ d = loop.due /\ k = Len(t) /\ m = Len(d)
    OBVIOUS
  <1>3. q \in Queue /\ t \in Seq(Elem) /\ d \in Seq(Elem) /\ loop.reverse \in BOOLEAN
    BY <1>1, <1>2 DEF Running, Loop
  <1>4. PICK p \in 0 .. Len(seqs[q]) + 1 : AtPlace(kind, seqs, loop, p)
    BY <1>1, <1>2 DEF Running
  <1>5. Len(seqs[q]) \in Nat /\ k \in Nat /\ m \in Nat
    BY <1>1, <1>2, <1>3, CellFacts
  <1>6. \A i \in 1 .. k : d[i] = t[i]
    BY <1>2, <1>3, <1>4 DEF AtPlace, Ahead, Behind
  <1>7. \/ ~loop.reverse /\ p \in 1 .. Len(seqs[q]) + 1 /\ m = k + (Len(seqs[q]) - p + 1)
        \/ loop.reverse /\ p \in 0 .. Len(seqs[q]) /\ m = k + p
    BY <1>2, <1>3, <1>4 DEF AtPlace, Ahead, Behind
  <1>8. k <= m /\ (p \notin 1 .. Len(seqs[q]) => k = m)
    BY <1>5, <1>7
  <1>9. L!X!IsPrefix(t, d)
    <2>1. /\ SubSeq(t, 1, k) \in Seq(Elem) /\ Len(SubSeq(t, 1, k)) = k
          /\ \A i \in 1 .. k : SubSeq(t, 1, k)[i] = t[i]
      <3>1. 1 \in Int /\ k \in Int /\ 1 <= 1 /\ k <= Len(t) /\ 1 <= k + 1 /\ k - 1 + 1 = k
        BY <1>2, <1>5
      <3>2. \A i \in 1 .. k : 1 + i - 1 = i
        BY <1>5
      <3>3. QED
        BY <1>3, <3>1, <3>2, Part
    <2>2. /\ SubSeq(d, 1, k) \in Seq(Elem) /\ Len(SubSeq(d, 1, k)) = k
          /\ \A i \in 1 .. k : SubSeq(d, 1, k)[i] = d[i]
      <3>1. 1 \in Int /\ k \in Int /\ 1 <= 1 /\ k <= Len(d) /\ 1 <= k + 1 /\ k - 1 + 1 = k
        BY <1>2, <1>5, <1>8
      <3>2. \A i \in 1 .. k : 1 + i - 1 = i
        BY <1>5
      <3>3. QED
        BY <1>3, <3>1, <3>2, Part
    <2>3. SubSeq(t, 1, k) = SubSeq(d, 1, k)
      BY <1>6, <2>1, <2>2, SameElements
    <2>4. QED
      BY <1>2, <1>8, <2>3 DEF L!X!IsPrefix
  <1>10. CASE p \in 1 .. Len(seqs[q])
    <2>1. loop.var = VarAt(kind, seqs, q, p)
      BY <1>2, <1>4 DEF AtPlace
    <2>2. loop.var # EndOf(kind, q)
      BY <1>1, <1>3, <1>10, <2>1, VarType
    <2>3. L!Inside
      BY <1>2, <2>2 DEF L!Inside, L!End, EndOf
    <2>4. QED
      BY <1>2, <1>9, <2>3
  <1>11. CASE p \notin 1 .. Len(seqs[q])
    <2>1. t = d
      BY <1>2, <1>3, <1>6, <1>8, <1>11, SameElements
    <2>2. QED
      BY <1>2, <1>9, <2>1
  <1>12. QED
    BY <1>10, <1>11

\* The invariant of the containers' specification: the lists keep theirs
\* whichever container takes the step.
LEMMA ListsAlways == MCSpec => []ListsInv
  <1>1. MCInit => ListsInv
    BY ListsInit
  <1>2. ListsInv /\ [MCNext]_<<part, vars, treevars, listvars>> => ListsInv'
    <2> SUFFICES ASSUME ListsInv, [MCNext]_<<part, vars, treevars, listvars>>
                 PROVE  ListsInv'
      OBVIOUS
    <2>1. CASE UNCHANGED listvars
      BY <2>1 DEF listvars, ListsInv
    <2>2. CASE L!Next
      BY <2>2, ListsNext
    <2>3. QED
      BY <2>1, <2>2 DEF MCNext
  <1>3. QED
    BY <1>1, <1>2, PTL DEF MCSpec

\* For every set of heads and elements and after every sequence of the macros
\* of cs_queue.h: the pointers of every SLIST, STAILQ, LIST, TAILQ and CIRCLEQ
\* spell out, forward and backward, what was inserted and not removed, and
\* LAST finds the last element through them.
THEOREM ListsAreSound == MCSpec => []ListsSound
  <1>1. ListsInv => ListsSound
    BY ListsInvSound DEF ListsSound
  <1>2. QED
    BY <1>1, ListsAlways, PTL

\* A FOREACH loop of any kind, in either direction, visits every element once
\* and in order, also when the body of a SAFE loop removes (and thereby
\* trashes) the element it is at.
THEOREM LoopsVisitEverything == MCSpec => []LoopsVisitAll
  <1>1. ListsInv => LoopsVisitAll
    BY ListsInvLoops DEF LoopsVisitAll
  <1>2. QED
    BY <1>1, ListsAlways, PTL
=============================================================================
