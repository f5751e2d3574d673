-------------------------- MODULE TailQueueProofs --------------------------
(***************************************************************************)
(* What each macro of module TailQueue does to the sequence a queue holds, *)
(* and that it leaves every other queue alone.                             *)
(***************************************************************************)
EXTENDS TailQueue, TLAPS

\* Elementary facts about sequences that the provers need spelled out.
LEMMA SeqFacts ==
  ASSUME NEW S, NEW s \in Seq(S)
  PROVE  /\ Len(s) \in Nat
         /\ s = << >> <=> Len(s) = 0
         /\ s # << >> => /\ Len(s) > 0
                         /\ 1 \in 1 .. Len(s)
                         /\ Head(s) = s[1]
                         /\ Head(s) \in S
                         /\ Len(s) # 1 => 2 \in 1 .. Len(s) /\ s[2] \in S
  <1>1. Len(s) \in Nat /\ (s = << >> <=> Len(s) = 0)
    OBVIOUS
  <1>2. \A i \in 1 .. Len(s) : s[i] \in S
    OBVIOUS
  <1>3. s # << >> => Head(s) = s[1]
    OBVIOUS
  <1>4. s # << >> => /\ Len(s) > 0
                     /\ 1 \in 1 .. Len(s)
                     /\ Len(s) # 1 => 2 \in 1 .. Len(s)
    <2>1. \A n \in Nat : n # 0 => n > 0 /\ 1 \in 1 .. n /\ (n # 1 => 2 \in 1 .. n)
      OBVIOUS
    <2>2. QED
      BY <1>1, <2>1
  <1>5. QED
    BY <1>1, <1>2, <1>3, <1>4

\* The members of a sequence after an element is appended, put in front, or
\* removed from the front.
LEMMA MembersFacts ==
  ASSUME NEW s \in Seq(Elem), NEW e \in Elem
  PROVE  /\ Members(<< >>) = {}
         /\ Members(s) \subseteq Elem
         /\ Members(Append(s, e)) = Members(s) \cup {e}
         /\ Members(<<e>> \o s) = Members(s) \cup {e}
         /\ s # << >> => Head(s) \in Members(s)
         /\ s # << >> /\ Distinct(s) => Members(Tail(s)) = Members(s) \ {Head(s)}
  <1>1. Members(<< >>) = {} /\ Members(s) \subseteq Elem
    BY DEF Members
  <1>2. Members(Append(s, e)) = Members(s) \cup {e}
    <2>1. /\ Len(Append(s, e)) = Len(s) + 1 /\ Append(s, e)[Len(s) + 1] = e
          /\ \A i \in 1 .. Len(s) : Append(s, e)[i] = s[i]
      OBVIOUS
    <2> DEFINE t == Append(s, e)
    <2> HIDE DEF t
    <2>2. \A i \in 1 .. Len(s) + 1 : i = Len(s) + 1 \/ i \in 1 .. Len(s)
      OBVIOUS
    <2>3. \A i \in 1 .. Len(s) : i \in 1 .. Len(s) + 1
      OBVIOUS
    <2>4. Len(s) + 1 \in 1 .. Len(s) + 1
      OBVIOUS
    <2>5. Members(t) \subseteq Members(s) \cup {e}
      BY <2>1, <2>2 DEF Members, t
    <2>6. Members(s) \cup {e} \subseteq Members(t)
      BY <2>1, <2>3, <2>4 DEF Members, t
    <2>7. QED
      BY <2>5, <2>6 DEF t
  <1>3. Members(<<e>> \o s) = Members(s) \cup {e}
    <2> DEFINE t == <<e>> \o s
    <2>1. /\ Len(t) = Len(s) + 1 /\ t[1] = e
          /\ \A i \in 1 .. Len(s) : t[i + 1] = s[i]
      OBVIOUS
    <2> HIDE DEF t
    <2>2. \A i \in 1 .. Len(s) + 1 : i = 1 \/ (i - 1 \in 1 .. Len(s) /\ (i - 1) + 1 = i)
      OBVIOUS
    <2>3. \A i \in 1 .. Len(s) : i + 1 \in 1 .. Len(s) + 1
      OBVIOUS
    <2>4. 1 \in 1 .. Len(s) + 1
      OBVIOUS
    <2>5. Members(t) \subseteq Members(s) \cup {e}
      <3>1. \A i \in 1 .. Len(t) : t[i] = e \/ \E k \in 1 .. Len(s) : t[i] = s[k]
        BY <2>1, <2>2
      <3>2. QED
        BY <3>1 DEF Members
    <2>6. Members(s) \cup {e} \subseteq Members(t)
      BY <2>1, <2>3, <2>4 DEF Members
    <2>7. QED
      BY <2>5, <2>6 DEF t
  <1>4. s # << >> => Head(s) \in Members(s)
    BY SeqFacts DEF Members
  <1>5. ASSUME s # << >>, Distinct(s)
        PROVE  Members(Tail(s)) = Members(s) \ {Head(s)}
    <2> DEFINE t == Tail(s)
    <2>1. /\ Len(t) = Len(s) - 1 /\ \A i \in 1 .. Len(t) : t[i] = s[i + 1]
          /\ Head(s) = s[1] /\ 1 \in 1 .. Len(s) /\ Len(s) \in Nat
      BY <1>5, SeqFacts
    <2> HIDE DEF t
    <2>2. \A i \in 1 .. Len(t) : i + 1 \in 1 .. Len(s) /\ i + 1 # 1
      BY <2>1
    <2>3. \A i \in 1 .. Len(s) : i = 1 \/ (i - 1 \in 1 .. Len(t) /\ (i - 1) + 1 = i)
      BY <2>1
    <2>4. Members(t) \subseteq Members(s) \ {Head(s)}
      BY <1>5, <2>1, <2>2 DEF Members, Distinct
    <2>5. Members(s) \ {Head(s)} \subseteq Members(t)
      <3>1. \A i \in 1 .. Len(s) : s[i] = Head(s) \/ \E k \in 1 .. Len(t) : s[i] = t[k]
        BY <2>1, <2>3
      <3>2. QED
        BY <3>1 DEF Members
    <2>6. QED
      BY <2>4, <2>5 DEF t
  <1>6. QED
    BY <1>1, <1>2, <1>3, <1>4, <1>5

\* TAILQ_INIT leaves every queue holding the empty sequence.
LEMMA InitHolds ==
  /\ TAILQ_INIT \in TailQueueType
  /\ \A q \in Queue : Holds(TAILQ_INIT, q, << >>)
  BY CellAssumption DEF TAILQ_INIT, TailQueueType, Cell, Holds, Linked, Distinct

\* A queue that holds a sequence never makes TAILQ_INSERT_TAIL or TAILQ_REMOVE
\* store through a NULL pointer, and TAILQ_FIRST is the front of the sequence.
LEMMA HoldsNoFault ==
  ASSUME NEW tq \in TailQueueType, NEW q \in Queue, NEW s \in Seq(Elem),
         Holds(tq, q, s)
  PROVE  /\ ~InsertTailFaults(tq, q)
         /\ TAILQ_EMPTY(tq, q) <=> s = << >>
         /\ s # << >> => /\ TAILQ_FIRST(tq, q) = Head(s)
                         /\ TAILQ_FIRST(tq, q) \in Elem
                         /\ ~RemoveFaults(tq, TAILQ_FIRST(tq, q))
  BY CellAssumption DEF Holds, Linked, Distinct, InsertTailFaults, RemoveFaults,
                        TAILQ_EMPTY, TAILQ_FIRST, Cell

\* TAILQ_INSERT_TAIL appends the element.
LEMMA InsertTailHolds ==
  ASSUME NEW tq \in TailQueueType, NEW q \in Queue, NEW s \in Seq(Elem),
         NEW e \in Elem, Holds(tq, q, s),
         \A i \in 1 .. Len(s) : s[i] # e
  PROVE  /\ TAILQ_INSERT_TAIL(tq, q, e) \in TailQueueType
         /\ Holds(TAILQ_INSERT_TAIL(tq, q, e), q, Append(s, e))
  <1> DEFINE h == TAILQ_INSERT_TAIL(tq, q, e)
             t == Append(s, e)
  <1>1. /\ tq.back[q] \in Cell
        /\ s = << >> => tq.back[q] = q
        /\ s # << >> => tq.back[q] = s[Len(s)]
    BY CellAssumption DEF Holds, Linked, Cell
  <1>2. /\ t \in Seq(Elem)
        /\ Len(t) = Len(s) + 1
        /\ \A i \in 1 .. Len(s) : t[i] = s[i]
        /\ t[Len(s) + 1] = e
    OBVIOUS
  <1>3. h \in TailQueueType
    BY <1>1 DEF TAILQ_INSERT_TAIL, TailQueueType, Cell
  <1>4. \A x \in Cell :
          /\ h.link[x] = IF x = tq.back[q] THEN e
                         ELSE IF x = e THEN NULL ELSE tq.link[x]
          /\ h.back[x] = IF x = q THEN e
                         ELSE IF x = e THEN tq.back[q] ELSE tq.back[x]
    BY <1>1 DEF TAILQ_INSERT_TAIL, TailQueueType, Cell
  <1>5. Distinct(t)
    BY <1>2 DEF Holds, Distinct
  <1>6. h.link[q] = t[1] /\ h.back[q] = t[Len(t)]
    BY CellAssumption, <1>1, <1>2, <1>4 DEF Holds, Linked, Cell
  <1>7. ASSUME NEW i \in 1 .. Len(t)
        PROVE  /\ h.link[t[i]] = IF i = Len(t) THEN NULL ELSE t[i + 1]
               /\ h.back[t[i]] = IF i = 1 THEN q ELSE t[i - 1]
    <2>1. CASE i = Len(t)
      BY CellAssumption, <1>1, <1>2, <1>4, <2>1 DEF Cell
    <2>2. CASE i # Len(t)
      <3>1. i \in 1 .. Len(s) /\ t[i] = s[i] /\ s[i] \in Elem /\ s[i] # e
        BY <1>2, <2>2
      <3>2. (s[i] = tq.back[q]) <=> i = Len(s)
        BY <1>1, <3>1 DEF Holds, Distinct
      <3>3. QED
        BY CellAssumption, <1>2, <1>4, <2>2, <3>1, <3>2 DEF Holds, Linked, Cell
    <2>3. QED
      BY <2>1, <2>2
  <1>8. Linked(h, q, t)
    <2> HIDE DEF t, h
    <2>1. t # << >>
      BY <1>2, SeqFacts
    <2>2. QED
      BY <1>6, <1>7, <2>1 DEF Linked
  <1>9. QED
    BY <1>3, <1>5, <1>8 DEF Holds

\* TAILQ_INSERT_TAIL on queue q leaves a disjoint queue r as it was.
LEMMA InsertTailFrame ==
  ASSUME NEW tq \in TailQueueType, NEW q \in Queue, NEW s \in Seq(Elem),
         NEW r \in Queue \ {q}, NEW t \in Seq(Elem),
         NEW e \in Elem, Holds(tq, q, s), Holds(tq, r, t),
         \A i \in 1 .. Len(t) : t[i] # e,
         \A i \in 1 .. Len(s), j \in 1 .. Len(t) : s[i] # t[j]
  PROVE  Holds(TAILQ_INSERT_TAIL(tq, q, e), r, t)
  BY CellAssumption DEF Holds, Linked, Distinct, TAILQ_INSERT_TAIL, TailQueueType, Cell

\* TAILQ_INSERT_HEAD puts the element in front.
LEMMA InsertHeadHolds ==
  ASSUME NEW tq \in TailQueueType, NEW q \in Queue, NEW s \in Seq(Elem),
         NEW e \in Elem, Holds(tq, q, s),
         \A i \in 1 .. Len(s) : s[i] # e
  PROVE  /\ TAILQ_INSERT_HEAD(tq, q, e) \in TailQueueType
         /\ Holds(TAILQ_INSERT_HEAD(tq, q, e), q, <<e>> \o s)
  <1> DEFINE h == TAILQ_INSERT_HEAD(tq, q, e)
             t == <<e>> \o s
  <1>1. /\ tq.link[q] = IF s = << >> THEN NULL ELSE s[1]
        /\ (IF tq.link[q] = NULL THEN q ELSE tq.link[q]) \in Cell
    BY CellAssumption DEF Holds, Linked, Cell
  <1>2. /\ t \in Seq(Elem)
        /\ Len(t) = Len(s) + 1
        /\ \A i \in 1 .. Len(s) : t[i + 1] = s[i]
        /\ t[1] = e
    OBVIOUS
  <1>3. h \in TailQueueType
    BY <1>1 DEF TAILQ_INSERT_HEAD, TailQueueType, Cell
  <1>4. \A x \in Cell :
          /\ h.link[x] = IF x = q THEN e
                         ELSE IF x = e THEN tq.link[q] ELSE tq.link[x]
          /\ h.back[x] = IF x = e THEN q
                         ELSE IF x = (IF tq.link[q] = NULL THEN q ELSE tq.link[q])
                              THEN e ELSE tq.back[x]
    BY <1>1 DEF TAILQ_INSERT_HEAD, TailQueueType, Cell
  <1>5. \A i \in 2 .. Len(t) : i - 1 \in 1 .. Len(s) /\ t[i] = s[i - 1] /\ t[i] # e
    BY <1>2
  <1>6. Distinct(t)
    <2>1. ASSUME NEW i \in 1 .. Len(t), NEW j \in 1 .. Len(t), t[i] = t[j]
          PROVE  i = j
      <3>1. CASE i = 1 \/ j = 1
        BY <1>2, <1>5, <2>1, <3>1
      <3>2. CASE i # 1 /\ j # 1
        BY <1>2, <1>5, <2>1, <3>2 DEF Holds, Distinct
      <3>3. QED
        BY <3>1, <3>2
    <2>2. QED
      BY <2>1 DEF Distinct
  <1>7. h.link[q] = t[1] /\ h.back[q] = t[Len(t)]
    BY CellAssumption, <1>1, <1>2, <1>4 DEF Holds, Linked, Cell
  <1>8. ASSUME NEW i \in 1 .. Len(t)
        PROVE  /\ h.link[t[i]] = IF i = Len(t) THEN NULL ELSE t[i + 1]
               /\ h.back[t[i]] = IF i = 1 THEN q ELSE t[i - 1]
    <2>1. CASE i = 1
      BY CellAssumption, <1>1, <1>2, <1>4, <2>1 DEF Cell
    <2>2. CASE i # 1
      <3>1. PICK k \in 1 .. Len(s) : k = i - 1 /\ t[i] = s[k]
        BY <1>2, <1>5, <2>2
      <3>2. s[k] \in Elem /\ s[k] # e /\ s[k] # q /\ tq.link[q] = s[1]
        BY CellAssumption, <1>1, <3>1 DEF Cell
      <3>3. (s[k] = tq.link[q]) <=> k = 1
        BY <3>1, <3>2 DEF Holds, Distinct
      <3>4. h.link[t[i]] = tq.link[s[k]]
        BY <1>4, <3>1, <3>2 DEF Cell
      <3>5. h.back[t[i]] = IF k = 1 THEN e ELSE tq.back[s[k]]
        BY CellAssumption, <1>4, <3>1, <3>2, <3>3 DEF Cell
      <3>6. k # 1 => t[i - 1] = s[k - 1]
        BY <1>2, <1>5, <3>1
      <3>7. k # Len(s) => t[i + 1] = s[k + 1]
        BY <1>2, <1>5, <3>1
      <3>8. QED
        BY <1>2, <2>2, <3>1, <3>4, <3>5, <3>6, <3>7 DEF Holds, Linked
    <2>3. QED
      BY <2>1, <2>2
  <1>9. Linked(h, q, t)
    <2> HIDE DEF t, h
    <2>1. t # << >>
      BY <1>2, SeqFacts
    <2>2. QED
      BY <1>7, <1>8, <2>1 DEF Linked
  <1>10. QED
    BY <1>3, <1>6, <1>9 DEF Holds

\* TAILQ_INSERT_HEAD on queue q leaves a disjoint queue r as it was.
LEMMA InsertHeadFrame ==
  ASSUME NEW tq \in TailQueueType, NEW q \in Queue, NEW s \in Seq(Elem),
         NEW r \in Queue \ {q}, NEW t \in Seq(Elem),
         NEW e \in Elem, Holds(tq, q, s), Holds(tq, r, t),
         \A i \in 1 .. Len(t) : t[i] # e,
         \A i \in 1 .. Len(s), j \in 1 .. Len(t) : s[i] # t[j]
  PROVE  Holds(TAILQ_INSERT_HEAD(tq, q, e), r, t)
  BY CellAssumption DEF Holds, Linked, Distinct, TAILQ_INSERT_HEAD, TailQueueType, Cell

\* TAILQ_REMOVE of the first element leaves the rest of the sequence.
LEMMA RemoveHolds ==
  ASSUME NEW tq \in TailQueueType, NEW q \in Queue, NEW s \in Seq(Elem),
         s # << >>, Holds(tq, q, s)
  PROVE  /\ TAILQ_REMOVE(tq, q, Head(s)) \in TailQueueType
         /\ Holds(TAILQ_REMOVE(tq, q, Head(s)), q, Tail(s))
  <1> DEFINE e == Head(s)
             t == Tail(s)
             h == TAILQ_REMOVE(tq, q, e)
             succ == IF tq.link[e] = NULL THEN q ELSE tq.link[e]
  <1>1. /\ t \in Seq(Elem)
        /\ Len(s) \in Nat /\ Len(s) > 0 /\ Len(t) = Len(s) - 1
        /\ \A i \in 1 .. Len(t) : t[i] = s[i + 1]
        /\ e = s[1] /\ e \in Elem
        /\ 1 \in 1 .. Len(s)
        /\ Len(s) # 1 => 2 \in 1 .. Len(s) /\ s[2] \in Elem
    <2>1. /\ t \in Seq(Elem)
          /\ Len(t) = Len(s) - 1
          /\ \A i \in 1 .. Len(t) : t[i] = s[i + 1]
      OBVIOUS
    <2>2. QED
      BY <2>1, SeqFacts
  <1>2. /\ tq.back[e] = q
        /\ tq.link[e] = IF Len(s) = 1 THEN NULL ELSE s[2]
        /\ Len(s) # 1 => s[2] \in Elem
        /\ succ = IF Len(s) = 1 THEN q ELSE s[2]
        /\ succ \in Cell
    <2> HIDE DEF e, t
    <2>1. tq.back[e] = q /\ tq.link[e] = IF Len(s) = 1 THEN NULL ELSE s[2]
      BY <1>1 DEF Holds, Linked
    <2>2. succ = IF Len(s) = 1 THEN q ELSE s[2]
      BY CellAssumption, <1>1, <2>1 DEF Cell
    <2>3. QED
      BY <1>1, <2>1, <2>2 DEF Cell
  <1>3. h \in TailQueueType
    BY <1>1, <1>2 DEF TAILQ_REMOVE, TailQueueType, Cell
  <1>4. \A x \in Cell :
          /\ h.link[x] = IF x = e THEN NULL
                         ELSE IF x = q THEN tq.link[e] ELSE tq.link[x]
          /\ h.back[x] = IF x = e THEN NULL
                         ELSE IF x = succ THEN q ELSE tq.back[x]
    BY <1>1, <1>2 DEF TAILQ_REMOVE, TailQueueType, Cell
  <1>5. Distinct(t)
    BY <1>1 DEF Holds, Distinct
  <1>6. e # q /\ (t = << >> <=> Len(s) = 1) /\ (t # << >> => s[2] = t[1] /\ t[Len(t)] = s[Len(s)])
    BY CellAssumption, <1>1 DEF Cell
  <1>7. /\ h.link[q] = IF t = << >> THEN NULL ELSE t[1]
        /\ h.back[q] = IF t = << >> THEN q ELSE t[Len(t)]
    <2>1. h.link[q] = tq.link[e]
      BY <1>4, <1>6 DEF Cell
    <2>2. Len(s) # 1 => s[2] # q
      BY CellAssumption, <1>2
    <2>3. h.back[q] = IF Len(s) = 1 THEN q ELSE s[Len(s)]
      BY <1>1, <1>2, <1>4, <1>6, <2>2 DEF Cell, Holds, Linked
    <2>4. QED
      BY <1>2, <1>6, <2>1, <2>3
  <1>8. ASSUME NEW i \in 1 .. Len(t)
        PROVE  /\ h.link[t[i]] = IF i = Len(t) THEN NULL ELSE t[i + 1]
               /\ h.back[t[i]] = IF i = 1 THEN q ELSE t[i - 1]
    <2> HIDE DEF e, t, h
    <2>1. /\ i + 1 \in 1 .. Len(s) /\ t[i] = s[i + 1] /\ s[i + 1] \in Elem
          /\ Len(s) # 1
      BY <1>1
    <2>2. s[i + 1] # e /\ s[i + 1] # q /\ (s[i + 1] = succ <=> i = 1)
      BY CellAssumption, <1>1, <1>2, <2>1 DEF Holds, Distinct
    <2>3. h.link[t[i]] = tq.link[s[i + 1]]
      BY <1>4, <2>1, <2>2 DEF Cell
    <2>4. h.back[t[i]] = IF i = 1 THEN q ELSE tq.back[s[i + 1]]
      BY <1>4, <2>1, <2>2 DEF Cell
    <2>5. i # Len(t) => t[i + 1] = s[i + 2]
      BY <1>1
    <2>6. i # 1 => t[i - 1] = s[i]
      BY <1>1
    <2>7. QED
      BY <1>1, <2>1, <2>3, <2>4, <2>5, <2>6 DEF Holds, Linked
  <1>9. Linked(h, q, t)
    BY <1>7, <1>8 DEF Linked
  <1>10. QED
    BY <1>3, <1>5, <1>9 DEF Holds

\* TAILQ_REMOVE of the first element of q leaves a disjoint queue r as it was.
LEMMA RemoveFrame ==
  ASSUME NEW tq \in TailQueueType, NEW q \in Queue, NEW s \in Seq(Elem),
         NEW r \in Queue \ {q}, NEW t \in Seq(Elem),
         s # << >>, Holds(tq, q, s), Holds(tq, r, t),
         \A i \in 1 .. Len(s), j \in 1 .. Len(t) : s[i] # t[j]
  PROVE  Holds(TAILQ_REMOVE(tq, q, Head(s)), r, t)
  <1> DEFINE e == Head(s)
             h == TAILQ_REMOVE(tq, q, e)
             succ == IF tq.link[e] = NULL THEN q ELSE tq.link[e]
  <1>1. /\ Len(s) \in Nat /\ Len(s) > 0
        /\ e = s[1] /\ e \in Elem
        /\ 1 \in 1 .. Len(s)
        /\ Len(s) # 1 => 2 \in 1 .. Len(s) /\ s[2] \in Elem
    BY SeqFacts
  <1>2. /\ tq.back[e] = q
        /\ succ = IF Len(s) = 1 THEN q ELSE s[2]
        /\ succ \in Cell
    <2> HIDE DEF e
    <2>1. tq.back[e] = q /\ tq.link[e] = IF Len(s) = 1 THEN NULL ELSE s[2]
      BY <1>1 DEF Holds, Linked
    <2>2. succ = IF Len(s) = 1 THEN q ELSE s[2]
      BY CellAssumption, <1>1, <2>1 DEF Cell
    <2>3. QED
      BY <1>1, <2>1, <2>2 DEF Cell
  <1>3. \A x \in Cell \ {e, q, succ} : h.link[x] = tq.link[x] /\ h.back[x] = tq.back[x]
    BY <1>1, <1>2 DEF TAILQ_REMOVE, TailQueueType, Cell
  <1>4. succ = q \/ (Len(s) # 1 /\ succ = s[2] /\ s[2] \in Elem)
    BY <1>1, <1>2
  <1>5. r \in Cell \ {e, q, succ}
    BY CellAssumption, <1>1, <1>4 DEF Cell
  <1>6. ASSUME NEW i \in 1 .. Len(t)
        PROVE  t[i] \in Cell \ {e, q, succ}
    <2> HIDE DEF e, succ
    <2>1. t[i] \in Elem /\ t[i] # q
      BY CellAssumption DEF Cell
    <2>2. t[i] # s[1] /\ (Len(s) # 1 => t[i] # s[2])
      BY <1>1
    <2>3. QED
      BY <1>1, <1>4, <2>1, <2>2 DEF Cell
  <1>7. h.link[r] = tq.link[r] /\ h.back[r] = tq.back[r]
    BY <1>3, <1>5
  <1>8. \A i \in 1 .. Len(t) : h.link[t[i]] = tq.link[t[i]] /\ h.back[t[i]] = tq.back[t[i]]
    BY <1>3, <1>6
  <1>9. Holds(h, r, t)
    <2> HIDE DEF h
    <2>1. QED
      BY <1>7, <1>8 DEF Holds, Linked
  <1>10. QED
    BY <1>9

\* Which entries are unlinked (tqe_prev = NULL) after an insertion: all that
\* were, except the inserted one.
LEMMA InsertUnlinked ==
  ASSUME NEW tq \in TailQueueType, NEW q \in Queue, NEW s \in Seq(Elem),
         NEW e \in Elem, Holds(tq, q, s),
         NEW x \in Elem
  PROVE  /\ TAILQ_INSERT_TAIL(tq, q, e).back[x] = NULL <=>
              tq.back[x] = NULL /\ x # e
         /\ TAILQ_INSERT_HEAD(tq, q, e).back[x] = NULL <=>
              tq.back[x] = NULL /\ x # e
  <1>1. /\ tq.back[q] \in Cell
        /\ tq.link[q] = IF s = << >> THEN NULL ELSE s[1]
        /\ s # << >> => tq.back[s[1]] = q /\ s[1] \in Elem
    BY CellAssumption, SeqFacts DEF Holds, Linked, Cell
  <1>2. TAILQ_INSERT_TAIL(tq, q, e).back[x] = NULL <=> tq.back[x] = NULL /\ x # e
    BY CellAssumption, <1>1 DEF TAILQ_INSERT_TAIL, TailQueueType, Cell
  <1>3. TAILQ_INSERT_HEAD(tq, q, e).back[x] = NULL <=> tq.back[x] = NULL /\ x # e
    BY CellAssumption, <1>1 DEF TAILQ_INSERT_HEAD, TailQueueType, Cell
  <1>4. QED
    BY <1>2, <1>3

\* TAILQ_REMOVE unlinks the removed entry and no other.
LEMMA RemoveUnlinked ==
  ASSUME NEW tq \in TailQueueType, NEW q \in Queue, NEW s \in Seq(Elem),
         s # << >>, Holds(tq, q, s),
         NEW x \in Elem
  PROVE  TAILQ_REMOVE(tq, q, Head(s)).back[x] = NULL <=>
           tq.back[x] = NULL \/ x = Head(s)
  <1> DEFINE e == Head(s)
             succ == IF tq.link[e] = NULL THEN q ELSE tq.link[e]
  <1>1. /\ e \in Elem /\ e = s[1] /\ Len(s) \in Nat
        /\ 1 \in 1 .. Len(s)
        /\ Len(s) # 1 => 2 \in 1 .. Len(s) /\ s[2] \in Elem
    BY SeqFacts
  <1> HIDE DEF e
  <1>2. /\ tq.back[e] = q
        /\ tq.link[e] = IF Len(s) = 1 THEN NULL ELSE s[2]
        /\ Len(s) # 1 => tq.back[s[2]] = s[1]
    BY <1>1 DEF Holds, Linked
  <1>3. \/ succ = q
        \/ succ \in Elem /\ tq.back[succ] \in Elem
    BY CellAssumption, <1>1, <1>2 DEF Cell
  <1>4. TAILQ_REMOVE(tq, q, e).back = [tq.back EXCEPT ![succ] = q, ![e] = NULL]
    BY <1>2 DEF TAILQ_REMOVE
  <1>5. TAILQ_REMOVE(tq, q, e).back[x] = IF x = e THEN NULL
                                        ELSE IF x = succ THEN q ELSE tq.back[x]
    BY <1>1, <1>3, <1>4 DEF TailQueueType, Cell
  <1>6. QED
    BY CellAssumption, <1>3, <1>5 DEF Cell, e
=============================================================================
