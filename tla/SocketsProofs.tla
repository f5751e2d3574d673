--------------------------- MODULE SocketsProofs ---------------------------
(***************************************************************************)
(* The socket helpers, for messages of every number and length, a socket   *)
(* of every capacity, and any number of strings and texts: messages arrive *)
(* whole and in their own call, and strings own their copies.              *)
(***************************************************************************)
EXTENDS MCSockets, TLAPS

-----------------------------------------------------------------------------
(***************************************************************************)
(* The stream.                                                             *)
(***************************************************************************)
StreamType == /\ open \subseteq End
              /\ link \in {"up", "lost", "told"}
              /\ sock \in Seq(Int)
              /\ buffer \in Seq(Int)
              /\ call \in [End -> [busy : BOOLEAN, nleft : Int, ptr : Int]]
              /\ sent \in Seq(Int)
              /\ recvd \in Seq([n : Int, data : Seq(Int)])

\* nleft and ptr of a sender's call lead to the end of its message.
SenderAt == /\ Len(sent) <= Messages
            /\ call["tx"].busy => /\ "tx" \in open
                                  /\ Len(sent) < Messages
                                  /\ call["tx"].nleft >= 0
                                  /\ call["tx"].ptr + call["tx"].nleft = First[Len(sent) + 2]

\* What is left of a receiver's call is what its buffer lacks.
ReceiverAt == /\ Len(recvd) <= Messages
              /\ call["rx"].busy =>
                   /\ Len(recvd) < Messages
                   /\ call["rx"].nleft >= 0
                   /\ call["rx"].nleft + Len(buffer) = Size(Len(recvd) + 1)
              /\ ~call["rx"].busy => buffer = << >>
              /\ \A k \in 1 .. Len(recvd) : recvd[k].n \in -1 .. Size(k)

AllFull == \A k \in 1 .. Len(recvd) : recvd[k].n = Size(k)

\* The next byte the sender will pass to send.
NextByte == IF call["tx"].busy THEN call["tx"].ptr ELSE First[Len(sent) + 1]

\* While every call has succeeded in full, the buffer and the socket hold the
\* bytes from the start of the receiver's message up to the sender's next one.
InStream == NoError /\ AllFull =>
  /\ \A i \in 1 .. Len(buffer) : buffer[i] = First[Len(recvd) + 1] + i - 1
  /\ \A i \in 1 .. Len(sock) : sock[i] = First[Len(recvd) + 1] + Len(buffer) + i - 1
  /\ link = "up" => First[Len(recvd) + 1] + Len(buffer) + Len(sock) = NextByte

\* After a short result nothing comes any more.
Drained == NoError /\ ~AllFull => "tx" \notin open /\ sock = << >> /\ buffer = << >>

\* A loss that was told was told by a call of _cs_recvn, and nothing comes
\* after it.
Told == link = "told" => sock = << >> /\ \E j \in 1 .. Len(recvd) : recvd[j].n = -1

\* After a short result there is no sender or no connection.
ShortGone == \A k \in 1 .. Len(recvd) :
               recvd[k].n \in 0 .. Size(k) - 1 => "tx" \notin open \/ link = "told"

StreamInv == /\ StreamType /\ SenderAt /\ ReceiverAt
             /\ InStream /\ Drained /\ ShortAtEnd /\ Framed /\ Told /\ ShortGone

LEMMA FirstFacts ==
  /\ Messages \in Nat
  /\ \A k \in 1 .. Messages + 1 : First[k] \in Int
  /\ \A k \in 1 .. Messages : Size(k) \in Nat /\ First[k + 1] = First[k] + Size(k)
  <1>1. Len(First) \in Nat \ {0}
    BY StreamAssumption
  <1>2. \A k \in 1 .. Len(First) : First[k] \in Int
    BY StreamAssumption
  <1>3. \A k \in 1 .. Len(First) - 1 : First[k] <= First[k + 1]
    BY StreamAssumption
  <1>4. QED
    BY <1>1, <1>2, <1>3 DEF Messages, Size

\* Both calls of StreamInv's conjuncts as facts about single fields.
LEMMA CallFacts ==
  ASSUME StreamType
  PROVE  \A e \in End : /\ call[e] = [busy |-> call[e].busy, nleft |-> call[e].nleft, ptr |-> call[e].ptr]
                        /\ call[e].busy \in BOOLEAN /\ call[e].nleft \in Int /\ call[e].ptr \in Int
  BY DEF StreamType, End

\* nleft -= n; ptr += n.
LEMMA Advance ==
  ASSUME NEW c \in [End -> [busy : BOOLEAN, nleft : Int, ptr : Int]], NEW e \in End, NEW j \in Int,
         NEW d, d = [c EXCEPT ![e].nleft = @ - j, ![e].ptr = @ + j]
  PROVE  /\ d \in [End -> [busy : BOOLEAN, nleft : Int, ptr : Int]]
         /\ d[e].busy = c[e].busy /\ d[e].nleft = c[e].nleft - j /\ d[e].ptr = c[e].ptr + j
         /\ \A f \in End : f # e => d[f] = c[f]
  <1> DEFINE r == [c[e] EXCEPT !.nleft = c[e].nleft - j]
             x == [c EXCEPT ![e] = r]
  <1>1. r \in [busy : BOOLEAN, nleft : Int, ptr : Int] /\ r.ptr = c[e].ptr
        /\ r.nleft = c[e].nleft - j /\ r.busy = c[e].busy
    OBVIOUS
  <1>2. x \in [End -> [busy : BOOLEAN, nleft : Int, ptr : Int]] /\ x[e] = r
        /\ \A f \in End : f # e => x[f] = c[f]
    BY <1>1
  <1>3. d = [x EXCEPT ![e] = [x[e] EXCEPT !.ptr = x[e].ptr + j]]
    OBVIOUS
  <1> DEFINE y == [r EXCEPT !.ptr = c[e].ptr + j]
  <1> HIDE DEF r, x
  <1>4. /\ y \in [busy : BOOLEAN, nleft : Int, ptr : Int]
        /\ y.busy = c[e].busy /\ y.nleft = c[e].nleft - j /\ y.ptr = c[e].ptr + j
    BY <1>1
  <1>5. d = [x EXCEPT ![e] = y]
    BY <1>1, <1>2, <1>3
  <1> HIDE DEF y
  <1>6. QED
    BY <1>2, <1>4, <1>5

\* A sequence and its extension, element by element.
LEMMA Concat ==
  ASSUME NEW s \in Seq(Int), NEW t \in Seq(Int)
  PROVE  /\ s \o t \in Seq(Int) /\ Len(s \o t) = Len(s) + Len(t)
         /\ \A i \in 1 .. Len(s) : (s \o t)[i] = s[i]
         /\ \A i \in Len(s) + 1 .. Len(s) + Len(t) : (s \o t)[i] = t[i - Len(s)]
  OBVIOUS

\* The first part of a sequence, element by element.
LEMMA Beginning ==
  ASSUME NEW s \in Seq(Int), NEW j \in 1 .. Len(s)
  PROVE  /\ SubSeq(s, 1, j) \in Seq(Int) /\ Len(SubSeq(s, 1, j)) = j
         /\ \A i \in 1 .. j : SubSeq(s, 1, j)[i] = s[i]
  <1>1. Len(s) \in Nat /\ j \in Nat /\ j <= Len(s)
    OBVIOUS
  <1>2. SubSeq(s, 1, j) = [i \in 1 .. j |-> s[i]]
    BY <1>1
  <1>3. \A i \in 1 .. j : i \in 1 .. Len(s) /\ s[i] \in Int
    BY <1>1
  <1>4. QED
    BY <1>1, <1>2, <1>3

\* What is left of a sequence, element by element.
LEMMA Remainder ==
  ASSUME NEW s \in Seq(Int), NEW j \in 1 .. Len(s), NEW t, t = SubSeq(s, j + 1, Len(s))
  PROVE  /\ t \in Seq(Int) /\ Len(t) = Len(s) - j
         /\ \A i \in 1 .. Len(s) - j : t[i] = s[i + j]
  <1>1. Len(s) \in Nat /\ j \in Nat /\ j <= Len(s)
    OBVIOUS
  <1>2. t = [i \in 1 .. Len(s) - j |-> s[i + j]]
    BY <1>1
  <1>3. \A i \in 1 .. Len(s) - j : i + j \in 1 .. Len(s) /\ s[i + j] \in Int
    BY <1>1
  <1>4. t \in Seq(Int) /\ Len(t) = Len(s) - j
    BY <1>1, <1>2, <1>3
  <1>5. QED
    BY <1>2, <1>4

\* A signal changes nothing but errno, the descriptor flags nothing but
\* flags.
LEMMA StreamFrame ==
  ASSUME StreamInv, UNCHANGED <<open, link, sock, call, sent, recvd, buffer>>
  PROVE  StreamInv'
  BY DEF StreamInv, StreamType, SenderAt, ReceiverAt, AllFull, NextByte, InStream, Drained,
         ShortAtEnd, Framed, NoError, Told, ShortGone

LEMMA CloseStep ==
  ASSUME StreamInv, NEW e \in End, close(e)
  PROVE  StreamInv'
  <1>1. /\ open' = open \ {e} /\ ~call[e].busy
        /\ UNCHANGED <<link, sock, call, sent, recvd, buffer>>
    BY DEF close
  <1>2. StreamType' /\ SenderAt' /\ ReceiverAt'
    BY <1>1 DEF StreamInv, StreamType, SenderAt, ReceiverAt, End
  <1>3. InStream' /\ Drained' /\ ShortAtEnd' /\ Framed' /\ Told' /\ ShortGone'
    BY <1>1 DEF StreamInv, AllFull, NextByte, InStream, Drained, ShortAtEnd, Framed, NoError, Told,
                ShortGone
  <1>4. QED
    BY <1>2, <1>3 DEF StreamInv

LEMMA BeginStep ==
  ASSUME StreamInv, NEW e \in End, begin(e)
  PROVE  StreamInv'
  <1>1. /\ Results(e) + 1 <= Messages /\ e \in open /\ ~call[e].busy
        /\ call' = [call EXCEPT ![e] = [busy |-> TRUE, nleft |-> Size(Results(e) + 1),
                                       ptr |-> First[Results(e) + 1]]]
        /\ UNCHANGED <<open, link, sock, sent, recvd, buffer>>
    BY DEF begin
  <1>2. /\ StreamType /\ SenderAt /\ ReceiverAt /\ InStream /\ Drained /\ ShortAtEnd /\ Framed
        /\ Told /\ ShortGone
        /\ Len(sent) \in Nat /\ Len(recvd) \in Nat /\ Len(buffer) \in Nat
    BY DEF StreamInv, StreamType
  <1>3. Results(e) + 1 \in 1 .. Messages
    BY <1>1, <1>2, FirstFacts DEF Results
  <1>4. /\ First[Results(e) + 1] \in Int
        /\ Size(Results(e) + 1) \in Nat
        /\ First[Results(e) + 1 + 1] = First[Results(e) + 1] + Size(Results(e) + 1)
    BY <1>3, FirstFacts
  <1>5. StreamType'
    BY <1>1, <1>2, <1>4 DEF StreamType, End
  <1>6. /\ ShortAtEnd' /\ Framed' /\ Drained' /\ Told' /\ ShortGone'
        /\ (NoError' <=> NoError) /\ (AllFull' <=> AllFull)
    BY <1>1, <1>2 DEF ShortAtEnd, Framed, Drained, NoError, AllFull, Told, ShortGone
  <1>7. CASE e = "tx"
    <2>1. /\ call'["tx"] = [busy |-> TRUE, nleft |-> Size(Len(sent) + 1), ptr |-> First[Len(sent) + 1]]
          /\ call'["rx"] = call["rx"]
      BY <1>1, <1>2, <1>7 DEF StreamType, End, Results
    <2>2. SenderAt'
      <3>1. /\ Len(sent) < Messages /\ Len(sent) + 1 + 1 = Len(sent) + 2
            /\ First[Len(sent) + 1 + 1] = First[Len(sent) + 1] + Size(Len(sent) + 1)
        BY <1>1, <1>2, <1>4, <1>7, FirstFacts DEF Results
      <3>2. QED
        BY <1>1, <1>2, <1>3, <1>4, <1>7, <2>1, <3>1 DEF SenderAt, Results
    <2>3. ReceiverAt'
      BY <1>1, <1>2, <2>1 DEF ReceiverAt
    <2>4. NextByte' = NextByte
      BY <1>1, <1>7, <2>1 DEF NextByte
    <2>5. InStream'
      BY <1>1, <1>2, <1>6, <2>4 DEF InStream
    <2>6. QED
      BY <1>5, <1>6, <2>2, <2>3, <2>5 DEF StreamInv
  <1>8. CASE e = "rx"
    <2>1. /\ call'["rx"] = [busy |-> TRUE, nleft |-> Size(Len(recvd) + 1), ptr |-> First[Len(recvd) + 1]]
          /\ call'["tx"] = call["tx"]
      BY <1>1, <1>2, <1>8 DEF StreamType, End, Results
    <2>2. SenderAt'
      BY <1>1, <1>2, <2>1 DEF SenderAt
    <2>3. buffer = << >>
      BY <1>1, <1>2, <1>8 DEF ReceiverAt
    <2>4. ReceiverAt'
      <3>1. /\ Len(recvd) < Messages /\ Len(buffer) = 0
            /\ Size(Len(recvd) + 1) \in Nat
        BY <1>1, <1>2, <1>4, <1>8, <2>3, FirstFacts DEF Results
      <3>2. QED
        BY <1>1, <1>2, <2>1, <3>1 DEF ReceiverAt
    <2>5. NextByte' = NextByte
      BY <1>1, <2>1 DEF NextByte
    <2>6. InStream'
      BY <1>1, <1>2, <1>6, <2>5 DEF InStream
    <2>7. QED
      BY <1>5, <1>6, <2>2, <2>4, <2>6 DEF StreamInv
  <1>9. QED
    BY <1>7, <1>8 DEF End

\* Part of the message goes into the socket.
LEMMA SendStep ==
  ASSUME StreamInv, NEW j \in 1 .. Cap, sendn_send(j), link = "up"
  PROVE  StreamInv'
  <1> DEFINE p == call["tx"].ptr
             l == call["tx"].nleft
  <1>1. /\ call["tx"].busy /\ j <= l
        /\ sock' = sock \o Bytes(p, j)
        /\ call' = [call EXCEPT !["tx"].nleft = @ - j, !["tx"].ptr = @ + j]
        /\ UNCHANGED <<open, link, sent, recvd, buffer>>
    <2>1. /\ call["tx"].busy /\ j <= Least(l, Cap - Len(sock))
          /\ sock' = sock \o Bytes(p, j)
          /\ call' = [call EXCEPT !["tx"].nleft = @ - j, !["tx"].ptr = @ + j]
          /\ UNCHANGED <<open, link, sent, recvd, buffer>>
      BY DEF sendn_send, InLoop
    <2>2. Least(l, Cap - Len(sock)) <= l
      <3>1. l \in Int /\ Cap - Len(sock) \in Int
        BY StreamAssumption, CallFacts DEF StreamInv, StreamType, End
      <3>2. QED
        BY <3>1 DEF Least
    <2>3. l \in Int /\ Least(l, Cap - Len(sock)) \in Int
      BY StreamAssumption, CallFacts DEF StreamInv, StreamType, End, Least
    <2>4. QED
      BY <2>1, <2>2, <2>3
  <1>2. /\ StreamType /\ SenderAt /\ ReceiverAt /\ InStream /\ Drained /\ ShortAtEnd /\ Framed
        /\ Told /\ ShortGone
        /\ Len(sent) \in Nat /\ Len(recvd) \in Nat /\ Len(buffer) \in Nat /\ Len(sock) \in Nat
        /\ sock \in Seq(Int)
    BY DEF StreamInv, StreamType
  <1>3. p \in Int /\ l \in Int /\ j \in Nat /\ j > 0
    BY <1>2, CallFacts, StreamAssumption DEF End
  <1>4. /\ call'["tx"] = [busy |-> TRUE, nleft |-> l - j, ptr |-> p + j]
        /\ call'["rx"] = call["rx"]
        /\ call' \in [End -> [busy : BOOLEAN, nleft : Int, ptr : Int]]
    <2>1. /\ call \in [End -> [busy : BOOLEAN, nleft : Int, ptr : Int]]
          /\ "tx" \in End /\ "rx" \in End /\ "rx" # "tx" /\ j \in Int
      BY <1>2, <1>3 DEF StreamType, End
    <2>2. /\ call' \in [End -> [busy : BOOLEAN, nleft : Int, ptr : Int]]
          /\ call'["tx"].busy = call["tx"].busy /\ call'["tx"].nleft = l - j
          /\ call'["tx"].ptr = p + j
          /\ call'["rx"] = call["rx"]
      BY <1>1, <2>1, Advance
    <2>3. QED
      BY <1>1, <2>1, <2>2
  <1>5. /\ sock' \in Seq(Int) /\ Len(sock') = Len(sock) + j
        /\ \A i \in 1 .. Len(sock) : sock'[i] = sock[i]
        /\ \A i \in Len(sock) + 1 .. Len(sock) + j : sock'[i] = p + (i - Len(sock)) - 1
    <2> DEFINE b == Bytes(p, j)
    <2>1. b \in Seq(Int) /\ Len(b) = j /\ \A i \in 1 .. j : b[i] = p + i - 1
      BY <1>3 DEF Bytes
    <2> HIDE DEF b
    <2>2. sock' = sock \o b
      BY <1>1 DEF b
    <2>3. \A i \in Len(sock) + 1 .. Len(sock) + j : i - Len(sock) \in 1 .. j
      BY <1>2, <1>3
    <2>4. QED
      BY <1>2, <2>1, <2>2, <2>3, Concat
  <1>6. StreamType'
    BY <1>1, <1>2, <1>4, <1>5 DEF StreamType
  <1>7. SenderAt' /\ ReceiverAt'
    <2>1. First[Len(sent) + 2] \in Int
      <3>1. Len(sent) + 2 \in 1 .. Messages + 1
        BY <1>1, <1>2, FirstFacts DEF SenderAt
      <3>2. QED
        BY <3>1, FirstFacts
    <2>2. SenderAt'
      BY <1>1, <1>2, <1>3, <1>4, <2>1 DEF SenderAt
    <2>3. ReceiverAt'
      BY <1>1, <1>2, <1>4 DEF ReceiverAt
    <2>4. QED
      BY <2>2, <2>3
  <1>8. "tx" \in open
    BY <1>1, <1>2 DEF SenderAt
  <1>9. (NoError' <=> NoError) /\ (AllFull' <=> AllFull) /\ Framed'
    BY <1>1, <1>2 DEF NoError, AllFull, Framed
  <1>10. ShortAtEnd' /\ Drained' /\ Told' /\ ShortGone'
    <2>1. link # "told" /\ link' = link
      BY <1>1
    <2>2. \A k \in 1 .. Len(recvd) : recvd[k].n \notin 0 .. Size(k) - 1
      BY <1>2, <1>8, <2>1 DEF ShortGone
    <2>3. QED
      BY <1>1, <1>2, <1>8, <1>9, <2>1, <2>2 DEF ShortAtEnd, Drained, Told, ShortGone
  <1>11. InStream'
    <2> SUFFICES ASSUME NoError, AllFull
                 PROVE  /\ \A i \in 1 .. Len(buffer') : buffer'[i] = First[Len(recvd') + 1] + i - 1
                        /\ \A i \in 1 .. Len(sock') :
                             sock'[i] = First[Len(recvd') + 1] + Len(buffer') + i - 1
                        /\ link' = "up" => First[Len(recvd') + 1] + Len(buffer') + Len(sock') = NextByte'
      BY <1>9 DEF InStream
    <2> DEFINE q == First[Len(recvd) + 1] + Len(buffer)
    <2>1. q \in Int
      BY <1>2, FirstFacts DEF ReceiverAt
    <2>2. /\ \A i \in 1 .. Len(sock) : sock[i] = q + i - 1
          /\ q + Len(sock) = p
      BY <1>1, <1>2 DEF InStream, NextByte
    <2>3. NextByte' = p + j
      BY <1>4 DEF NextByte
    <2>4. \A i \in 1 .. Len(sock') : sock'[i] = q + i - 1
      <3> HIDE DEF q, p
      <3>1. TAKE i \in 1 .. Len(sock')
      <3>2. CASE i <= Len(sock)
        BY <1>2, <1>5, <2>2, <3>2
      <3>3. CASE i > Len(sock)
        <4>1. i \in Len(sock) + 1 .. Len(sock) + j /\ sock'[i] = p + (i - Len(sock)) - 1
          BY <1>2, <1>3, <1>5, <3>3
        <4>2. q + Len(sock) = p /\ Len(sock) \in Int /\ i \in Int
          BY <1>2, <1>3, <2>2, <4>1
        <4>3. QED
          BY <1>3, <2>1, <4>1, <4>2
      <3>4. QED
        BY <1>2, <3>2, <3>3
    <2>5. QED
      <3>1. \A i \in 1 .. Len(buffer) : buffer[i] = First[Len(recvd) + 1] + i - 1
        BY <1>2 DEF InStream
      <3>2. q + Len(sock') = NextByte'
        <4>1. Len(sock') = Len(sock) + j /\ q + Len(sock) = p
          BY <1>5, <2>2
        <4> HIDE DEF q, p
        <4>2. QED
          BY <1>2, <1>3, <2>1, <2>3, <4>1
      <3>3. QED
        BY <1>1, <2>4, <3>1, <3>2
  <1>12. QED
    BY <1>6, <1>7, <1>9, <1>10, <1>11 DEF StreamInv

\* The facts about lengths that every step needs.
LEMMA StreamFacts ==
  ASSUME StreamInv
  PROVE  /\ StreamType /\ SenderAt /\ ReceiverAt /\ InStream /\ Drained /\ ShortAtEnd /\ Framed
         /\ Told /\ ShortGone
         /\ Len(sent) \in Nat /\ Len(recvd) \in Nat /\ Len(buffer) \in Nat /\ Len(sock) \in Nat
         /\ sock \in Seq(Int) /\ buffer \in Seq(Int)
         /\ call \in [End -> [busy : BOOLEAN, nleft : Int, ptr : Int]]
         /\ "tx" \in End /\ "rx" \in End /\ "rx" # "tx"
         /\ First[Len(recvd) + 1] \in Int /\ First[Len(sent) + 1] \in Int
  <1>1. /\ StreamType /\ SenderAt /\ ReceiverAt /\ InStream /\ Drained /\ ShortAtEnd /\ Framed
        /\ Told /\ ShortGone
        /\ Len(sent) \in Nat /\ Len(recvd) \in Nat /\ Len(buffer) \in Nat /\ Len(sock) \in Nat
        /\ sock \in Seq(Int) /\ buffer \in Seq(Int)
        /\ call \in [End -> [busy : BOOLEAN, nleft : Int, ptr : Int]]
        /\ "tx" \in End /\ "rx" \in End /\ "rx" # "tx"
    BY DEF StreamInv, StreamType, End
  <1>2. Len(recvd) <= Messages /\ Len(sent) <= Messages
    BY <1>1 DEF SenderAt, ReceiverAt
  <1>3. First[Len(recvd) + 1] \in Int /\ First[Len(sent) + 1] \in Int
    BY <1>1, <1>2, FirstFacts
  <1>4. QED
    BY <1>1, <1>3

\* _cs_sendn returns: an error, or the size after the last byte.
LEMMA SentStep ==
  ASSUME StreamInv, NEW r \in Int, call["tx"].busy, Return("tx", r), UNCHANGED <<open, link, sock>>,
         r = -1 \/ call["tx"].nleft = 0
  PROVE  StreamInv'
  <1>1. /\ call' = [call EXCEPT !["tx"] = None]
        /\ sent' = Append(sent, r)
        /\ UNCHANGED <<open, link, sock, recvd, buffer>>
    BY DEF Return
  <1>2. /\ sent \in Seq(Int) /\ sent' \in Seq(Int) /\ Len(sent') = Len(sent) + 1
        /\ \A k \in 1 .. Len(sent) : sent'[k] = sent[k]
        /\ sent'[Len(sent) + 1] = r
    <2>1. sent \in Seq(Int)
      BY DEF StreamInv, StreamType
    <2>2. QED
      BY <1>1, <2>1
  <1>3. /\ call' \in [End -> [busy : BOOLEAN, nleft : Int, ptr : Int]]
        /\ ~call'["tx"].busy /\ call'["rx"] = call["rx"]
    BY <1>1, StreamFacts DEF None
  <1>4. StreamType'
    BY <1>1, <1>2, <1>3 DEF StreamInv, StreamType
  <1>5. Len(sent) < Messages /\ Len(sent) \in Nat /\ "tx" \in open
    BY StreamFacts DEF SenderAt
  <1>6. SenderAt'
    BY <1>2, <1>3, <1>5, FirstFacts DEF SenderAt
  <1>7. ReceiverAt'
    BY <1>1, <1>3, StreamFacts DEF ReceiverAt
  <1>8. (AllFull' <=> AllFull) /\ (NoError' => NoError /\ r # -1)
    BY <1>1, <1>2, <1>5 DEF AllFull, NoError
  <1>9. ShortAtEnd' /\ Framed' /\ Drained' /\ Told' /\ ShortGone'
    BY <1>1, <1>8, StreamFacts DEF ShortAtEnd, Framed, Drained, Told, ShortGone
  <1>10. InStream'
    <2>1. CASE r = -1
      BY <1>8, <2>1 DEF InStream
    <2>2. CASE r # -1
      <3>1. call["tx"].nleft = 0 /\ call["tx"].ptr \in Int /\ call["tx"].ptr + 0 = First[Len(sent) + 2]
        BY <2>2, StreamFacts, CallFacts DEF SenderAt
      <3>2. NextByte = call["tx"].ptr /\ NextByte' = First[Len(sent) + 2]
        BY <1>2, <1>3, <1>5 DEF NextByte
      <3>3. NextByte' = NextByte
        BY <3>1, <3>2
      <3>4. QED
        BY <1>1, <1>8, <3>3, StreamFacts DEF InStream
    <2>3. QED
      BY <2>1, <2>2
  <1>11. QED
    BY <1>4, <1>6, <1>7, <1>9, <1>10 DEF StreamInv

\* Part of the message comes from the socket into the buffer.
LEMMA RecvStep ==
  ASSUME StreamInv, NEW j \in 1 .. Cap, recvn_recv(j)
  PROVE  StreamInv'
  <1>1. /\ call["rx"].busy /\ j <= Least(call["rx"].nleft, Len(sock))
        /\ sock' = SubSeq(sock, j + 1, Len(sock))
        /\ buffer' = buffer \o SubSeq(sock, 1, j)
        /\ call' = [call EXCEPT !["rx"].nleft = @ - j, !["rx"].ptr = @ + j]
        /\ UNCHANGED <<open, link, sent, recvd>>
    BY DEF recvn_recv, InLoop
  <1>2. /\ j \in Nat /\ j > 0 /\ j <= call["rx"].nleft /\ j <= Len(sock)
        /\ call["rx"].nleft \in Int
    <2>1. call["rx"].nleft \in Int /\ Len(sock) \in Nat /\ j \in Nat /\ j > 0
      BY StreamAssumption, StreamFacts, CallFacts
    <2>2. QED
      BY <1>1, <2>1 DEF Least
  <1>3. /\ sock' \in Seq(Int) /\ Len(sock') = Len(sock) - j
        /\ \A i \in 1 .. Len(sock) - j : sock'[i] = sock[i + j]
    <2>1. sock \in Seq(Int) /\ Len(sock) \in Nat
      BY StreamFacts
    <2>2. j \in 1 .. Len(sock)
      BY <1>2, <2>1
    <2>3. QED
      BY <1>1, <2>1, <2>2, Remainder
  <1>4. /\ buffer' \in Seq(Int) /\ Len(buffer') = Len(buffer) + j
        /\ \A i \in 1 .. Len(buffer) : buffer'[i] = buffer[i]
        /\ \A i \in Len(buffer) + 1 .. Len(buffer) + j : buffer'[i] = sock[i - Len(buffer)]
    <2> DEFINE b == SubSeq(sock, 1, j)
    <2>1. b \in Seq(Int) /\ Len(b) = j /\ \A i \in 1 .. j : b[i] = sock[i]
      <3>1. sock \in Seq(Int) /\ Len(sock) \in Nat
        BY StreamFacts
      <3>2. j \in 1 .. Len(sock)
        BY <1>2, <3>1
      <3>3. QED
        BY <3>1, <3>2, Beginning
    <2> HIDE DEF b
    <2>2. buffer' = buffer \o b /\ buffer \in Seq(Int) /\ Len(buffer) \in Nat
      BY <1>1, StreamFacts DEF b
    <2>3. \A i \in Len(buffer) + 1 .. Len(buffer) + j : i - Len(buffer) \in 1 .. j
      BY <1>2, <2>2
    <2>4. QED
      BY <2>1, <2>2, <2>3, Concat
  <1>5. /\ call' \in [End -> [busy : BOOLEAN, nleft : Int, ptr : Int]]
        /\ call'["rx"].busy = call["rx"].busy /\ call'["rx"].nleft = call["rx"].nleft - j
        /\ call'["tx"] = call["tx"]
    <2>1. /\ call \in [End -> [busy : BOOLEAN, nleft : Int, ptr : Int]]
          /\ "tx" \in End /\ "rx" \in End /\ "rx" # "tx" /\ j \in Int
      BY <1>2, StreamFacts
    <2>2. call' = [call EXCEPT !["rx"].nleft = @ - j, !["rx"].ptr = @ + j]
      BY <1>1
    <2>3. QED
      BY <2>1, <2>2, Advance
  <1>6. StreamType'
    BY <1>1, <1>3, <1>4, <1>5 DEF StreamInv, StreamType
  <1>7. SenderAt'
    BY <1>1, <1>5, StreamFacts DEF SenderAt
  <1>8. ReceiverAt'
    <2>1. /\ Len(recvd) <= Messages /\ Len(recvd) < Messages
          /\ call["rx"].nleft + Len(buffer) = Size(Len(recvd) + 1)
          /\ \A k \in 1 .. Len(recvd) : recvd[k].n \in -1 .. Size(k)
      BY <1>1, StreamFacts DEF ReceiverAt
    <2>2. call'["rx"].nleft >= 0 /\ call'["rx"].nleft + Len(buffer') = Size(Len(recvd) + 1)
      <3>1. /\ Len(buffer') = Len(buffer) + j /\ Len(buffer) \in Nat
            /\ call'["rx"].nleft = call["rx"].nleft - j
        BY <1>4, <1>5, StreamFacts
      <3>2. QED
        BY <1>2, <2>1, <3>1
    <2>3. QED
      BY <1>1, <1>5, <2>1, <2>2 DEF ReceiverAt
  <1>9. (NoError' <=> NoError) /\ (AllFull' <=> AllFull) /\ Framed'
    BY <1>1, StreamFacts DEF NoError, AllFull, Framed
  <1>10. sock # << >>
    BY <1>2, StreamFacts
  <1>11. ShortAtEnd' /\ Drained' /\ Told' /\ ShortGone'
    BY <1>1, <1>9, <1>10, StreamFacts DEF ShortAtEnd, Drained, Told, ShortGone
  <1>12. InStream'
    <2> SUFFICES ASSUME NoError, AllFull
                 PROVE  /\ \A i \in 1 .. Len(buffer') : buffer'[i] = First[Len(recvd') + 1] + i - 1
                        /\ \A i \in 1 .. Len(sock') :
                             sock'[i] = First[Len(recvd') + 1] + Len(buffer') + i - 1
                        /\ link' = "up" => First[Len(recvd') + 1] + Len(buffer') + Len(sock') = NextByte'
      BY <1>9 DEF InStream
    <2> DEFINE q == First[Len(recvd) + 1]
               n == Len(buffer)
    <2>1. /\ q \in Int /\ n \in Nat /\ Len(sock) \in Nat
          /\ \A i \in 1 .. n : buffer[i] = q + i - 1
          /\ \A i \in 1 .. Len(sock) : sock[i] = q + n + i - 1
          /\ link = "up" => q + n + Len(sock) = NextByte
          /\ link' = link /\ NextByte' = NextByte /\ First[Len(recvd') + 1] = q
      BY <1>1, <1>5, StreamFacts DEF InStream, NextByte
    <2>2. Len(buffer') = n + j
      BY <1>4
    <2> HIDE DEF q, n
    <2>3. \A i \in 1 .. Len(buffer') : buffer'[i] = q + i - 1
      <3>1. TAKE i \in 1 .. Len(buffer')
      <3>2. CASE i <= n
        BY <1>4, <2>1, <2>2, <3>2 DEF n
      <3>3. CASE i > n
        <4>1. i - n \in 1 .. Len(sock) /\ i \in n + 1 .. n + j
          BY <1>2, <2>1, <2>2, <3>3
        <4>2. buffer'[i] = sock[i - n]
          BY <1>4, <4>1 DEF n
        <4>3. QED
          BY <1>2, <2>1, <2>2, <4>1, <4>2
      <3>4. QED
        BY <1>2, <2>1, <2>2, <3>2, <3>3
    <2>4. \A i \in 1 .. Len(sock') : sock'[i] = q + Len(buffer') + i - 1
      <3>1. TAKE i \in 1 .. Len(sock')
      <3>2. i \in 1 .. Len(sock) - j /\ i + j \in 1 .. Len(sock) /\ sock'[i] = sock[i + j]
        <4>1. Len(sock') = Len(sock) - j
          BY <1>3
        <4>2. i \in 1 .. Len(sock) - j /\ i + j \in 1 .. Len(sock)
          BY <1>2, <2>1, <4>1
        <4>3. QED
          BY <1>3, <4>2
      <3>3. sock[i + j] = q + n + (i + j) - 1
        BY <2>1, <3>2
      <3>4. QED
        BY <1>2, <2>1, <2>2, <3>2, <3>3
    <2>5. link' = "up" => q + Len(buffer') + Len(sock') = NextByte'
      BY <1>2, <1>3, <2>1, <2>2
    <2>6. QED
      BY <2>1, <2>3, <2>4, <2>5
  <1>13. QED
    BY <1>6, <1>7, <1>8, <1>9, <1>11, <1>12 DEF StreamInv

\* _cs_recvn returns: an error, the size after the last byte, or what has
\* come before the end of the stream.
LEMMA RecvdStep ==
  ASSUME StreamInv, NEW r, call["rx"].busy, Return("rx", r), UNCHANGED <<open, sock>>,
         link' = link \/ (link = "lost" /\ link' = "told" /\ r = -1 /\ sock = << >>),
         \/ r = -1
         \/ call["rx"].nleft = 0 /\ r = Size(Len(recvd) + 1)
         \/ call["rx"].nleft > 0 /\ r = Size(Len(recvd) + 1) - call["rx"].nleft /\ AtEnd
  PROVE  StreamInv'
  <1> DEFINE k == Len(recvd) + 1
             new == [n |-> r, data |-> buffer]
  <1>1. /\ call' = [call EXCEPT !["rx"] = None]
        /\ recvd' = Append(recvd, new) /\ buffer' = << >>
        /\ UNCHANGED <<open, sock, sent>>
        /\ link' = link \/ (link = "lost" /\ link' = "told" /\ r = -1 /\ sock = << >>)
    BY StreamFacts DEF Return
  <1>2. /\ k \in 1 .. Messages /\ Size(k) \in Nat /\ First[k + 1] = First[k] + Size(k)
        /\ call["rx"].nleft >= 0 /\ call["rx"].nleft \in Int
        /\ call["rx"].nleft + Len(buffer) = Size(k) /\ Len(buffer) \in Nat
        /\ First[k] \in Int /\ First[k + 1] \in Int /\ Len(recvd) \in Nat
    <2>1. /\ Len(recvd) \in Nat /\ Len(recvd) < Messages /\ call["rx"].nleft >= 0
          /\ call["rx"].nleft + Len(buffer) = Size(k) /\ Len(buffer) \in Nat
      BY StreamFacts DEF ReceiverAt
    <2>2. k \in 1 .. Messages
      BY <2>1, FirstFacts
    <2>3. call["rx"].nleft \in Int /\ First[k] \in Int
      BY StreamFacts, CallFacts
    <2>4. Size(k) \in Nat /\ First[k + 1] = First[k] + Size(k)
      BY <2>2, FirstFacts
    <2> HIDE DEF k
    <2>5. First[k + 1] \in Int
      BY <2>3, <2>4
    <2>6. QED
      BY <2>1, <2>2, <2>3, <2>4, <2>5
  <1>3. /\ r \in -1 .. Size(k)
        /\ r = Size(k) => Len(buffer) = Size(k)
        /\ r \in 0 .. Size(k) - 1 =>
             sock = << >> /\ Len(buffer) = r /\ ("tx" \notin open \/ link = "told")
        /\ r = -1 \/ r = Size(k) \/ r \in 0 .. Size(k) - 1
    <2>1. AtEnd => sock = << >> /\ ("tx" \notin open \/ link = "told")
      BY DEF AtEnd
    <2>2. CASE r = -1
      BY <1>2, <2>2
    <2>3. CASE call["rx"].nleft = 0 /\ r = Size(k)
      BY <1>2, <2>3
    <2>4. CASE call["rx"].nleft > 0 /\ r = Size(k) - call["rx"].nleft /\ AtEnd
      <3> DEFINE z == Size(k)
                 l == call["rx"].nleft
                 m == Len(buffer)
      <3>1. z \in Nat /\ l \in Int /\ m \in Nat /\ l + m = z /\ l > 0 /\ r = z - l
        BY <1>2, <2>4
      <3> HIDE DEF z, l, m
      <3>2. r \in 0 .. z - 1 /\ m = r /\ r # z /\ r # -1 /\ r \in -1 .. z
        BY <3>1
      <3>3. sock = << >> /\ ("tx" \notin open \/ link = "told")
        BY <2>1, <2>4
      <3>4. QED
        BY <3>2, <3>3 DEF z, m
    <2>5. QED
      BY <2>2, <2>3, <2>4
  <1>4. /\ recvd \in Seq([n : Int, data : Seq(Int)]) /\ recvd' \in Seq([n : Int, data : Seq(Int)])
        /\ Len(recvd') = k
        /\ \A i \in 1 .. Len(recvd) : recvd'[i] = recvd[i]
        /\ recvd'[k] = new
    <2>1. recvd \in Seq([n : Int, data : Seq(Int)]) /\ new \in [n : Int, data : Seq(Int)]
      BY <1>3, StreamFacts DEF StreamType
    <2> HIDE DEF new
    <2>2. QED
      BY <1>1, <2>1
  <1>5. new.n = r /\ new.data = buffer
    OBVIOUS
  <1>6. \A i \in 1 .. k : i \in 1 .. Len(recvd) \/ i = k
    BY <1>2
  <1> HIDE DEF k, new
  <1>7. /\ call' \in [End -> [busy : BOOLEAN, nleft : Int, ptr : Int]]
        /\ ~call'["rx"].busy /\ call'["tx"] = call["tx"]
    BY <1>1, StreamFacts DEF None
  <1>8. StreamType'
    BY <1>1, <1>4, <1>7, StreamFacts DEF StreamType
  <1>9. SenderAt'
    BY <1>1, <1>7, StreamFacts DEF SenderAt
  <1>10. ReceiverAt'
    <2>1. \A i \in 1 .. Len(recvd') : recvd'[i].n \in -1 .. Size(i)
      BY <1>3, <1>4, <1>5, <1>6, StreamFacts DEF ReceiverAt
    <2>2. Len(recvd') <= Messages
      BY <1>2, <1>4, FirstFacts
    <2>3. QED
      BY <1>1, <1>7, <2>1, <2>2 DEF ReceiverAt
  <1>11. ShortAtEnd' /\ Told' /\ ShortGone'
    <2>1. link' = "told" => sock' = << >> /\ \E j \in 1 .. Len(recvd') : recvd'[j].n = -1
      <3>1. CASE link' = link
        <4>1. 1 .. Len(recvd) \subseteq 1 .. Len(recvd')
          BY <1>2, <1>4 DEF k
        <4>2. QED
          BY <1>1, <1>4, <3>1, <4>1, StreamFacts DEF Told
      <3>2. CASE link' # link
        <4>1. k \in 1 .. Len(recvd') /\ recvd'[k].n = -1
          BY <1>1, <1>2, <1>4, <1>5, <3>2
        <4>2. QED
          BY <1>1, <3>2, <4>1
      <3>3. QED
        BY <3>1, <3>2
    <2>2. \A i \in 1 .. Len(recvd') :
            recvd'[i].n \in 0 .. Size(i) - 1 => "tx" \notin open' \/ link' = "told"
      BY <1>1, <1>3, <1>4, <1>5, <1>6, StreamFacts DEF ShortGone
    <2>3. SUFFICES ASSUME NEW i \in 1 .. Len(recvd'), recvd'[i].n \in 0 .. Size(i) - 1
                   PROVE  /\ "tx" \notin open \/ \E j \in 1 .. i - 1 : recvd'[j].n = -1
                          /\ sock = << >>
                          /\ Len(recvd'[i].data) = recvd'[i].n
      BY <1>1, <2>1, <2>2 DEF ShortAtEnd, Told, ShortGone
    <2>4. CASE i = k
      <3>1. r \in 0 .. Size(k) - 1 /\ recvd'[i].data = buffer /\ recvd'[i].n = r
        BY <1>4, <1>5, <2>3, <2>4
      <3>2. k - 1 = Len(recvd) /\ (link = "told" => \E j \in 1 .. Len(recvd) : recvd[j].n = -1)
        BY <1>2, StreamFacts DEF Told, k
      <3>3. "tx" \notin open \/ \E j \in 1 .. i - 1 : recvd'[j].n = -1
        BY <1>3, <1>4, <2>4, <3>1, <3>2
      <3>4. QED
        BY <1>3, <3>1, <3>3
    <2>5. CASE i \in 1 .. Len(recvd)
      <3>1. /\ "tx" \notin open \/ \E j \in 1 .. i - 1 : recvd[j].n = -1
            /\ sock = << >> /\ Len(recvd[i].data) = recvd[i].n
        BY <1>4, <2>3, <2>5, StreamFacts DEF ShortAtEnd
      <3>2. 1 .. i - 1 \subseteq 1 .. Len(recvd)
        BY <1>2, <2>5
      <3>3. QED
        BY <1>4, <2>5, <3>1, <3>2
    <2>6. QED
      BY <1>4, <1>6, <2>4, <2>5
  <1>12. /\ NoError' => NoError /\ r # -1
         /\ AllFull' => AllFull /\ r = Size(k)
         /\ AllFull /\ r = Size(k) => AllFull'
    <2>1. 1 .. Len(recvd) \subseteq 1 .. k /\ k \in 1 .. k
      BY <1>2 DEF k
    <2>2. QED
      BY <1>1, <1>4, <1>5, <1>6, <2>1 DEF NoError, AllFull
  <1>13. ASSUME NoError, r = Size(k)
         PROVE  buffer = Message(k)
    <2>1. Len(buffer) = Size(k) /\ buffer \in Seq(Int)
      BY <1>3, <1>13, StreamFacts
    <2>2. CASE AllFull
      <3>1. \A i \in 1 .. Len(buffer) : buffer[i] = First[k] + i - 1
        BY <1>13, <2>2, StreamFacts DEF InStream, k
      <3>2. buffer = [i \in 1 .. Len(buffer) |-> buffer[i]]
        BY <2>1
      <3>3. QED
        BY <2>1, <3>1, <3>2 DEF Message, Bytes
    <2>3. CASE ~AllFull
      <3>1. buffer = << >>
        BY <1>13, <2>3, StreamFacts DEF Drained
      <3>2. QED
        BY <2>1, <3>1 DEF Message, Bytes
    <2>4. QED
      BY <2>2, <2>3
  <1>14. Framed'
    <2>1. SUFFICES ASSUME NoError', NEW i \in 1 .. Len(recvd'), recvd'[i].n = Size(i)
                   PROVE  recvd'[i].data = Message(i)
      BY DEF Framed
    <2>2. CASE i = k
      BY <1>4, <1>5, <1>12, <1>13, <2>1, <2>2
    <2>3. CASE i \in 1 .. Len(recvd)
      BY <1>4, <1>12, <2>1, <2>3, StreamFacts DEF Framed
    <2>4. QED
      BY <1>4, <1>6, <2>2, <2>3
  <1>15. Drained'
    <2>1. SUFFICES ASSUME NoError', ~AllFull'
                   PROVE  "tx" \notin open /\ sock = << >>
      BY <1>1 DEF Drained
    <2>2. CASE AllFull
      <3>1. r \in 0 .. Size(k) - 1
        BY <1>3, <1>12, <2>1, <2>2
      <3>2. link # "told"
        BY <1>12, <2>1, StreamFacts DEF NoError, Told
      <3>3. QED
        BY <1>3, <3>1, <3>2
    <2>3. CASE ~AllFull
      BY <1>12, <2>1, <2>3, StreamFacts DEF Drained
    <2>4. QED
      BY <2>2, <2>3
  <1>16. InStream'
    <2>1. SUFFICES ASSUME NoError', AllFull'
                   PROVE  /\ \A i \in 1 .. Len(buffer') : buffer'[i] = First[Len(recvd') + 1] + i - 1
                          /\ \A i \in 1 .. Len(sock') :
                               sock'[i] = First[Len(recvd') + 1] + Len(buffer') + i - 1
                          /\ link' = "up" => First[Len(recvd') + 1] + Len(buffer') + Len(sock') = NextByte'
      BY DEF InStream
    <2>2. NoError /\ AllFull /\ Len(buffer) = Size(k) /\ Len(buffer') = 0 /\ link' = link
      BY <1>1, <1>3, <1>12, <2>1
    <2>3. /\ \A i \in 1 .. Len(sock) : sock[i] = First[k] + Len(buffer) + i - 1
          /\ link = "up" => First[k] + Len(buffer) + Len(sock) = NextByte
      BY <2>2, StreamFacts DEF InStream, k
    <2>4. NextByte' = NextByte /\ First[Len(recvd') + 1] = First[k] + Len(buffer)
      BY <1>1, <1>2, <1>4, <1>7, <2>2 DEF NextByte
    <2>5. First[k] + Len(buffer) \in Int /\ First[k] + Len(buffer) + 0 = First[k] + Len(buffer)
      BY <1>2
    <2>6. QED
      BY <1>1, <2>2, <2>3, <2>4, <2>5
  <1>17. QED
    BY <1>8, <1>9, <1>10, <1>11, <1>14, <1>15, <1>16 DEF StreamInv

\* On a lost connection what send takes goes nowhere.
LEMMA VoidStep ==
  ASSUME StreamInv, NEW j \in 1 .. Cap, sendn_send(j), link # "up"
  PROVE  StreamInv'
  <1>1. /\ call["tx"].busy /\ j <= Least(call["tx"].nleft, Cap - Len(sock))
        /\ call' = [call EXCEPT !["tx"].nleft = @ - j, !["tx"].ptr = @ + j]
        /\ UNCHANGED <<open, link, sock, sent, recvd, buffer>>
    BY DEF sendn_send, InLoop
  <1>2. /\ call["tx"].nleft \in Int /\ call["tx"].ptr \in Int /\ j \in Int
        /\ j <= call["tx"].nleft
    <2>1. /\ call["tx"].nleft \in Int /\ call["tx"].ptr \in Int /\ j \in Int
          /\ Cap - Len(sock) \in Int
      BY StreamAssumption, StreamFacts, CallFacts
    <2>2. QED
      BY <1>1, <2>1 DEF Least
  <1>3. /\ call' \in [End -> [busy : BOOLEAN, nleft : Int, ptr : Int]]
        /\ call'["tx"].busy = call["tx"].busy /\ call'["tx"].nleft = call["tx"].nleft - j
        /\ call'["tx"].ptr = call["tx"].ptr + j
        /\ call'["rx"] = call["rx"]
    <2>1. /\ call \in [End -> [busy : BOOLEAN, nleft : Int, ptr : Int]]
          /\ "tx" \in End /\ "rx" \in End /\ "rx" # "tx"
      BY StreamFacts
    <2>2. QED
      BY <1>1, <1>2, <2>1, Advance
  <1>4. StreamType'
    BY <1>1, <1>3 DEF StreamInv, StreamType
  <1>5. SenderAt'
    <2>1. /\ Len(sent) < Messages /\ Len(sent) \in Nat /\ "tx" \in open
          /\ call["tx"].ptr + call["tx"].nleft = First[Len(sent) + 2]
      BY <1>1, StreamFacts DEF SenderAt
    <2>2. QED
      BY <1>1, <1>2, <1>3, <2>1, FirstFacts DEF SenderAt
  <1>6. ReceiverAt'
    BY <1>1, <1>3, StreamFacts DEF ReceiverAt
  <1>7. InStream'
    BY <1>1, StreamFacts DEF InStream, NoError, AllFull
  <1>8. Drained' /\ ShortAtEnd' /\ Framed' /\ Told' /\ ShortGone'
    BY <1>1, StreamFacts DEF Drained, ShortAtEnd, Framed, Told, ShortGone, NoError, AllFull
  <1>9. QED
    BY <1>4, <1>5, <1>6, <1>7, <1>8 DEF StreamInv

\* The connection is lost, and perhaps the end of what is on its way.
LEMMA LossStep ==
  ASSUME StreamInv, connection_lost
  PROVE  StreamInv'
  <1>1. /\ link = "up" /\ link' = "lost"
        /\ UNCHANGED <<open, call, sent, recvd, buffer>>
    BY DEF connection_lost
  <1>2. PICK n \in 0 .. Len(sock) : sock' = SubSeq(sock, 1, n)
    BY DEF connection_lost
  <1>3. /\ sock' \in Seq(Int) /\ Len(sock') = n /\ \A i \in 1 .. n : sock'[i] = sock[i]
        /\ n <= Len(sock) /\ n \in Nat
    <2>1. sock \in Seq(Int) /\ Len(sock) \in Nat
      BY StreamFacts
    <2>2. CASE n = 0
      BY <1>2, <2>1, <2>2
    <2>3. CASE n # 0
      <3>1. n \in 1 .. Len(sock)
        BY <2>1, <2>3
      <3>2. QED
        BY <1>2, <2>1, <3>1, Beginning
    <2>4. QED
      BY <2>2, <2>3
  <1>4. sock = << >> => sock' = << >>
    <2>1. sock = << >> => Len(sock) = 0
      OBVIOUS
    <2>2. sock = << >> => Len(sock') = 0
      BY <1>3, <2>1
    <2>3. QED
      BY <1>3, <2>2
  <1>5. StreamType' /\ SenderAt' /\ ReceiverAt'
    BY <1>1, <1>3, StreamFacts DEF StreamType, SenderAt, ReceiverAt
  <1>6. InStream'
    <2>1. \A i \in 1 .. Len(sock') : i \in 1 .. Len(sock)
      BY <1>3, StreamFacts
    <2>2. QED
      BY <1>1, <1>3, <2>1, StreamFacts DEF InStream, NoError, AllFull
  <1>7. Drained' /\ ShortAtEnd' /\ Framed' /\ Told' /\ ShortGone'
    BY <1>1, <1>4, StreamFacts DEF Drained, ShortAtEnd, Framed, Told, ShortGone, NoError, AllFull
  <1>8. QED
    BY <1>5, <1>6, <1>7 DEF StreamInv

LEMMA StreamStep ==
  ASSUME StreamInv, [Next]_vars
  PROVE  StreamInv'
  <1>1. ASSUME NEW j \in 1 .. Cap, sendn_send(j) PROVE StreamInv'
    BY <1>1, SendStep, VoidStep
  <1>2. CASE sendn_fail
    BY <1>2, SentStep DEF sendn_fail, InLoop
  <1>3. CASE sendn_return
    <2>1. call["tx"].busy /\ Len(sent) \in Nat /\ Len(sent) < Messages
      BY <1>3, StreamFacts DEF sendn_return, SenderAt
    <2>2. Size(Len(sent) + 1) \in Int
      BY <2>1, FirstFacts
    <2>3. QED
      BY <1>3, <2>2, SentStep DEF sendn_return
  <1>4. ASSUME NEW j \in 1 .. Cap, recvn_recv(j) PROVE StreamInv'
    BY <1>4, RecvStep
  <1>5. CASE recvn_end
    BY <1>5, RecvdStep DEF recvn_end, InLoop
  <1>6. CASE recvn_fail
    BY <1>6, RecvdStep DEF recvn_fail, InLoop
  <1>7. CASE recvn_return
    BY <1>7, RecvdStep DEF recvn_return
  <1>8. ASSUME NEW e \in End, interrupted(e) \/ cs_set_blocking(e) \/ cs_set_nonblocking(e)
        PROVE  StreamInv'
    BY <1>8, StreamFrame DEF interrupted, cs_set_blocking, cs_set_nonblocking, SetFlags
  <1>9. ASSUME NEW e \in End, begin(e) \/ close(e) PROVE StreamInv'
    BY <1>9, BeginStep, CloseStep
  <1>10. CASE connection_lost
    BY <1>10, LossStep
  <1>11. ASSUME NEW e \in End, kernel_error(e) PROVE StreamInv'
    BY <1>11, SentStep, RecvdStep DEF kernel_error, InLoop, End
  <1>12. CASE UNCHANGED vars
    BY <1>12, StreamFrame DEF vars
  <1>13. QED
    BY <1>1, <1>2, <1>3, <1>4, <1>5, <1>6, <1>7, <1>8, <1>9, <1>10, <1>11, <1>12
    DEF Next, Sender, Receiver

\* At the start the stream is empty on both sides.
LEMMA StreamStart ==
  ASSUME Init
  PROVE  StreamInv
  <1>1. /\ open = End /\ link = "up" /\ sock = << >> /\ sent = << >> /\ recvd = << >> /\ buffer = << >>
        /\ call = [e \in End |-> None] /\ "tx" \in End /\ "rx" \in End
    BY DEF Init, End
  <1>2. /\ sock \in Seq(Int) /\ sent \in Seq(Int) /\ buffer \in Seq(Int)
        /\ recvd \in Seq([n : Int, data : Seq(Int)])
        /\ Len(sock) = 0 /\ Len(sent) = 0 /\ Len(buffer) = 0 /\ Len(recvd) = 0
    BY <1>1
  <1>3. /\ call \in [End -> [busy : BOOLEAN, nleft : Int, ptr : Int]]
        /\ ~call["tx"].busy /\ ~call["rx"].busy
    BY <1>1 DEF None
  <1>4. StreamType
    BY <1>1, <1>2, <1>3 DEF StreamType
  <1>5. SenderAt /\ ReceiverAt
    BY <1>1, <1>2, <1>3, FirstFacts DEF SenderAt, ReceiverAt
  <1>6. First[1] \in Int
    BY FirstFacts
  <1>7. AllFull /\ InStream /\ Drained /\ ShortAtEnd /\ Framed /\ Told /\ ShortGone
    BY <1>1, <1>2, <1>3, <1>6
    DEF AllFull, InStream, Drained, ShortAtEnd, Framed, NextByte, Told, ShortGone
  <1>8. QED
    BY <1>4, <1>5, <1>7 DEF StreamInv

LEMMA StreamInvariant == Spec => []StreamInv
  <1>1. Init => StreamInv
    BY StreamStart
  <1>2. StreamInv /\ [Next]_vars => StreamInv'
    BY StreamStep
  <1>3. QED
    BY <1>1, <1>2, PTL DEF Spec

\* For messages of every number and length and a socket of every capacity:
\* while no call has failed, each call of _cs_recvn that returns the size of
\* its message has exactly that message in its buffer, however send and recv
\* cut the stream.
THEOREM MessagesFramed == Spec => []Framed
  <1>1. StreamInv => Framed
    BY DEF StreamInv
  <1>2. QED
    BY <1>1, StreamInvariant, PTL

\* A call of _cs_recvn that returns less than it was asked for has met the end
\* of the stream, or comes after one that told of its loss, and has as much in
\* its buffer as it says.
THEOREM ShortMeansEnd == Spec => []ShortAtEnd
  <1>1. StreamInv => ShortAtEnd
    BY DEF StreamInv
  <1>2. QED
    BY <1>1, StreamInvariant, PTL

\* While the connection is up and no call has failed or fallen short, what _cs_sendn reports as sent is
\* in the socket or with the receiver to the last byte.
THEOREM SentMessagesWhole == Spec => []SentWhole
  <1>1. StreamInv => SentWhole
    BY StreamFacts DEF SentWhole, InStream, AllFull, NextByte
  <1>2. QED
    BY <1>1, StreamInvariant, PTL

-----------------------------------------------------------------------------
(***************************************************************************)
(* The stream under failures.  What is held lies before the sender's next  *)
(* byte, and of the message under way everything is held that send took.   *)
(***************************************************************************)
Behind == /\ \A k \in 1 .. Len(recvd) : \A b \in Got(k) : b < NextByte
          /\ \A b \in BytesOf(buffer) \cup BytesOf(sock) : b < NextByte

UnderWay == link = "up" /\ call["tx"].busy =>
              \A b \in First[Len(sent) + 1] .. call["tx"].ptr - 1 : Held(b)

IntactInv == NoneTwice /\ NoneMissing /\ Behind /\ UnderWay

\* The bytes of a sequence and its extension.
LEMMA ConcatBytes ==
  ASSUME NEW s \in Seq(Int), NEW t \in Seq(Int)
  PROVE  /\ BytesOf(s \o t) = BytesOf(s) \cup BytesOf(t)
         /\ Increasing(s) /\ Increasing(t) /\ Below(BytesOf(s), BytesOf(t)) => Increasing(s \o t)
  <1> DEFINE u == s \o t
  <1>1. /\ Len(s) \in Nat /\ Len(t) \in Nat /\ u \in Seq(Int) /\ Len(u) = Len(s) + Len(t)
        /\ \A i \in 1 .. Len(s) : u[i] = s[i]
        /\ \A i \in Len(s) + 1 .. Len(s) + Len(t) : u[i] = t[i - Len(s)]
    BY Concat
  <1> HIDE DEF u
  <1>2. \A i \in 1 .. Len(t) : i + Len(s) \in 1 .. Len(u) /\ u[i + Len(s)] = t[i]
    <2>1. TAKE i \in 1 .. Len(t)
    <2> DEFINE m == i + Len(s)
    <2>2. m \in Len(s) + 1 .. Len(s) + Len(t) /\ m - Len(s) = i /\ m \in 1 .. Len(u)
      BY <1>1
    <2> HIDE DEF m
    <2>3. u[m] = t[i]
      BY <1>1, <2>2
    <2>4. QED
      BY <2>2, <2>3 DEF m
  <1>3. \A i \in 1 .. Len(u) : \/ i \in 1 .. Len(s)
                               \/ i \in Len(s) + 1 .. Len(s) + Len(t) /\ i - Len(s) \in 1 .. Len(t)
    BY <1>1
  <1>4. \A i \in 1 .. Len(s) : i \in 1 .. Len(u)
    BY <1>1
  <1>5. BytesOf(u) = BytesOf(s) \cup BytesOf(t)
    <2>1. \A b \in BytesOf(u) : b \in BytesOf(s) \cup BytesOf(t)
      BY <1>1, <1>3 DEF BytesOf
    <2>2. \A b \in BytesOf(s) \cup BytesOf(t) : b \in BytesOf(u)
      <3>1. TAKE b \in BytesOf(s) \cup BytesOf(t)
      <3>2. CASE b \in BytesOf(s)
        <4>1. PICK i \in 1 .. Len(s) : b = s[i]
          BY <3>2 DEF BytesOf
        <4>2. i \in 1 .. Len(u) /\ b = u[i]
          BY <1>1, <1>4, <4>1
        <4>3. QED
          BY <4>2 DEF BytesOf
      <3>3. CASE b \in BytesOf(t)
        <4>1. PICK i \in 1 .. Len(t) : b = t[i]
          BY <3>3 DEF BytesOf
        <4>2. i + Len(s) \in 1 .. Len(u) /\ b = u[i + Len(s)]
          BY <1>2, <4>1
        <4>3. QED
          BY <4>2 DEF BytesOf
      <3>4. QED
        BY <3>1, <3>2, <3>3
    <2>3. QED
      BY <2>1, <2>2
  <1>6. ASSUME Increasing(s), Increasing(t), Below(BytesOf(s), BytesOf(t))
        PROVE  Increasing(u)
    <2>1. SUFFICES ASSUME NEW i \in 1 .. Len(u), NEW j \in 1 .. Len(u), i < j
                   PROVE  u[i] < u[j]
      BY DEF Increasing
    <2>2. CASE j \in 1 .. Len(s)
      <3>1. i \in 1 .. Len(s)
        BY <1>1, <2>1, <2>2
      <3>2. QED
        BY <1>1, <1>6, <2>1, <2>2, <3>1 DEF Increasing
    <2>3. CASE i \in 1 .. Len(s) /\ j \notin 1 .. Len(s)
      <3>1. j - Len(s) \in 1 .. Len(t) /\ u[j] = t[j - Len(s)] /\ u[i] = s[i]
        BY <1>1, <1>3, <2>3
      <3>2. u[i] \in BytesOf(s) /\ u[j] \in BytesOf(t)
        BY <2>3, <3>1 DEF BytesOf
      <3>3. QED
        BY <1>6, <3>2 DEF Below
    <2>4. CASE i \notin 1 .. Len(s)
      <3>1. /\ i - Len(s) \in 1 .. Len(t) /\ u[i] = t[i - Len(s)]
            /\ j \notin 1 .. Len(s) /\ i - Len(s) < j - Len(s)
        <4>1. i \in Len(s) + 1 .. Len(s) + Len(t) /\ i - Len(s) \in 1 .. Len(t)
          BY <1>3, <2>4
        <4>2. u[i] = t[i - Len(s)]
          BY <1>1, <4>1
        <4>3. i \in Int /\ j \in Int /\ Len(s) \in Int /\ i > Len(s)
          BY <1>1, <4>1
        <4>4. j \notin 1 .. Len(s) /\ i - Len(s) < j - Len(s)
          BY <2>1, <4>3
        <4>5. QED
          BY <4>1, <4>2, <4>4
      <3>2. j - Len(s) \in 1 .. Len(t) /\ u[j] = t[j - Len(s)]
        BY <1>1, <1>3, <3>1
      <3>3. QED
        BY <1>6, <3>1, <3>2 DEF Increasing
    <2>5. QED
      BY <2>2, <2>3, <2>4
  <1>7. QED
    BY <1>5, <1>6 DEF u

\* The bytes of a sequence that is cut in two.
LEMMA CutBytes ==
  ASSUME NEW s \in Seq(Int), NEW j \in 1 .. Len(s),
         NEW x, NEW y, x = SubSeq(s, 1, j), y = SubSeq(s, j + 1, Len(s))
  PROVE  /\ BytesOf(s) = BytesOf(x) \cup BytesOf(y)
         /\ Increasing(s) => Increasing(x) /\ Increasing(y) /\ Below(BytesOf(x), BytesOf(y))
  <1>1. /\ Len(s) \in Nat /\ j \in Nat /\ j <= Len(s)
        /\ Len(x) = j /\ \A i \in 1 .. j : x[i] = s[i]
        /\ Len(y) = Len(s) - j /\ \A i \in 1 .. Len(s) - j : y[i] = s[i + j]
    BY Beginning, Remainder
  <1>2. /\ \A i \in 1 .. j : i \in 1 .. Len(s)
        /\ \A i \in 1 .. Len(s) - j : i + j \in 1 .. Len(s)
        /\ \A i \in 1 .. Len(s) : i \in 1 .. j \/ (i - j \in 1 .. Len(s) - j /\ (i - j) + j = i)
    BY <1>1
  <1>3. BytesOf(s) = BytesOf(x) \cup BytesOf(y)
    <2>1. \A b \in BytesOf(s) : b \in BytesOf(x) \cup BytesOf(y)
      <3>1. TAKE b \in BytesOf(s)
      <3>2. PICK i \in 1 .. Len(s) : b = s[i]
        BY <3>1 DEF BytesOf
      <3>3. CASE i \in 1 .. j
        BY <1>1, <3>2, <3>3 DEF BytesOf
      <3>4. CASE i - j \in 1 .. Len(s) - j /\ (i - j) + j = i
        <4>1. y[i - j] = b
          BY <1>1, <3>2, <3>4
        <4>2. QED
          BY <1>1, <3>4, <4>1 DEF BytesOf
      <3>5. QED
        BY <1>2, <3>3, <3>4
    <2>2. \A b \in BytesOf(x) \cup BytesOf(y) : b \in BytesOf(s)
      BY <1>1, <1>2 DEF BytesOf
    <2>3. QED
      BY <2>1, <2>2
  <1>4. ASSUME Increasing(s)
        PROVE  Increasing(x) /\ Increasing(y) /\ Below(BytesOf(x), BytesOf(y))
    <2>1. Increasing(x)
      BY <1>1, <1>2, <1>4 DEF Increasing
    <2>2. Increasing(y)
      <3>1. SUFFICES ASSUME NEW i \in 1 .. Len(s) - j, NEW k \in 1 .. Len(s) - j, i < k
                     PROVE  y[i] < y[k]
        BY <1>1 DEF Increasing
      <3>2. i + j \in 1 .. Len(s) /\ k + j \in 1 .. Len(s) /\ i + j < k + j
        BY <1>1, <3>1
      <3>3. QED
        BY <1>1, <1>4, <3>2 DEF Increasing
    <2>3. Below(BytesOf(x), BytesOf(y))
      <3>1. ASSUME NEW i \in 1 .. j, NEW k \in 1 .. Len(s) - j
            PROVE  x[i] < y[k]
        <4>1. i \in 1 .. Len(s) /\ k + j \in 1 .. Len(s) /\ i < k + j
          BY <1>1
        <4>2. QED
          BY <1>1, <1>4, <4>1 DEF Increasing
      <3>2. ASSUME NEW a \in BytesOf(x), NEW b \in BytesOf(y)
            PROVE  a < b
        <4>1. PICK i \in 1 .. Len(x) : a = x[i]
          BY DEF BytesOf
        <4>2. PICK k \in 1 .. Len(y) : b = y[k]
          BY DEF BytesOf
        <4>3. i \in 1 .. j /\ k \in 1 .. Len(s) - j
          BY <1>1, <4>1, <4>2
        <4>4. QED
          BY <3>1, <4>1, <4>2, <4>3
      <3>3. QED
        BY <3>2 DEF Below
    <2>4. QED
      BY <2>1, <2>2, <2>3
  <1>5. QED
    BY <1>3, <1>4

\* The bytes of the first part of a sequence, which may be empty.
LEMMA PrefixBytes ==
  ASSUME NEW s \in Seq(Int), NEW m \in 0 .. Len(s), Increasing(s)
  PROVE  BytesOf(SubSeq(s, 1, m)) \subseteq BytesOf(s) /\ Increasing(SubSeq(s, 1, m))
  <1>1. CASE m = 0
    <2>1. Len(SubSeq(s, 1, m)) = 0
      BY <1>1
    <2>2. QED
      BY <2>1 DEF BytesOf, Increasing
  <1>2. CASE m # 0
    <2>1. m \in 1 .. Len(s)
      BY <1>2
    <2> DEFINE x == SubSeq(s, 1, m)
    <2>2. Len(x) = m /\ \A i \in 1 .. m : x[i] = s[i] /\ i \in 1 .. Len(s)
      BY <2>1, Beginning
    <2> HIDE DEF x
    <2>3. Increasing(x)
      BY <2>2 DEF Increasing
    <2>4. BytesOf(x) \subseteq BytesOf(s)
      BY <2>2 DEF BytesOf
    <2>5. QED
      BY <2>3, <2>4 DEF x
  <1>3. QED
    BY <1>1, <1>2

\* What send takes: the next j bytes.
LEMMA RunBytes ==
  ASSUME NEW p \in Int, NEW j \in Nat
  PROVE  /\ Bytes(p, j) \in Seq(Int)
         /\ BytesOf(Bytes(p, j)) = p .. p + j - 1
         /\ Increasing(Bytes(p, j))
  <1> DEFINE s == Bytes(p, j)
  <1>1. s \in Seq(Int) /\ Len(s) = j /\ \A i \in 1 .. j : s[i] = p + i - 1
    BY DEF Bytes
  <1> HIDE DEF s
  <1>2. Increasing(s)
    BY <1>1 DEF Increasing
  <1>3. \A b \in p .. p + j - 1 : b - p + 1 \in 1 .. j /\ p + (b - p + 1) - 1 = b
    OBVIOUS
  <1>4. \A b \in p .. p + j - 1 : b \in BytesOf(s)
    <2>1. TAKE b \in p .. p + j - 1
    <2>2. b - p + 1 \in 1 .. j /\ s[b - p + 1] = b
      BY <1>1, <1>3
    <2>3. QED
      BY <1>1, <2>2 DEF BytesOf
  <1>5. \A i \in 1 .. j : s[i] \in p .. p + j - 1
    BY <1>1
  <1>6. BytesOf(s) = p .. p + j - 1
    BY <1>1, <1>4, <1>5 DEF BytesOf
  <1>7. QED
    BY <1>1, <1>2, <1>6 DEF s

\* Bytes are numbers.
LEMMA HeldNumbers ==
  ASSUME StreamType
  PROVE  /\ \A k \in 1 .. Len(recvd) : \A b \in Got(k) : b \in Int
         /\ \A b \in BytesOf(buffer) \cup BytesOf(sock) : b \in Int
  <1>1. \A s \in Seq(Int) : \A b \in BytesOf(s) : b \in Int
    BY DEF BytesOf
  <1>2. sock \in Seq(Int) /\ buffer \in Seq(Int) /\ recvd \in Seq([n : Int, data : Seq(Int)])
    BY DEF StreamType
  <1>3. \A k \in 1 .. Len(recvd) : recvd[k].data \in Seq(Int)
    <2> DEFINE T == [n : Int, data : Seq(Int)]
    <2>1. recvd \in Seq(T) /\ \A x \in T : x.data \in Seq(Int)
      BY <1>2
    <2> HIDE DEF T
    <2>2. \A k \in 1 .. Len(recvd) : recvd[k] \in T
      BY <2>1
    <2>3. QED
      BY <2>1, <2>2
  <1>4. QED
    BY <1>1, <1>2, <1>3 DEF Got

\* A step that moves no byte and does not take the sender back.
LEMMA IntactFrame ==
  ASSUME IntactInv, NextByte \in Int, NextByte' \in Int, NextByte <= NextByte', StreamType,
         UNCHANGED <<sock, recvd, buffer>>
  PROVE  /\ NoneTwice' /\ Behind'
         /\ \A b : Held(b) => Held(b)'
  <1>1. NoneTwice'
    BY DEF IntactInv, NoneTwice, Got
  <1>2. \A b : Held(b) => Held(b)'
    BY DEF Held, Got
  <1>3. Behind'
    <2>1. /\ \A k \in 1 .. Len(recvd) : \A b \in Got(k) : b \in Int
          /\ \A b \in BytesOf(buffer) \cup BytesOf(sock) : b \in Int
      BY HeldNumbers
    <2>2. /\ \A k \in 1 .. Len(recvd) : \A b \in Got(k) : b < NextByte'
          /\ \A b \in BytesOf(buffer) \cup BytesOf(sock) : b < NextByte'
      BY <2>1 DEF IntactInv, Behind
    <2>3. QED
      BY <2>2 DEF Behind, Got
  <1>4. QED
    BY <1>1, <1>2, <1>3

\* Where the sender is, in numbers.
LEMMA NextByteFacts ==
  ASSUME StreamInv
  PROVE  /\ NextByte \in Int
         /\ call["tx"].busy => /\ Len(sent) + 2 \in 1 .. Messages + 1
                               /\ First[Len(sent) + 2] \in Int
                               /\ call["tx"].ptr \in Int /\ call["tx"].nleft \in Int
                               /\ call["tx"].ptr <= First[Len(sent) + 2]
                               /\ call["tx"].nleft = 0 => call["tx"].ptr = First[Len(sent) + 2]
  <1>1. call["tx"].ptr \in Int /\ call["tx"].nleft \in Int /\ First[Len(sent) + 1] \in Int
    BY StreamFacts, CallFacts
  <1>2. ASSUME call["tx"].busy
        PROVE  /\ Len(sent) + 2 \in 1 .. Messages + 1 /\ First[Len(sent) + 2] \in Int
               /\ call["tx"].nleft >= 0
               /\ call["tx"].ptr + call["tx"].nleft = First[Len(sent) + 2]
    <2>1. /\ Len(sent) \in Nat /\ Len(sent) < Messages /\ call["tx"].nleft >= 0
          /\ call["tx"].ptr + call["tx"].nleft = First[Len(sent) + 2]
      BY <1>2, StreamFacts DEF SenderAt
    <2>2. Len(sent) + 2 \in 1 .. Messages + 1
      BY <2>1, FirstFacts
    <2>3. QED
      BY <2>1, <2>2, FirstFacts
  <1>3. QED
    BY <1>1, <1>2 DEF NextByte

LEMMA IntactBegin ==
  ASSUME StreamInv, IntactInv, NEW e \in End, begin(e)
  PROVE  IntactInv'
  <1>1. /\ ~call[e].busy
        /\ call' = [call EXCEPT ![e] = [busy |-> TRUE, nleft |-> Size(Results(e) + 1),
                                       ptr |-> First[Results(e) + 1]]]
        /\ UNCHANGED <<link, sock, sent, recvd, buffer>>
    BY DEF begin
  <1>2. NextByte' = NextByte
    BY <1>1, StreamFacts DEF NextByte, Results
  <1>3. NoneTwice' /\ Behind' /\ \A b : Held(b) => Held(b)'
    BY <1>1, <1>2, IntactFrame, NextByteFacts, StreamFacts
  <1>4. NoneMissing'
    BY <1>1, <1>3 DEF IntactInv, NoneMissing
  <1>5. UnderWay'
    <2>1. CASE e = "tx"
      <3>1. call'["tx"].ptr = First[Len(sent) + 1] /\ First[Len(sent) + 1] \in Int
        BY <1>1, <2>1, StreamFacts DEF Results
      <3>2. First[Len(sent) + 1] .. First[Len(sent) + 1] - 1 = {}
        BY <3>1
      <3>3. QED
        BY <1>1, <3>1, <3>2 DEF UnderWay
    <2>2. CASE e = "rx"
      <3>1. call'["tx"] = call["tx"]
        BY <1>1, <2>2, StreamFacts
      <3>2. QED
        BY <1>1, <1>3, <3>1 DEF IntactInv, UnderWay
    <2>3. QED
      BY <2>1, <2>2 DEF End
  <1>6. QED
    BY <1>3, <1>4, <1>5 DEF IntactInv

\* send takes bytes: they follow everything that is held.
LEMMA IntactSend ==
  ASSUME StreamInv, IntactInv, NEW j \in 1 .. Cap, sendn_send(j)
  PROVE  IntactInv'
  <1> DEFINE p == call["tx"].ptr
             b == Bytes(p, j)
  <1>1. /\ call["tx"].busy
        /\ call' = [call EXCEPT !["tx"].nleft = @ - j, !["tx"].ptr = @ + j]
        /\ sock' = IF link = "up" THEN sock \o b ELSE sock
        /\ UNCHANGED <<link, sent, recvd, buffer>>
    BY DEF sendn_send, InLoop
  <1>2. /\ p \in Int /\ j \in Nat /\ j > 0 /\ sock \in Seq(Int) /\ First[Len(sent) + 1] \in Int
        /\ NextByte = p
    <2>1. j \in Nat /\ j > 0
      BY StreamAssumption
    <2>2. p \in Int
      BY StreamFacts, CallFacts
    <2>3. QED
      BY <1>1, <2>1, <2>2, StreamFacts DEF NextByte
  <1>3. call'["tx"].busy /\ call'["tx"].ptr = p + j
    <2>1. /\ call \in [End -> [busy : BOOLEAN, nleft : Int, ptr : Int]]
          /\ "tx" \in End /\ j \in Int
      BY <1>2, StreamFacts
    <2>2. QED
      BY <1>1, <2>1, Advance
  <1>4. NextByte' = p + j
    BY <1>3 DEF NextByte
  <1>5. CASE link # "up"
    <2>1. NoneTwice' /\ Behind'
      <3>1. UNCHANGED <<sock, recvd, buffer>> /\ NextByte <= NextByte' /\ NextByte' \in Int
        BY <1>1, <1>2, <1>4, <1>5
      <3>2. QED
        BY <1>2, <3>1, IntactFrame, StreamFacts
    <2>2. NoneMissing' /\ UnderWay'
      BY <1>1, <1>5 DEF NoneMissing, UnderWay
    <2>3. QED
      BY <2>1, <2>2 DEF IntactInv
  <1>6. CASE link = "up"
    <2>1. b \in Seq(Int) /\ BytesOf(b) = p .. p + j - 1 /\ Increasing(b)
      BY <1>2, RunBytes
    <2>2. sock' = sock \o b
      BY <1>1, <1>6
    <2>3. /\ NoneTwice /\ Behind /\ NoneMissing /\ UnderWay
      BY DEF IntactInv
    <2>4. /\ \A c \in BytesOf(sock) \cup BytesOf(buffer) : c \in Int /\ c < p
          /\ \A k \in 1 .. Len(recvd) : \A c \in Got(k) : c \in Int /\ c < p
      BY <1>2, <2>3, StreamFacts, HeldNumbers DEF Behind
    <2>5. \A c \in BytesOf(b) : c \in Int /\ p <= c /\ c < p + j
      BY <1>2, <2>1
    <2> HIDE DEF b, p
    <2>6. Below(BytesOf(sock), BytesOf(b)) /\ Below(BytesOf(buffer), BytesOf(b))
          /\ \A k \in 1 .. Len(recvd) : Below(Got(k), BytesOf(b))
      BY <1>2, <2>4, <2>5 DEF Below
    <2>7. BytesOf(sock') = BytesOf(sock) \cup BytesOf(b) /\ Increasing(sock')
      BY <1>2, <2>1, <2>2, <2>3, <2>6, ConcatBytes DEF NoneTwice
    <2>8. NoneTwice'
      <3>1. /\ \A k \in 1 .. Len(recvd) : Increasing(recvd[k].data)
            /\ Increasing(buffer) /\ Increasing(sock')
            /\ \A i, k \in 1 .. Len(recvd) : i < k => Below(Got(i), Got(k))
        BY <2>3, <2>7 DEF NoneTwice
      <3>2. \A k \in 1 .. Len(recvd) : Below(Got(k), BytesOf(buffer) \cup BytesOf(sock'))
        BY <2>3, <2>6, <2>7 DEF NoneTwice, Below
      <3>3. Below(BytesOf(buffer), BytesOf(sock'))
        BY <2>3, <2>6, <2>7 DEF NoneTwice, Below
      <3>4. QED
        BY <1>1, <3>1, <3>2, <3>3 DEF NoneTwice, Got
    <2>9. Behind'
      <3>1. /\ \A k \in 1 .. Len(recvd) : \A c \in Got(k) : c < p + j
            /\ \A c \in BytesOf(buffer) \cup BytesOf(sock) \cup BytesOf(b) : c < p + j
        BY <1>2, <2>4, <2>5
      <3>2. QED
        BY <1>1, <1>4, <2>7, <3>1 DEF Behind, Got
    <2>10. \A c : Held(c) \/ c \in BytesOf(b) => Held(c)'
      BY <1>1, <2>7 DEF Held, Got
    <2>11. NoneMissing'
      BY <1>1, <2>3, <2>10 DEF NoneMissing
    <2>12. UnderWay'
      <3>1. \A c \in First[Len(sent) + 1] .. call'["tx"].ptr - 1 : Held(c)'
        <4>0. TAKE c \in First[Len(sent) + 1] .. call'["tx"].ptr - 1
        <4> DEFINE q == call'["tx"].ptr
        <4>1. c \in First[Len(sent) + 1] .. p + j - 1
          <5>1. c \in First[Len(sent) + 1] .. q - 1 /\ q = p + j
            BY <1>3, <4>0
          <5> HIDE DEF q
          <5>2. QED
            BY <1>2, <5>1
        <4>2. CASE c < p
          <5>1. c \in First[Len(sent) + 1] .. p - 1
            BY <1>2, <4>1, <4>2
          <5>2. QED
            BY <1>1, <1>6, <2>3, <2>10, <5>1 DEF UnderWay, p
        <4>3. CASE p <= c
          <5>1. c \in p .. p + j - 1
            BY <1>2, <4>1, <4>3
          <5>2. QED
            BY <2>1, <2>10, <5>1
        <4>4. c \in Int
          BY <1>2, <4>1
        <4>5. QED
          BY <1>2, <4>2, <4>3, <4>4
      <3>2. QED
        BY <1>1, <3>1 DEF UnderWay
    <2>13. QED
      BY <2>8, <2>9, <2>11, <2>12 DEF IntactInv
  <1>7. QED
    BY <1>5, <1>6

\* _cs_sendn returns: what it reports as sent is all held.
LEMMA IntactSent ==
  ASSUME StreamInv, IntactInv, NEW r \in Int, call["tx"].busy, Return("tx", r),
         UNCHANGED <<link, sock>>, r = -1 \/ call["tx"].nleft = 0
  PROVE  IntactInv'
  <1>1. /\ call' = [call EXCEPT !["tx"] = None] /\ sent' = Append(sent, r)
        /\ UNCHANGED <<link, sock, recvd, buffer>>
    BY DEF Return
  <1>2. /\ Len(sent) \in Nat /\ Len(sent') = Len(sent) + 1
        /\ \A k \in 1 .. Len(sent) : sent'[k] = sent[k]
        /\ sent'[Len(sent) + 1] = r
    <2>1. sent \in Seq(Int)
      BY StreamFacts DEF StreamType
    <2>2. QED
      BY <1>1, <2>1
  <1>3. ~call'["tx"].busy
    BY <1>1, StreamFacts DEF None
  <1>4. NextByte' = First[Len(sent) + 2] /\ NextByte = call["tx"].ptr
    BY <1>2, <1>3 DEF NextByte
  <1>5. NextByte \in Int /\ NextByte' \in Int /\ NextByte <= NextByte'
    BY <1>4, NextByteFacts
  <1>6. NoneTwice' /\ Behind' /\ \A b : Held(b) => Held(b)'
    BY <1>1, <1>5, IntactFrame, StreamFacts
  <1>7. NoneMissing'
    <2>1. SUFFICES ASSUME link = "up", NEW k \in 1 .. Len(sent) + 1, sent'[k] # -1,
                          NEW b \in First[k] .. First[k + 1] - 1
                   PROVE  Held(b)
      BY <1>1, <1>2, <1>6 DEF NoneMissing
    <2>2. CASE k \in 1 .. Len(sent)
      BY <1>2, <2>1, <2>2 DEF IntactInv, NoneMissing
    <2>3. CASE k = Len(sent) + 1
      <3>1. call["tx"].ptr = First[Len(sent) + 2] /\ Len(sent) + 1 + 1 = Len(sent) + 2
        BY <1>2, <2>1, <2>3, NextByteFacts
      <3>2. b \in First[Len(sent) + 1] .. call["tx"].ptr - 1
        BY <2>1, <2>3, <3>1
      <3>3. QED
        BY <2>1, <3>2 DEF IntactInv, UnderWay
    <2>4. QED
      BY <1>2, <2>2, <2>3
  <1>8. UnderWay'
    BY <1>3 DEF UnderWay
  <1>9. QED
    BY <1>6, <1>7, <1>8 DEF IntactInv

\* recv moves the first bytes of the socket to the end of the buffer.
LEMMA IntactRecv ==
  ASSUME StreamInv, IntactInv, NEW j \in 1 .. Cap, recvn_recv(j)
  PROVE  IntactInv'
  <1> DEFINE x == SubSeq(sock, 1, j)
             y == SubSeq(sock, j + 1, Len(sock))
  <1>1. /\ j <= Least(call["rx"].nleft, Len(sock))
        /\ sock' = y /\ buffer' = buffer \o x
        /\ call' = [call EXCEPT !["rx"].nleft = @ - j, !["rx"].ptr = @ + j]
        /\ UNCHANGED <<link, sent, recvd>>
    BY DEF recvn_recv
  <1>2. sock \in Seq(Int) /\ buffer \in Seq(Int) /\ j \in 1 .. Len(sock) /\ j \in Int
    <2>1. /\ call["rx"].nleft \in Int /\ Len(sock) \in Nat /\ j \in Nat /\ j > 0
          /\ sock \in Seq(Int) /\ buffer \in Seq(Int)
      BY StreamAssumption, StreamFacts, CallFacts
    <2>2. QED
      BY <1>1, <2>1 DEF Least
  <1>3. call'["tx"] = call["tx"]
    <2>1. /\ call \in [End -> [busy : BOOLEAN, nleft : Int, ptr : Int]]
          /\ "tx" \in End /\ "rx" \in End /\ "rx" # "tx"
      BY StreamFacts
    <2>2. QED
      BY <1>1, <1>2, <2>1, Advance
  <1>4. NextByte' = NextByte
    BY <1>1, <1>3 DEF NextByte
  <1>5. NoneTwice /\ Behind /\ NoneMissing /\ UnderWay
    BY DEF IntactInv
  <1>6. x \in Seq(Int)
    BY <1>2, Beginning
  <1>7. /\ BytesOf(sock) = BytesOf(x) \cup BytesOf(y)
        /\ Increasing(sock) => Increasing(x) /\ Increasing(y) /\ Below(BytesOf(x), BytesOf(y))
    BY <1>2, CutBytes
  <1> HIDE DEF x, y
  <1>8. Below(BytesOf(buffer), BytesOf(x)) /\ Below(BytesOf(buffer), BytesOf(y))
    BY <1>5, <1>7 DEF NoneTwice, Below
  <1>9. /\ BytesOf(buffer') = BytesOf(buffer) \cup BytesOf(x)
        /\ Increasing(buffer')
    BY <1>1, <1>2, <1>5, <1>6, <1>7, <1>8, ConcatBytes DEF NoneTwice
  <1>10. BytesOf(buffer') \cup BytesOf(sock') = BytesOf(buffer) \cup BytesOf(sock)
    BY <1>1, <1>7, <1>9
  <1>11. Below(BytesOf(buffer'), BytesOf(sock'))
    BY <1>1, <1>5, <1>7, <1>8, <1>9 DEF Below, NoneTwice
  <1>12. NoneTwice'
    <2>1. /\ \A k \in 1 .. Len(recvd) : Increasing(recvd[k].data)
          /\ Increasing(buffer') /\ Increasing(sock')
          /\ \A i, k \in 1 .. Len(recvd) : i < k => Below(Got(i), Got(k))
          /\ \A k \in 1 .. Len(recvd) : Below(Got(k), BytesOf(buffer') \cup BytesOf(sock'))
      BY <1>1, <1>5, <1>7, <1>9, <1>10 DEF NoneTwice
    <2>2. QED
      BY <1>1, <1>11, <2>1 DEF NoneTwice, Got
  <1>13. Behind'
    <2>1. /\ \A k \in 1 .. Len(recvd) : \A b \in Got(k) : b < NextByte
          /\ \A b \in BytesOf(buffer') \cup BytesOf(sock') : b < NextByte
      BY <1>5, <1>10 DEF Behind
    <2>2. QED
      BY <1>1, <1>4, <2>1 DEF Behind, Got
  <1>14. \A b : Held(b) => Held(b)'
    BY <1>1, <1>10 DEF Held, Got
  <1>15. NoneMissing' /\ UnderWay'
    BY <1>1, <1>3, <1>5, <1>14 DEF NoneMissing, UnderWay
  <1>16. QED
    BY <1>12, <1>13, <1>15 DEF IntactInv

\* _cs_recvn returns: the buffer is the caller's.
LEMMA IntactRecvd ==
  ASSUME StreamInv, IntactInv, NEW r \in Int, Return("rx", r), UNCHANGED <<sock>>,
         link' = link \/ link' # "up"
  PROVE  IntactInv'
  <1>0. PICK n \in Nat : n = Len(recvd)
    BY StreamFacts
  <1> DEFINE new == [n |-> r, data |-> buffer]
  <1>1. /\ call' = [call EXCEPT !["rx"] = None]
        /\ recvd' = Append(recvd, new) /\ buffer' = << >> /\ sock' = sock /\ sent' = sent
    BY StreamFacts DEF Return
  <1>2. /\ recvd \in Seq([n : Int, data : Seq(Int)])
        /\ new \in [n : Int, data : Seq(Int)] /\ new.data = buffer
    BY StreamFacts DEF StreamType
  <1> HIDE DEF new
  <1>3. /\ Len(recvd') = n + 1 /\ recvd'[n + 1] = new
        /\ \A k \in 1 .. n : recvd'[k] = recvd[k]
    <2> DEFINE T == [n : Int, data : Seq(Int)]
    <2>1. recvd \in Seq(T) /\ new \in T
      BY <1>2
    <2> HIDE DEF T
    <2>2. QED
      BY <1>0, <1>1, <2>1
  <1>4. /\ Got(n + 1)' = BytesOf(buffer)
        /\ \A k \in 1 .. n : Got(k)' = Got(k)
        /\ \A k \in 1 .. n + 1 : k \in 1 .. n \/ k = n + 1
        /\ n + 1 \in 1 .. n + 1 /\ \A k \in 1 .. n : k \in 1 .. n + 1 /\ k < n + 1
    <2>1. recvd'[n + 1].data = buffer
      BY <1>2, <1>3
    <2>2. /\ \A k \in 1 .. n + 1 : k \in 1 .. n \/ k = n + 1
          /\ n + 1 \in 1 .. n + 1 /\ \A k \in 1 .. n : k \in 1 .. n + 1 /\ k < n + 1
      BY <1>2
    <2>3. QED
      BY <1>3, <2>1, <2>2 DEF Got
  <1>5. BytesOf(buffer') = {}
    BY <1>1 DEF BytesOf
  <1>6. call'["tx"] = call["tx"] /\ NextByte' = NextByte
    BY <1>1, StreamFacts DEF NextByte
  <1>7. NoneTwice /\ Behind /\ NoneMissing /\ UnderWay
    BY DEF IntactInv
  <1>8. \A b : Held(b) => Held(b)'
    <2>1. SUFFICES ASSUME NEW b, Held(b) PROVE Held(b)'
      OBVIOUS
    <2>2. CASE b \in BytesOf(sock)
      BY <1>1, <2>2 DEF Held
    <2>3. CASE b \in BytesOf(buffer)
      <3>1. b \in Got(n + 1)' /\ n + 1 \in 1 .. Len(recvd')
        BY <1>3, <1>4, <2>3
      <3>2. QED
        BY <3>1, Zenon DEF Held
    <2>4. CASE \E k \in 1 .. n : b \in Got(k)
      <3>1. PICK k \in 1 .. n : b \in Got(k)
        BY <2>4
      <3>2. b \in Got(k)' /\ k \in 1 .. Len(recvd')
        BY <1>3, <1>4, <3>1
      <3>3. QED
        BY <3>2, Zenon DEF Held
    <2>5. QED
      BY <1>0, <2>1, <2>2, <2>3, <2>4 DEF Held
  <1>9. NoneMissing' /\ UnderWay'
    BY <1>1, <1>6, <1>7, <1>8 DEF NoneMissing, UnderWay
  <1>10. Behind'
    <2>1. /\ \A k \in 1 .. n : \A b \in Got(k) : b < NextByte
          /\ \A b \in BytesOf(buffer) \cup BytesOf(sock) : b < NextByte
      BY <1>0, <1>7 DEF Behind
    <2>2. ASSUME NEW k \in 1 .. n + 1, NEW b \in Got(k)' PROVE b < NextByte
      <3>1. CASE k \in 1 .. n
        <4>1. b \in Got(k)
          BY <1>4, <3>1
        <4>2. QED
          BY <2>1, <3>1, <4>1
      <3>2. CASE k = n + 1
        <4>1. b \in BytesOf(buffer)
          BY <1>4, <3>2
        <4>2. QED
          BY <2>1, <4>1
      <3>3. QED
        BY <1>4, <3>1, <3>2
    <2>3. QED
      BY <1>1, <1>3, <1>5, <1>6, <2>1, <2>2 DEF Behind
  <1>11. NoneTwice'
    <2>1. \A k \in 1 .. n + 1 : Increasing(recvd'[k].data)
      BY <1>0, <1>2, <1>3, <1>4, <1>7 DEF NoneTwice
    <2>2. Increasing(buffer') /\ Increasing(sock')
      BY <1>1, <1>7 DEF NoneTwice, Increasing
    <2>3. ASSUME NEW i \in 1 .. n + 1, NEW k \in 1 .. n + 1, i < k
          PROVE  Below(Got(i)', Got(k)')
      <3>1. i \in 1 .. n
        BY <1>2, <2>3
      <3>2. CASE k \in 1 .. n
        BY <1>0, <1>4, <1>7, <2>3, <3>1, <3>2 DEF NoneTwice
      <3>3. CASE k = n + 1
        <4>1. Below(Got(i), BytesOf(buffer))
          BY <1>0, <1>7, <3>1 DEF NoneTwice, Below
        <4>2. Got(i)' = Got(i) /\ Got(k)' = BytesOf(buffer)
          BY <1>4, <3>1, <3>3
        <4>3. QED
          BY <4>1, <4>2
      <3>4. QED
        BY <1>4, <3>2, <3>3
    <2>4. ASSUME NEW k \in 1 .. n + 1
          PROVE  Below(Got(k)', BytesOf(sock))
      <3>1. CASE k \in 1 .. n
        BY <1>0, <1>4, <1>7, <3>1 DEF NoneTwice, Below
      <3>2. CASE k = n + 1
        <4>1. Below(BytesOf(buffer), BytesOf(sock)) /\ Got(k)' = BytesOf(buffer)
          BY <1>4, <1>7, <3>2 DEF NoneTwice
        <4>2. QED
          BY <4>1
      <3>3. QED
        BY <1>4, <3>1, <3>2
    <2>5. Below(BytesOf(buffer'), BytesOf(sock'))
      BY <1>5 DEF Below
    <2>6. BytesOf(buffer') \cup BytesOf(sock') = BytesOf(sock)
      BY <1>1, <1>5
    <2>7. QED
      BY <1>3, <2>1, <2>2, <2>3, <2>4, <2>5, <2>6 DEF NoneTwice
  <1>12. QED
    BY <1>9, <1>10, <1>11 DEF IntactInv

\* The connection is lost: what is left is still in order.
LEMMA IntactLoss ==
  ASSUME StreamInv, IntactInv, connection_lost
  PROVE  IntactInv'
  <1>1. link' = "lost" /\ UNCHANGED <<call, sent, recvd, buffer>>
    BY DEF connection_lost
  <1>2. PICK n \in 0 .. Len(sock) : sock' = SubSeq(sock, 1, n)
    BY DEF connection_lost
  <1>3. sock \in Seq(Int) /\ Len(sock) \in Nat
    BY StreamFacts
  <1>4. NoneTwice /\ Behind
    BY DEF IntactInv
  <1>5. BytesOf(sock') \subseteq BytesOf(sock) /\ Increasing(sock')
    <2>1. Increasing(sock)
      BY <1>4 DEF NoneTwice
    <2>2. QED
      BY <1>2, <1>3, <2>1, PrefixBytes
  <1>6. NoneTwice'
    <2>1. /\ \A k \in 1 .. Len(recvd) : Increasing(recvd[k].data)
          /\ Increasing(buffer) /\ Increasing(sock')
          /\ \A i, k \in 1 .. Len(recvd) : i < k => Below(Got(i), Got(k))
      BY <1>4, <1>5 DEF NoneTwice
    <2>2. /\ \A k \in 1 .. Len(recvd) : Below(Got(k), BytesOf(buffer) \cup BytesOf(sock'))
          /\ Below(BytesOf(buffer), BytesOf(sock'))
      BY <1>4, <1>5 DEF NoneTwice, Below
    <2>3. QED
      BY <1>1, <2>1, <2>2 DEF NoneTwice, Got
  <1>7. Behind'
    <2>1. NextByte' = NextByte
      BY <1>1 DEF NextByte
    <2>2. /\ \A k \in 1 .. Len(recvd) : \A b \in Got(k) : b < NextByte
          /\ \A b \in BytesOf(buffer) \cup BytesOf(sock') : b < NextByte
      BY <1>4, <1>5 DEF Behind
    <2>3. QED
      BY <1>1, <2>1, <2>2 DEF Behind, Got
  <1>8. NoneMissing' /\ UnderWay'
    BY <1>1 DEF NoneMissing, UnderWay
  <1>9. QED
    BY <1>6, <1>7, <1>8 DEF IntactInv

\* Steps that touch none of what IntactInv speaks of.
LEMMA IntactStill ==
  ASSUME StreamInv, IntactInv, UNCHANGED <<link, sock, call, sent, recvd, buffer>>
  PROVE  IntactInv'
  <1>1. NextByte' = NextByte /\ NextByte \in Int
    BY NextByteFacts DEF NextByte
  <1>2. NoneTwice' /\ Behind' /\ \A b : Held(b) => Held(b)'
    BY <1>1, IntactFrame, StreamFacts
  <1>3. QED
    BY <1>2 DEF IntactInv, NoneMissing, UnderWay

LEMMA IntactStep ==
  ASSUME StreamInv, IntactInv, [Next]_vars
  PROVE  IntactInv'
  <1>1. ASSUME NEW j \in 1 .. Cap, sendn_send(j) \/ recvn_recv(j) PROVE IntactInv'
    BY <1>1, IntactSend, IntactRecv
  <1>2. CASE sendn_fail
    BY <1>2, IntactSent DEF sendn_fail, InLoop
  <1>3. CASE sendn_return
    <2>1. call["tx"].busy /\ Len(sent) \in Nat /\ Len(sent) < Messages
      BY <1>3, StreamFacts DEF sendn_return, SenderAt
    <2>2. Size(Len(sent) + 1) \in Int
      BY <2>1, FirstFacts
    <2>3. QED
      BY <1>3, <2>2, IntactSent DEF sendn_return
  <1>4. CASE recvn_end \/ recvn_return
    <2>1. call["rx"].busy /\ Len(recvd) \in Nat /\ Len(recvd) < Messages /\ call["rx"].nleft \in Int
      BY <1>4, StreamFacts, CallFacts DEF recvn_end, recvn_return, InLoop, ReceiverAt
    <2>2. Size(Len(recvd) + 1) \in Nat
      BY <2>1, FirstFacts
    <2>3. Size(Len(recvd) + 1) \in Int /\ Size(Len(recvd) + 1) - call["rx"].nleft \in Int
      BY <2>1, <2>2
    <2>4. QED
      BY <1>4, <2>3, IntactRecvd DEF recvn_end, recvn_return
  <1>5. CASE recvn_fail
    BY <1>5, IntactRecvd DEF recvn_fail
  <1>6. CASE connection_lost
    BY <1>6, IntactLoss
  <1>7. ASSUME NEW e \in End, kernel_error(e) PROVE IntactInv'
    BY <1>7, IntactSent, IntactRecvd DEF kernel_error, InLoop, End
  <1>8. ASSUME NEW e \in End, begin(e) PROVE IntactInv'
    BY <1>8, IntactBegin
  <1>9. ASSUME NEW e \in End,
               interrupted(e) \/ close(e) \/ cs_set_blocking(e) \/ cs_set_nonblocking(e)
        PROVE  IntactInv'
    BY <1>9, IntactStill DEF interrupted, close, cs_set_blocking, cs_set_nonblocking, SetFlags
  <1>10. CASE UNCHANGED vars
    BY <1>10, IntactStill DEF vars
  <1>11. QED
    BY <1>1, <1>2, <1>3, <1>4, <1>5, <1>6, <1>7, <1>8, <1>9, <1>10 DEF Next, Sender, Receiver

LEMMA IntactStart ==
  ASSUME Init
  PROVE  IntactInv
  <1>1. /\ sock = << >> /\ sent = << >> /\ recvd = << >> /\ buffer = << >>
        /\ call = [e \in End |-> None] /\ "tx" \in End
    BY DEF Init, End
  <1>2. Len(sock) = 0 /\ Len(sent) = 0 /\ Len(recvd) = 0 /\ Len(buffer) = 0
    BY <1>1
  <1>3. BytesOf(sock) = {} /\ BytesOf(buffer) = {} /\ ~call["tx"].busy
    BY <1>1, <1>2 DEF BytesOf, None
  <1>4. NoneTwice
    BY <1>2, <1>3 DEF NoneTwice, Increasing, Below
  <1>5. NoneMissing /\ Behind /\ UnderWay
    BY <1>2, <1>3 DEF NoneMissing, Behind, UnderWay
  <1>6. QED
    BY <1>4, <1>5 DEF IntactInv

\* Whatever calls fail, by EAGAIN, by an errno of the kernel's or by the loss
\* of the connection, and however the two programs go on: no byte comes twice
\* or out of order, and on a connection that is up none is missing of a
\* message that _cs_sendn reports as sent.
THEOREM FailuresKeepTheStream == Spec => []StreamIntact
  <1>1. Init => IntactInv
    BY IntactStart
  <1>2. StreamInv /\ IntactInv /\ [Next]_vars => IntactInv'
    BY IntactStep
  <1>3. IntactInv => StreamIntact
    BY DEF IntactInv, StreamIntact
  <1>4. QED
    BY <1>1, <1>2, <1>3, StreamInvariant, PTL DEF Spec


-----------------------------------------------------------------------------
(***************************************************************************)
(* The strings.                                                            *)
(***************************************************************************)
Pointer == [block : Block \cup {NULL}, text : Seq(Nat)]

StringsType == /\ str \in [Str -> [len : Nat, data : Pointer \cup {NULL}]]
               /\ heap \in [Block -> Seq(Nat) \cup {NULL}]
               /\ holds \in [Str -> Seq(Nat) \cup {NULL}]

\* The memory m begins with the text h and a 0, and that is the first 0 in it.
Reads(m, h) == /\ m \in Seq(Nat) /\ h \in Seq(Nat) /\ Len(m) > Len(h)
               /\ \A i \in 1 .. Len(h) : m[i] = h[i] /\ m[i] # 0
               /\ m[Len(h) + 1] = 0

\* A string is empty, or stands for its text; only texts that are not empty
\* are ever copied.
StandsFor(s) ==
  \/ str[s] = S!Empty /\ holds[s] = NULL
  \/ /\ str[s].data # NULL
     /\ str[s].len = Len(holds[s])
     /\ Reads(S!Memory(str[s].data), holds[s])
     /\ S!Owned(s) => holds[s] # << >>

StringsInv == /\ StringsType
              /\ \A s \in Str : StandsFor(s)
              /\ S!BlocksOwned /\ S!CompareSound /\ S!PathFits /\ S!AssertsJustified

LEMMA NullFacts ==
  /\ NULL \notin Str /\ NULL \notin Block /\ NULL \notin Seq(Nat) /\ NULL \notin Pointer
  /\ M_UNIX_ADDRSTRLEN \in Nat
  /\ \A t \in Text : t \in Seq(Nat) /\ \A i \in 1 .. Len(t) : t[i] # 0
  BY StringsAssumption DEF S!StringsConstants, Pointer

\* The bytes of a text in memory, without and with its 0.
LEMMA ReadBytes ==
  ASSUME NEW m, NEW h, Reads(m, h)
  PROVE  /\ S!Bytes(m, Len(h)) = h
         /\ S!Bytes(m, Len(h) + 1) = Append(h, 0)
  <1>1. m \in Seq(Nat) /\ h \in Seq(Nat) /\ Len(m) \in Nat /\ Len(h) \in Nat /\ Len(m) > Len(h)
    BY DEF Reads
  <1>2. h = [i \in 1 .. Len(h) |-> h[i]]
    BY <1>1
  <1>3. S!Bytes(m, Len(h)) = [i \in 1 .. Len(h) |-> m[i]]
    BY <1>1 DEF S!Bytes
  <1>4. S!Bytes(m, Len(h) + 1) = [i \in 1 .. Len(h) + 1 |-> m[i]]
    BY <1>1 DEF S!Bytes
  <1>5. S!Bytes(m, Len(h)) = h
    BY <1>2, <1>3 DEF Reads
  <1>6. DEFINE a == Append(h, 0)
  <1>7. /\ a \in Seq(Nat) /\ Len(a) = Len(h) + 1 /\ a[Len(h) + 1] = 0
        /\ \A i \in 1 .. Len(h) : a[i] = h[i]
    BY <1>1
  <1> HIDE DEF a
  <1>8. \A i \in 1 .. Len(h) + 1 : i = Len(h) + 1 \/ i \in 1 .. Len(h)
    BY <1>1
  <1>9. \A i \in 1 .. Len(h) + 1 : m[i] = a[i]
    BY <1>7, <1>8 DEF Reads
  <1>10. a = [i \in 1 .. Len(h) + 1 |-> a[i]]
    BY <1>7
  <1>11. S!Bytes(m, Len(h) + 1) = a
    BY <1>4, <1>9, <1>10
  <1>12. QED
    BY <1>5, <1>11 DEF a

\* strndup of one byte more than the n bytes of a text, and a 0 at their end:
\* a copy of the text, whether or not the n bytes are all of it.
LEMMA DuplicateReads ==
  ASSUME NEW m \in Seq(Nat), NEW n \in Nat, Len(m) > n, \A i \in 1 .. n : m[i] # 0
  PROVE  /\ Reads([S!strndup(m, n + 1) EXCEPT ![n + 1] = 0], S!Bytes(m, n))
         /\ Len(S!Bytes(m, n)) = n
  <1> DEFINE zeros == {i \in 1 .. Len(m) : m[i] = 0 /\ i <= n + 1}
             least == CHOOSE i \in zeros : \A j \in zeros : i <= j
             k == IF zeros = {} THEN n + 1 ELSE least - 1
             x == Append(S!Bytes(m, k), 0)
             y == [x EXCEPT ![n + 1] = 0]
             h == S!Bytes(m, n)
  <1>1. Len(m) \in Nat /\ n + 1 \in 1 .. Len(m) /\ \A i \in 1 .. Len(m) : m[i] \in Nat
    OBVIOUS
  <1>2. zeros \subseteq {n + 1}
    BY <1>1
  <1>3. k \in {n, n + 1}
    <2>1. CASE zeros = {}
      BY <2>1
    <2>2. CASE zeros # {}
      <3>1. zeros = {n + 1}
        BY <1>2, <2>2
      <3>2. least = n + 1
        BY <3>1
      <3> HIDE DEF zeros, least
      <3>3. QED
        BY <2>2, <3>2
    <2>3. QED
      BY <2>1, <2>2
  <1>4. S!strndup(m, n + 1) = x
    BY DEF S!strndup
  <1> HIDE DEF k
  <1>5. k \in Nat /\ k <= Len(m) /\ k >= n
    BY <1>1, <1>3
  <1>6. /\ S!Bytes(m, k) \in Seq(Nat) /\ Len(S!Bytes(m, k)) = k
        /\ \A i \in 1 .. k : S!Bytes(m, k)[i] = m[i]
    BY <1>1, <1>5 DEF S!Bytes
  <1>7. x \in Seq(Nat) /\ Len(x) = k + 1 /\ \A i \in 1 .. k : x[i] = m[i]
    BY <1>5, <1>6
  <1> HIDE DEF x
  <1>8. n + 1 \in 1 .. Len(x)
    BY <1>5, <1>7
  <1>9. /\ y \in Seq(Nat) /\ Len(y) = k + 1 /\ y[n + 1] = 0
        /\ \A i \in 1 .. n : y[i] = x[i]
    BY <1>5, <1>7, <1>8
  <1>10. h \in Seq(Nat) /\ Len(h) = n /\ \A i \in 1 .. n : h[i] = m[i]
    BY <1>1 DEF S!Bytes
  <1> HIDE DEF y, h
  <1>11. \A i \in 1 .. n : y[i] = h[i] /\ y[i] # 0
    <2>1. \A i \in 1 .. n : i \in 1 .. k
      BY <1>5
    <2>2. QED
      BY <1>7, <1>9, <1>10, <2>1
  <1>12. Reads(y, h)
    BY <1>5, <1>9, <1>10, <1>11 DEF Reads
  <1>13. QED
    BY <1>4, <1>10, <1>12 DEF y, h

\* A string whose fields and block stay as they are.
LEMMA StandsStill ==
  ASSUME NEW s \in Str, StandsFor(s), str'[s] = str[s], holds'[s] = holds[s],
         S!Owned(s) => heap'[str[s].data.block] = heap[str[s].data.block]
  PROVE  StandsFor(s)' /\ (S!Owned(s)' <=> S!Owned(s))
  <1>1. S!Owned(s)' <=> S!Owned(s)
    BY DEF S!Owned
  <1>2. str[s].data # NULL => S!Memory(str[s].data)' = S!Memory(str[s].data)
    BY DEF S!Memory, S!Owned
  <1>3. QED
    BY <1>1, <1>2 DEF StandsFor, S!Empty

\* What an empty string and one that is not are.
LEMMA StringFacts ==
  ASSUME StringsInv, NEW s \in Str
  PROVE  /\ str[s].len \in Nat /\ holds[s] \in Seq(Nat) \cup {NULL}
         /\ str[s] = [len |-> str[s].len, data |-> str[s].data]
         /\ str[s].data = NULL <=> str[s] = S!Empty
         /\ str[s].data = NULL => str[s].len = 0
         /\ holds[s] = NULL <=> str[s] = S!Empty
         /\ str[s].data # NULL => /\ str[s].data \in Pointer
                                  /\ holds[s] \in Seq(Nat) /\ str[s].len = Len(holds[s])
                                  /\ Reads(S!Memory(str[s].data), holds[s])
                                  /\ S!Owned(s) => str[s].data.block \in Block /\ str[s].len # 0
  <1>1. /\ str[s] \in [len : Nat, data : Pointer \cup {NULL}] /\ holds[s] \in Seq(Nat) \cup {NULL}
        /\ StandsFor(s)
    BY DEF StringsInv, StringsType
  <1>2. str[s].len \in Nat /\ str[s] = [len |-> str[s].len, data |-> str[s].data]
    BY <1>1
  <1>3. S!Empty.data = NULL /\ S!Empty.len = 0
    BY DEF S!Empty
  <1>4. CASE str[s] = S!Empty /\ holds[s] = NULL
    BY <1>1, <1>2, <1>3, <1>4
  <1>5. CASE /\ str[s].data # NULL
             /\ str[s].len = Len(holds[s])
             /\ Reads(S!Memory(str[s].data), holds[s])
             /\ S!Owned(s) => holds[s] # << >>
    <2>1. holds[s] \in Seq(Nat) /\ holds[s] # NULL
      BY <1>5, NullFacts DEF Reads
    <2>2. str[s].data \in Pointer /\ (S!Owned(s) => str[s].data.block \in Block)
      BY <1>1, <1>5 DEF Pointer, S!Owned
    <2>3. S!Owned(s) => str[s].len # 0
      BY <1>5, <2>1
    <2>4. QED
      BY <1>1, <1>2, <1>3, <1>5, <2>1, <2>2, <2>3
  <1>6. QED
    BY <1>1, <1>4, <1>5 DEF StandsFor

\* string_duplicate and string_copy once their ASSERTs have passed.
LEMMA CopyStep ==
  ASSUME StringsInv, NEW dst \in Str, str[dst] = S!Empty, halt = NULL,
         NEW m \in Seq(Nat), NEW n \in Nat, n > 0, Len(m) > n, \A i \in 1 .. n : m[i] # 0,
         S!CopyInto(dst, m, n), ret' = NULL, si' = si, halt' = NULL
  PROVE  StringsInv'
  <1>1. S!CompareSound' /\ S!PathFits' /\ S!AssertsJustified'
    BY DEF StringsInv, S!CompareSound, S!PathFits, S!AssertsJustified
  <1>2. CASE UNCHANGED <<str, heap, holds>>
    <2>1. StringsType' /\ S!BlocksOwned'
      BY <1>2 DEF StringsInv, StringsType, S!BlocksOwned, S!Owned
    <2>2. \A s \in Str : StandsFor(s)'
      BY <1>2, StandsStill DEF StringsInv
    <2>3. QED
      BY <1>1, <2>1, <2>2 DEF StringsInv
  <1>3. ASSUME NEW b \in Block, heap[b] = NULL,
               heap' = [heap EXCEPT ![b] = [S!strndup(m, n + 1) EXCEPT ![n + 1] = 0]],
               str' = [str EXCEPT ![dst] = [len |-> n, data |-> S!Copy(b)]],
               holds' = [holds EXCEPT ![dst] = S!Bytes(m, n)]
        PROVE  StringsInv'
    <2> DEFINE x == [S!strndup(m, n + 1) EXCEPT ![n + 1] = 0]
               h == S!Bytes(m, n)
    <2>1. Reads(x, h) /\ Len(h) = n /\ x \in Seq(Nat) /\ h \in Seq(Nat)
      BY DuplicateReads DEF Reads
    <2>2. heap' = [heap EXCEPT ![b] = x] /\ holds' = [holds EXCEPT ![dst] = h]
      BY <1>3
    <2> HIDE DEF x, h
    <2>3. StringsType
      BY DEF StringsInv
    <2>4. S!Copy(b) \in Pointer /\ S!Copy(b).block = b /\ S!Copy(b) # NULL /\ b # NULL
      <3>1. S!Copy(b) \in Pointer /\ S!Copy(b).block = b
        <4>1. << >> \in Seq(Nat)
          OBVIOUS
        <4>2. QED
          BY <4>1 DEF S!Copy, Pointer
      <3>2. QED
        BY <3>1, NullFacts
    <2>5. StringsType'
      <3>1. str' \in [Str -> [len : Nat, data : Pointer \cup {NULL}]]
        BY <1>3, <2>3, <2>4 DEF StringsType
      <3>2. heap' \in [Block -> Seq(Nat) \cup {NULL}] /\ holds' \in [Str -> Seq(Nat) \cup {NULL}]
        BY <2>1, <2>2, <2>3 DEF StringsType
      <3>3. QED
        BY <3>1, <3>2 DEF StringsType
    <2>6. /\ heap'[b] = x /\ holds'[dst] = h
          /\ str'[dst] = [len |-> n, data |-> S!Copy(b)]
          /\ \A c \in Block : c # b => heap'[c] = heap[c]
          /\ \A s \in Str : s # dst => str'[s] = str[s] /\ holds'[s] = holds[s]
      BY <1>3, <2>2, <2>3 DEF StringsType
    <2>7. \A s \in Str : S!Owned(s) => str[s].data.block # b /\ str[s].data.block \in Block
      <3>1. TAKE s \in Str
      <3>2. HAVE S!Owned(s)
      <3>3. str[s].data.block \in Block
        BY <3>2, StringFacts DEF S!Owned
      <3>4. str[s].data.block # b
        BY <1>3, <3>2 DEF StringsInv, S!BlocksOwned
      <3>5. QED
        BY <3>3, <3>4
    <2>8. \A s \in Str : s # dst => StandsFor(s)' /\ (S!Owned(s)' <=> S!Owned(s))
      BY <2>6, <2>7, StandsStill DEF StringsInv
    <2>9. S!Owned(dst)' /\ str'[dst].data.block = b /\ ~S!Owned(dst)
      BY <2>4, <2>6 DEF S!Owned, S!Empty
    <2>10. StandsFor(dst)'
      <3>1. str'[dst].data = S!Copy(b) /\ str'[dst].len = n
        BY <2>6
      <3>2. S!Memory(S!Copy(b))' = x
        BY <2>4, <2>6 DEF S!Memory, S!Copy
      <3>3. h # << >>
        BY <2>1
      <3>4. \A s \in Str : s = dst => StandsFor(s)'
        BY <2>1, <2>4, <2>6, <3>1, <3>2, <3>3 DEF StandsFor, S!Memory
      <3>5. QED
        BY <3>4
    <2>11. S!BlocksOwned'
      <3>1. x # NULL
        BY <2>1, NullFacts
      <3>2. \A s \in Str : S!Owned(s)' <=> S!Owned(s) \/ s = dst
        BY <2>8, <2>9
      <3>3. /\ \A c \in Block : heap[c] # NULL <=> \E s \in Str : S!Owned(s) /\ str[s].data.block = c
            /\ \A s, u \in Str : s # u /\ S!Owned(s) /\ S!Owned(u) =>
                 str[s].data.block # str[u].data.block
        BY DEF StringsInv, S!BlocksOwned
      <3>4. ASSUME NEW c \in Block
            PROVE  heap'[c] # NULL <=> \E s \in Str : S!Owned(s)' /\ str'[s].data.block = c
        <4>1. CASE c = b
          BY <2>6, <2>9, <3>1, <4>1
        <4>2. CASE c # b
          BY <2>6, <2>9, <3>2, <3>3, <4>2
        <4>3. QED
          BY <4>1, <4>2
      <3>5. ASSUME NEW s \in Str, NEW u \in Str, s # u, S!Owned(s)', S!Owned(u)'
            PROVE  str'[s].data.block # str'[u].data.block
        BY <2>6, <2>7, <2>9, <3>2, <3>3, <3>5
      <3>6. QED
        BY <3>4, <3>5 DEF S!BlocksOwned, S!Owned
    <2>12. QED
      BY <1>1, <2>5, <2>8, <2>10, <2>11 DEF StringsInv
  <1>4. QED
    BY <1>2, <1>3 DEF S!CopyInto

\* string_set and string_init: a string that owns nothing is given a new
\* meaning, and the heap stays as it is.
LEMMA SetStep ==
  ASSUME StringsInv, NEW dst \in Str, ~S!Owned(dst), NEW new, NEW h,
         new \in [len : Nat, data : Pointer \cup {NULL}], h \in Seq(Nat) \cup {NULL},
         str' = [str EXCEPT ![dst] = new], holds' = [holds EXCEPT ![dst] = h],
         \/ new = S!Empty /\ h = NULL
         \/ /\ new.data # NULL /\ new.data.block = NULL
            /\ new.len = Len(h) /\ Reads(new.data.text, h),
         halt = NULL, halt' = NULL, ret' = NULL, UNCHANGED <<heap, si>>
  PROVE  StringsInv'
  <1>1. S!CompareSound' /\ S!PathFits' /\ S!AssertsJustified'
    BY DEF StringsInv, S!CompareSound, S!PathFits, S!AssertsJustified
  <1>2. StringsType'
    BY DEF StringsInv, StringsType
  <1>3. /\ str'[dst] = new /\ holds'[dst] = h
        /\ \A s \in Str : s # dst => str'[s] = str[s] /\ holds'[s] = holds[s]
    BY DEF StringsInv, StringsType
  <1>4. \A s \in Str : s # dst => StandsFor(s)' /\ (S!Owned(s)' <=> S!Owned(s))
    BY <1>3, StandsStill DEF StringsInv
  <1>5. ~S!Owned(dst)'
    BY <1>3 DEF S!Owned, S!Empty
  <1>6. \A s \in Str : s = dst => StandsFor(s)'
    BY <1>3, <1>5 DEF StandsFor, S!Memory
  <1>7. \A s \in Str : (S!Owned(s)' <=> S!Owned(s)) /\ (S!Owned(s) => str'[s] = str[s])
    BY <1>3, <1>4, <1>5
  <1>8. S!BlocksOwned'
    <2>1. /\ \A c \in Block : heap[c] # NULL <=> \E s \in Str : S!Owned(s) /\ str[s].data.block = c
          /\ \A s, u \in Str : s # u /\ S!Owned(s) /\ S!Owned(u) =>
               str[s].data.block # str[u].data.block
      BY DEF StringsInv, S!BlocksOwned
    <2>2. /\ \A c \in Block : heap'[c] # NULL <=> \E s \in Str : S!Owned(s)' /\ str'[s].data.block = c
          /\ \A s, u \in Str : s # u /\ S!Owned(s)' /\ S!Owned(u)' =>
               str'[s].data.block # str'[u].data.block
      BY <1>7, <2>1
    <2>3. QED
      BY <2>2 DEF S!BlocksOwned
  <1>9. QED
    BY <1>1, <1>2, <1>4, <1>6, <1>8 DEF StringsInv

\* string_deinit once its ASSERT has passed.
LEMMA DeinitStep ==
  ASSUME StringsInv, NEW dst \in Str, halt = NULL, halt' = NULL,
         heap' = IF S!Owned(dst) THEN [heap EXCEPT ![str[dst].data.block] = NULL] ELSE heap,
         str' = [str EXCEPT ![dst] = S!Empty], holds' = [holds EXCEPT ![dst] = NULL],
         ret' = NULL, si' = si
  PROVE  StringsInv'
  <1>0. S!Empty \in [len : Nat, data : Pointer \cup {NULL}] /\ S!Empty.data = NULL
    BY DEF S!Empty
  <1>1. CASE ~S!Owned(dst)
    <2>1. heap' = heap
      BY <1>1
    <2>2. QED
      BY <1>0, <1>1, <2>1, SetStep
  <1>2. CASE S!Owned(dst)
    <2> DEFINE b == str[dst].data.block
    <2>1. b \in Block /\ heap' = [heap EXCEPT ![b] = NULL]
      BY <1>2, StringFacts DEF S!Owned
    <2>2. StringsType
      BY DEF StringsInv
    <2>3. S!CompareSound' /\ S!PathFits' /\ S!AssertsJustified'
      BY DEF StringsInv, S!CompareSound, S!PathFits, S!AssertsJustified
    <2> HIDE DEF b
    <2>4. StringsType'
      BY <1>0, <2>1, <2>2 DEF StringsType
    <2>5. /\ heap'[b] = NULL /\ holds'[dst] = NULL /\ str'[dst] = S!Empty
          /\ \A c \in Block : c # b => heap'[c] = heap[c]
          /\ \A s \in Str : s # dst => str'[s] = str[s] /\ holds'[s] = holds[s]
      BY <2>1, <2>2 DEF StringsType
    <2>6. /\ \A c \in Block : heap[c] # NULL <=> \E s \in Str : S!Owned(s) /\ str[s].data.block = c
          /\ \A s, u \in Str : s # u /\ S!Owned(s) /\ S!Owned(u) =>
               str[s].data.block # str[u].data.block
      BY DEF StringsInv, S!BlocksOwned
    <2>7. \A s \in Str : s # dst /\ S!Owned(s) => str[s].data.block # b /\ str[s].data.block \in Block
      <3>1. TAKE s \in Str
      <3>2. HAVE s # dst /\ S!Owned(s)
      <3>3. str[s].data.block \in Block
        BY <3>2, StringFacts DEF S!Owned
      <3>4. QED
        BY <1>2, <2>6, <3>2, <3>3 DEF b
    <2>8. \A s \in Str : s # dst => StandsFor(s)' /\ (S!Owned(s)' <=> S!Owned(s))
      BY <2>5, <2>7, StandsStill DEF StringsInv
    <2>9. ~S!Owned(dst)' /\ \A s \in Str : s = dst => StandsFor(s)'
      BY <1>0, <2>5 DEF S!Owned, StandsFor
    <2>10. \A s \in Str : S!Owned(s)' <=> S!Owned(s) /\ s # dst
      BY <2>8, <2>9
    <2>11. ASSUME NEW c \in Block
           PROVE  heap'[c] # NULL <=> \E s \in Str : S!Owned(s)' /\ str'[s].data.block = c
      <3>1. CASE c = b
        BY <2>5, <2>7, <2>10, <3>1
      <3>2. CASE c # b
        BY <2>5, <2>6, <2>10, <3>2 DEF b
      <3>3. QED
        BY <3>1, <3>2
    <2>12. ASSUME NEW s \in Str, NEW u \in Str, s # u, S!Owned(s)', S!Owned(u)'
           PROVE  str'[s].data.block # str'[u].data.block
      BY <2>5, <2>6, <2>10, <2>12
    <2>13. S!BlocksOwned'
      BY <2>11, <2>12 DEF S!BlocksOwned
    <2>14. QED
      BY <2>3, <2>4, <2>8, <2>9, <2>13 DEF StringsInv
  <1>3. QED
    BY <1>1, <1>2

\* The strings stay as they are.
LEMMA SameStrings ==
  ASSUME StringsInv, UNCHANGED <<str, heap, holds>>,
         S!CompareSound', S!PathFits', S!AssertsJustified'
  PROVE  StringsInv'
  <1>1. StringsType' /\ S!BlocksOwned'
    BY DEF StringsInv, StringsType, S!BlocksOwned, S!Owned
  <1>2. \A s \in Str : StandsFor(s)'
    BY StandsStill DEF StringsInv
  <1>3. QED
    BY <1>1, <1>2 DEF StringsInv

\* An ASSERT fails, and nothing else happens.
LEMMA AssertFails ==
  ASSUME StringsInv, UNCHANGED <<str, heap, holds, si, ret>>, S!AssertsJustified'
  PROVE  StringsInv'
  <1>1. S!CompareSound' /\ S!PathFits' /\ S!AssertsJustified'
    BY DEF StringsInv, S!CompareSound, S!PathFits, S!AssertsJustified
  <1>2. QED
    BY <1>1, SameStrings

\* len and data disagree only in a reference to the empty text.
LEMMA InconsistentIsEmpty ==
  ASSUME StringsInv, NEW s \in Str, str[s].data # NULL, str[s].len = 0
  PROVE  holds[s] = << >> /\ ~S!Owned(s)
  <1>1. holds[s] \in Seq(Nat) /\ Len(holds[s]) = 0 /\ ~S!Owned(s)
    BY StringFacts
  <1>2. QED
    BY <1>1

LEMMA DuplicateStep ==
  ASSUME StringsInv, NEW dst \in Str, NEW src \in Str, S!string_duplicate(dst, src)
  PROVE  StringsInv'
  <1> DEFINE m == S!Memory(str[src].data)
             n == str[src].len
             ok == str[dst] = S!Empty /\ n # 0 /\ str[src].data # NULL
             stopped == [op |-> "string_duplicate", s |-> dst, text |-> holds[src]]
  <1>1. halt = NULL /\ S!Assert("string_duplicate", dst, holds[src], ok)
    BY DEF S!string_duplicate
  <1>2. CASE ~ok
    <2>1. halt' = stopped /\ UNCHANGED <<str, heap, holds, si, ret>>
      BY <1>1, <1>2 DEF S!Assert
    <2>2. holds[dst] # NULL \/ holds[src] \in {NULL, << >>}
      BY <1>2, StringFacts, InconsistentIsEmpty
    <2>3. S!AssertsJustified'
      BY <2>1, <2>2 DEF S!AssertsJustified
    <2>4. QED
      BY <2>1, <2>3, AssertFails
  <1>3. CASE ok
    <2>1. halt' = NULL
      BY <1>1, <1>3 DEF S!Assert
    <2>2. S!CopyInto(dst, m, n) /\ ret' = NULL /\ si' = si
      BY <2>1 DEF S!string_duplicate
    <2>3. Reads(m, holds[src]) /\ n = Len(holds[src]) /\ n \in Nat
      BY <1>3, StringFacts
    <2>4. m \in Seq(Nat) /\ Len(m) > n /\ n > 0 /\ \A i \in 1 .. n : m[i] # 0
      BY <1>3, <2>3 DEF Reads
    <2>5. str[dst] = S!Empty
      BY <1>3
    <2> HIDE DEF m, n, ok
    <2>6. QED
      BY <1>1, <2>1, <2>2, <2>3, <2>4, <2>5, CopyStep
  <1>4. QED
    BY <1>2, <1>3

\* A constant text and its 0.
LEMMA TextReads ==
  ASSUME NEW t \in Text
  PROVE  /\ t \in Seq(Nat) /\ Append(t, 0) \in Seq(Nat) /\ Len(Append(t, 0)) = Len(t) + 1
         /\ \A i \in 1 .. Len(t) : Append(t, 0)[i] = t[i] /\ t[i] # 0
         /\ Append(t, 0)[Len(t) + 1] = 0
         /\ Reads(Append(t, 0), t)
  <1>1. t \in Seq(Nat) /\ Len(t) \in Nat /\ \A i \in 1 .. Len(t) : t[i] # 0
    BY NullFacts
  <1> DEFINE a == Append(t, 0)
  <1>2. /\ a \in Seq(Nat) /\ Len(a) = Len(t) + 1
        /\ \A i \in 1 .. Len(t) : a[i] = t[i]
        /\ a[Len(t) + 1] = 0
    BY <1>1
  <1> HIDE DEF a
  <1>3. Reads(a, t)
    BY <1>1, <1>2 DEF Reads
  <1>4. QED
    BY <1>1, <1>2, <1>3 DEF a

LEMMA StringCopyStep ==
  ASSUME StringsInv, NEW dst \in Str, NEW t \in Text, NEW n \in 0 .. Len(t), S!string_copy(dst, t, n)
  PROVE  StringsInv'
  <1> DEFINE m == Append(t, 0)
             ok == str[dst] = S!Empty /\ n # 0
             stopped == [op |-> "string_copy", s |-> dst, text |-> S!Bytes(t, n)]
  <1>1. halt = NULL /\ S!Assert("string_copy", dst, S!Bytes(t, n), ok)
    BY DEF S!string_copy
  <1>2. CASE ~ok
    <2>1. halt' = stopped /\ UNCHANGED <<str, heap, holds, si, ret>>
      BY <1>1, <1>2 DEF S!Assert
    <2>2. n = 0 => S!Bytes(t, n) = << >>
      BY TextReads DEF S!Bytes
    <2>3. holds[dst] # NULL \/ S!Bytes(t, n) \in {NULL, << >>}
      BY <1>2, <2>2, StringFacts
    <2>4. S!AssertsJustified'
      BY <2>1, <2>3 DEF S!AssertsJustified
    <2>5. QED
      BY <2>1, <2>4, AssertFails
  <1>3. CASE ok
    <2>1. halt' = NULL /\ str[dst] = S!Empty
      BY <1>1, <1>3 DEF S!Assert
    <2>2. S!CopyInto(dst, m, n) /\ ret' = NULL /\ si' = si
      BY <2>1 DEF S!string_copy
    <2>3. /\ n \in Nat /\ n > 0 /\ Len(t) \in Nat /\ n <= Len(t)
          /\ \A i \in 1 .. n : i \in 1 .. Len(t)
      BY <1>3, TextReads
    <2>4. m \in Seq(Nat) /\ Len(m) > n /\ \A i \in 1 .. n : m[i] # 0
      BY <2>3, TextReads
    <2> HIDE DEF m, ok
    <2>5. QED
      BY <1>1, <2>1, <2>2, <2>3, <2>4, CopyStep
  <1>4. QED
    BY <1>2, <1>3

LEMMA StringSetStep ==
  ASSUME StringsInv, NEW dst \in Str, NEW t \in Text, S!string_set(dst, t)
  PROVE  StringsInv'
  <1> DEFINE new == [len |-> Len(t), data |-> S!Constant(t)]
  <1>1. /\ S!Constant(t) \in Pointer /\ S!Constant(t).block = NULL /\ S!Constant(t).text = Append(t, 0)
        /\ S!Constant(t) # NULL
    <2>1. /\ S!Constant(t) \in Pointer /\ S!Constant(t).block = NULL
          /\ S!Constant(t).text = Append(t, 0)
      BY TextReads DEF S!Constant, Pointer
    <2>2. QED
      BY <2>1, NullFacts
  <1>2. /\ new \in [len : Nat, data : Pointer \cup {NULL}] /\ new.data = S!Constant(t)
        /\ new.len = Len(t) /\ t \in Seq(Nat)
    BY <1>1, TextReads
  <1>3. /\ ~S!Owned(dst) /\ halt = NULL /\ halt' = NULL /\ ret' = NULL /\ UNCHANGED <<heap, si>>
        /\ str' = [str EXCEPT ![dst] = new] /\ holds' = [holds EXCEPT ![dst] = t]
    BY DEF S!string_set
  <1> HIDE DEF new
  <1>4. QED
    BY <1>1, <1>2, <1>3, TextReads, SetStep

\* The ASSERT of string_deinit and string_empty fails.
LEMMA InconsistentStep ==
  ASSUME StringsInv, NEW s \in Str, NEW op, op \notin {"string_duplicate", "string_copy"},
         ~S!Consistent(s), S!Assert(op, s, NULL, S!Consistent(s))
  PROVE  StringsInv'
  <1>1. holds[s] = << >>
    BY StringFacts, InconsistentIsEmpty DEF S!Consistent
  <1>2. halt' = [op |-> op, s |-> s, text |-> NULL] /\ UNCHANGED <<str, heap, holds, si, ret>>
    BY DEF S!Assert
  <1>3. halt'.op = op /\ halt'.s = s /\ holds'[s] = << >>
    BY <1>1, <1>2
  <1>4. S!AssertsJustified'
    BY <1>3 DEF S!AssertsJustified
  <1>5. QED
    BY <1>2, <1>4, AssertFails

LEMMA StringDeinitStep ==
  ASSUME StringsInv, NEW s \in Str, S!string_deinit(s)
  PROVE  StringsInv'
  <1>1. halt = NULL /\ S!Assert("string_deinit", s, NULL, S!Consistent(s))
    BY DEF S!string_deinit
  <1>2. CASE ~S!Consistent(s)
    BY <1>1, <1>2, InconsistentStep
  <1>3. CASE S!Consistent(s)
    <2>1. halt' = NULL
      BY <1>1, <1>3 DEF S!Assert
    <2>2. QED
      BY <1>1, <2>1, DeinitStep DEF S!string_deinit
  <1>4. QED
    BY <1>2, <1>3

LEMMA StringEmptyStep ==
  ASSUME StringsInv, NEW s \in Str, S!string_empty(s)
  PROVE  StringsInv'
  <1>1. halt = NULL /\ S!Assert("string_empty", s, NULL, S!Consistent(s))
    BY DEF S!string_empty
  <1>2. CASE S!Consistent(s)
    <2>1. halt' = NULL
      BY <1>1, <1>2 DEF S!Assert
    <2>2. /\ ret' = [op |-> "empty", s |-> s, r |-> IF str[s].len = 0 THEN 1 ELSE 0]
          /\ UNCHANGED <<str, heap, holds, si>>
      BY <2>1 DEF S!string_empty
    <2>3. S!CompareSound' /\ S!PathFits' /\ S!AssertsJustified'
      BY <2>1, <2>2 DEF StringsInv, S!CompareSound, S!PathFits, S!AssertsJustified
    <2>4. QED
      BY <2>2, <2>3, SameStrings
  <1>3. CASE ~S!Consistent(s)
    BY <1>1, <1>3, InconsistentStep
  <1>4. QED
    BY <1>2, <1>3

\* Equal lengths and equal bytes are the same text.
LEMMA CompareStep ==
  ASSUME StringsInv, NEW a \in Str, NEW b \in Str, S!string_compare(a, b)
  PROVE  StringsInv'
  <1>1. /\ halt = NULL /\ halt' = halt /\ str[a].data # NULL /\ str[b].data # NULL
        /\ ret' = [op |-> "compare", s |-> <<a, b>>, r |-> S!compare(a, b)]
        /\ UNCHANGED <<str, heap, holds, si>>
    BY DEF S!string_compare
  <1>2. /\ str[a].len = Len(holds[a]) /\ S!Bytes(S!Memory(str[a].data), str[a].len) = holds[a]
        /\ str[b].len = Len(holds[b]) /\ S!Bytes(S!Memory(str[b].data), str[b].len) = holds[b]
    <2>1. ASSUME NEW s \in Str, str[s].data # NULL
          PROVE  str[s].len = Len(holds[s]) /\ S!Bytes(S!Memory(str[s].data), str[s].len) = holds[s]
      <3>1. str[s].len = Len(holds[s]) /\ Reads(S!Memory(str[s].data), holds[s])
        BY <2>1, StringFacts
      <3>2. QED
        BY <3>1, ReadBytes
    <2>2. QED
      BY <1>1, <2>1
  <1>3. S!compare(a, b) = 0 <=> holds[a] = holds[b]
    BY <1>2 DEF S!compare
  <1>4. ret'.s[1] = a /\ ret'.s[2] = b /\ ret'.r = S!compare(a, b)
    BY <1>1
  <1>5. S!CompareSound' /\ S!PathFits' /\ S!AssertsJustified'
    BY <1>1, <1>3, <1>4 DEF StringsInv, S!CompareSound, S!PathFits, S!AssertsJustified
  <1>6. QED
    BY <1>1, <1>5, SameStrings

LEMMA ResolveStep ==
  ASSUME StringsInv, NEW s \in Str, NEW known \in BOOLEAN, S!cs_resolve(s, known)
  PROVE  StringsInv'
  <1> DEFINE m == S!Memory(str[s].data)
             a == IF m[1] = Slash THEN S!cs_resolve_unix(m, str[s].len) ELSE S!cs_resolve_inet(known)
  <1>1. /\ halt = NULL /\ halt' = halt /\ str[s].data # NULL
        /\ si' = IF a = NULL THEN si ELSE a
        /\ ret' = [op |-> "resolve", s |-> s, r |-> IF a = NULL THEN 1 ELSE 0]
        /\ UNCHANGED <<str, heap, holds>>
    BY DEF S!cs_resolve
  <1>2. a # NULL => Len(a.path) <= M_UNIX_ADDRSTRLEN
    <2>1. str[s].len \in Nat /\ str[s].len = Len(holds[s]) /\ Reads(m, holds[s]) /\ holds[s] \in Seq(Nat)
      BY <1>1, StringFacts
    <2>2. S!Bytes(m, str[s].len) = holds[s]
      BY <2>1, ReadBytes
    <2>3. Len(Append(holds[s], 0)) = str[s].len + 1
      BY <2>1
    <2>4. CASE m[1] = Slash
      <3>1. a # NULL => str[s].len < M_UNIX_ADDRSTRLEN /\ a.path = Append(holds[s], 0)
        BY <2>1, <2>2, <2>4, NullFacts DEF S!cs_resolve_unix
      <3>2. QED
        BY <2>1, <2>3, <3>1, NullFacts
    <2>5. CASE m[1] # Slash
      <3>1. a # NULL => a.path = << >>
        BY <2>5 DEF S!cs_resolve_inet
      <3>2. Len(<< >>) = 0
        OBVIOUS
      <3>3. QED
        BY <3>1, <3>2, NullFacts
    <2>6. QED
      BY <2>4, <2>5
  <1> HIDE DEF a
  <1>3. S!CompareSound' /\ S!PathFits' /\ S!AssertsJustified'
    BY <1>1, <1>2 DEF StringsInv, S!CompareSound, S!PathFits, S!AssertsJustified
  <1>4. QED
    BY <1>1, <1>3, SameStrings

LEMMA StringsStep ==
  ASSUME StringsInv, [S!Next]_(S!vars)
  PROVE  StringsInv'
  <1>1. ASSUME NEW s \in Str, NEW u \in Str, S!string_duplicate(s, u) \/ S!string_compare(s, u)
        PROVE  StringsInv'
    BY <1>1, DuplicateStep, CompareStep
  <1>2. ASSUME NEW s \in Str, NEW t \in Text,
               S!string_set(s, t) \/ \E n \in 0 .. Len(t) : S!string_copy(s, t, n)
        PROVE  StringsInv'
    BY <1>2, StringSetStep, StringCopyStep
  <1>3. ASSUME NEW s \in Str, S!string_init(s) PROVE StringsInv'
    <2>1. S!Empty \in [len : Nat, data : Pointer \cup {NULL}]
      BY DEF S!Empty
    <2>2. QED
      BY <1>3, <2>1, SetStep DEF S!string_init
  <1>4. ASSUME NEW s \in Str, S!string_deinit(s) \/ S!string_empty(s) PROVE StringsInv'
    BY <1>4, StringDeinitStep, StringEmptyStep
  <1>5. ASSUME NEW s \in Str, NEW known \in BOOLEAN, S!cs_resolve(s, known) PROVE StringsInv'
    BY <1>5, ResolveStep
  <1>6. CASE UNCHANGED S!vars
    <2>1. UNCHANGED <<str, heap, holds, si, ret, halt>>
      BY <1>6 DEF S!vars
    <2>2. S!CompareSound' /\ S!PathFits' /\ S!AssertsJustified'
      BY <2>1 DEF StringsInv, S!CompareSound, S!PathFits, S!AssertsJustified
    <2>3. QED
      BY <2>1, <2>2, SameStrings
  <1>7. QED
    BY <1>1, <1>2, <1>3, <1>4, <1>5, <1>6 DEF S!Next

LEMMA StringsStart ==
  ASSUME S!Init
  PROVE  StringsInv
  <1>1. /\ str = [s \in Str |-> S!Empty] /\ heap = [b \in Block |-> NULL]
        /\ holds = [s \in Str |-> NULL] /\ si = NULL /\ ret = NULL /\ halt = NULL
    BY DEF S!Init
  <1>2. S!Empty \in [len : Nat, data : Pointer \cup {NULL}] /\ S!Empty.data = NULL
    BY DEF S!Empty
  <1>3. StringsType /\ \A s \in Str : StandsFor(s)
    BY <1>1, <1>2 DEF StringsType, StandsFor
  <1>4. S!BlocksOwned
    BY <1>1, <1>2 DEF S!BlocksOwned, S!Owned
  <1>5. S!CompareSound /\ S!PathFits /\ S!AssertsJustified
    BY <1>1 DEF S!CompareSound, S!PathFits, S!AssertsJustified
  <1>6. QED
    BY <1>3, <1>4, <1>5 DEF StringsInv

LEMMA StringsInvariant == S!Spec => []StringsInv
  <1>1. S!Init => StringsInv
    BY StringsStart
  <1>2. StringsInv /\ [S!Next]_(S!vars) => StringsInv'
    BY StringsStep
  <1>3. QED
    BY <1>1, <1>2, PTL DEF S!Spec

\* For any number of strings, texts and blocks, whether or not allocations
\* fail: every string of cs_string.c stands for its text with a 0 behind it,
\* owns its own block or none, compares by its text, and cs_resolve keeps
\* within sun_path.
THEOREM StringsStaySound == S!Spec => []StringsSound
  <1>1. StringsInv => S!StringsHold
    <2>1. SUFFICES ASSUME StringsInv, NEW s \in Str
                   PROVE  IF str[s].data = NULL THEN holds[s] = NULL /\ str[s].len = 0
                          ELSE /\ holds[s] # NULL /\ str[s].len = Len(holds[s])
                               /\ S!Memory(str[s].data) # NULL
                               /\ S!Bytes(S!Memory(str[s].data), str[s].len + 1) = Append(holds[s], 0)
      BY DEF S!StringsHold
    <2>2. CASE str[s].data = NULL
      BY <2>1, <2>2, StringFacts
    <2>3. CASE str[s].data # NULL
      <3>1. /\ holds[s] \in Seq(Nat) /\ str[s].len = Len(holds[s])
            /\ Reads(S!Memory(str[s].data), holds[s])
        BY <2>1, <2>3, StringFacts
      <3>2. holds[s] # NULL /\ S!Memory(str[s].data) # NULL
        BY <3>1, NullFacts DEF Reads
      <3>3. QED
        BY <2>3, <3>1, <3>2, ReadBytes
    <2>4. QED
      BY <2>2, <2>3
  <1>2. StringsInv => StringsSound
    BY <1>1 DEF StringsSound, StringsInv, S!StringsSound
  <1>3. QED
    BY <1>2, StringsInvariant, PTL

\* An ASSERT of cs_string.c fails only in a call that is wrong by itself: a copy
\* into a string that stands for something, a copy of nothing, or a question
\* about a reference to the empty text; never because of a malloc that failed.
THEOREM AbortsAreMisuse == S!Spec => []AssertsJustified
  <1>1. StringsInv => AssertsJustified
    BY DEF AssertsJustified, StringsInv
  <1>2. QED
    BY <1>1, StringsInvariant, PTL
=============================================================================
