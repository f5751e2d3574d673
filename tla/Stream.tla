------------------------------- MODULE Stream -------------------------------
(***************************************************************************)
(* _cs_sendn and _cs_recvn at the two ends of a stream socket.  A call of  *)
(* send or recv moves some of the bytes, is interrupted by a signal, meets *)
(* the end of the stream or fails; the two functions loop until the whole  *)
(* message is through, and give up with -1 at every errno but EINTR.  They *)
(* are meant for blocking descriptors, which cs_set_blocking and           *)
(* cs_set_nonblocking change.                                              *)
(***************************************************************************)
EXTENDS Integers, Sequences

CONSTANTS First,   \* where each message starts in the stream, and where the last one ends:
                   \* both programs know the lengths
          Cap      \* what the socket holds between send and recv

ASSUME StreamAssumption ==
  /\ First \in Seq(Int) /\ First # << >>
  /\ \A k \in 1 .. Len(First) - 1 : First[k] <= First[k + 1]
  /\ Cap \in Nat

Messages == Len(First) - 1
Size(k)  == First[k + 1] - First[k]

End == {"tx", "rx"}   \* the sender and the receiver

VARIABLES flags,    \* the descriptor flags of each end
          open,     \* the ends that are not closed
          link,     \* the connection: up, lost, or lost and recv has told of it
          sock,     \* the bytes between them
          call,     \* the call in progress at each end: nleft and ptr, or none
          errno,
          sent,     \* the results of _cs_sendn
          recvd,    \* the results of _cs_recvn with what is in their buffers
          buffer    \* the buffer of the call of _cs_recvn in progress

vars == <<flags, open, link, sock, call, errno, sent, recvd, buffer>>

Bytes(a, n)   == [i \in 1 .. n |-> a + i - 1]
Least(a, b)   == IF a < b THEN a ELSE b
Other(e)      == IF e = "tx" THEN "rx" ELSE "tx"
None          == [busy |-> FALSE, nleft |-> 0, ptr |-> 0]
Results(e)    == IF e = "tx" THEN Len(sent) ELSE Len(recvd)
Blocking(e)   == "O_NONBLOCK" \notin flags[e]
InLoop(e)     == call[e].busy /\ call[e].nleft > 0

Init == /\ flags = [e \in End |-> {"O_RDWR"}]
        /\ open = End
        /\ link = "up"
        /\ sock = << >>
        /\ call = [e \in End |-> None]
        /\ errno = [e \in End |-> "none"]
        /\ sent = << >>
        /\ recvd = << >>
        /\ buffer = << >>

-----------------------------------------------------------------------------
\* fcntl may fail for either command; then nothing changes.
SetFlags(e, f) == /\ e \in open /\ ~call[e].busy
                  /\ flags' = [flags EXCEPT ![e] = f]
                  /\ UNCHANGED <<open, link, sock, call, errno, sent, recvd, buffer>>

cs_set_blocking(e)    == SetFlags(e, flags[e] \ {"O_NONBLOCK"})
cs_set_nonblocking(e) == SetFlags(e, flags[e] \cup {"O_NONBLOCK"})

close(e) == /\ e \in open /\ ~call[e].busy
            /\ open' = open \ {e}
            /\ UNCHANGED <<flags, link, sock, call, errno, sent, recvd, buffer>>

\* The call for the next message: ptr = vptr, nleft = n.
begin(e) ==
  LET k == Results(e) + 1
  IN  /\ e \in open /\ ~call[e].busy /\ k <= Messages
      /\ call' = [call EXCEPT ![e] = [busy |-> TRUE, nleft |-> Size(k), ptr |-> First[k]]]
      /\ UNCHANGED <<flags, open, link, sock, errno, sent, recvd, buffer>>

\* The result of the call is r.
Return(e, r) ==
  /\ call' = [call EXCEPT ![e] = None]
  /\ IF e = "tx" THEN sent' = Append(sent, r) /\ UNCHANGED <<recvd, buffer>>
     ELSE /\ recvd' = Append(recvd, [n |-> r, data |-> buffer])
          /\ buffer' = << >>
          /\ sent' = sent

\* The connection is reset; of what is on its way an end may be lost.
connection_lost ==
  /\ link = "up" /\ "rx" \in open
  /\ link' = "lost"
  /\ \E n \in 0 .. Len(sock) : sock' = SubSeq(sock, 1, n)
  /\ UNCHANGED <<flags, open, call, errno, sent, recvd, buffer>>

\* send or recv fails for a reason of the kernel's, whatever the descriptor:
\* ENOBUFS, ENOMEM and the like.
kernel_error(e) ==
  /\ InLoop(e)
  /\ errno' = [errno EXCEPT ![e] = "ENOBUFS"]
  /\ Return(e, -1)
  /\ UNCHANGED <<flags, open, link, sock>>

\* Mutant: an interrupted call counts as one transferred byte.
InterruptedSkips(e) ==
  /\ InLoop(e)
  /\ errno' = [errno EXCEPT ![e] = "EINTR"]
  /\ call' = [call EXCEPT ![e].nleft = @ - 1, ![e].ptr = @ + 1]
  /\ UNCHANGED <<flags, open, link, sock, sent, recvd, buffer>>

\* EINTR before anything was transferred: continue.
interrupted(e) ==
  /\ InLoop(e)
  /\ errno' = [errno EXCEPT ![e] = "EINTR"]
  /\ UNCHANGED <<flags, open, link, sock, call, sent, recvd, buffer>>

\* Mutant: ptr stays at the start of the message.
SendsSamePart(j) ==
  /\ InLoop("tx") /\ "rx" \in open
  /\ j <= Least(call["tx"].nleft, Cap - Len(sock))
  /\ sock' = sock \o Bytes(call["tx"].ptr, j)
  /\ call' = [call EXCEPT !["tx"].nleft = @ - j]
  /\ UNCHANGED <<flags, open, link, errno, sent, recvd, buffer>>

\* send takes j bytes: nleft -= nsend, ptr += nsend.  It takes them on a lost
\* connection too, until the sender's kernel knows.
sendn_send(j) ==
  /\ InLoop("tx") /\ "rx" \in open
  /\ j <= Least(call["tx"].nleft, Cap - Len(sock))
  /\ sock' = IF link = "up" THEN sock \o Bytes(call["tx"].ptr, j) ELSE sock
  /\ call' = [call EXCEPT !["tx"].nleft = @ - j, !["tx"].ptr = @ + j]
  /\ UNCHANGED <<flags, open, link, errno, sent, recvd, buffer>>

SendFails == \/ ("rx" \notin open \/ link # "up") /\ errno' = [errno EXCEPT !["tx"] = "EPIPE"]
             \/ /\ "rx" \in open /\ ~Blocking("tx") /\ Len(sock) = Cap
                /\ errno' = [errno EXCEPT !["tx"] = "EAGAIN"]

\* Mutant: a call that fails starts its message again.
RestartsMessage ==
  /\ InLoop("tx") /\ SendFails
  /\ call' = [call EXCEPT !["tx"].nleft = Size(Len(sent) + 1), !["tx"].ptr = First[Len(sent) + 1]]
  /\ UNCHANGED <<flags, open, link, sock, sent, recvd, buffer>>

\* The peer or the connection is gone, or the socket is full and the descriptor
\* does not block.  The result is -1, whatever part of the message is already
\* on its way.
sendn_fail ==
  /\ InLoop("tx") /\ SendFails
  /\ Return("tx", -1)
  /\ UNCHANGED <<flags, open, link, sock>>

sendn_return ==
  /\ call["tx"].busy /\ call["tx"].nleft = 0
  /\ Return("tx", Size(Len(sent) + 1))
  /\ UNCHANGED <<flags, open, link, sock, errno>>

\* Mutant: the first part that comes is the result.
ReceivesOnce(j) ==
  /\ InLoop("rx")
  /\ j <= Least(call["rx"].nleft, Len(sock))
  /\ sock' = SubSeq(sock, j + 1, Len(sock))
  /\ recvd' = Append(recvd, [n |-> j, data |-> SubSeq(sock, 1, j)])
  /\ call' = [call EXCEPT !["rx"] = None]
  /\ UNCHANGED <<flags, open, link, errno, sent, buffer>>

\* recv gives j bytes.
recvn_recv(j) ==
  /\ InLoop("rx")
  /\ j <= Least(call["rx"].nleft, Len(sock))
  /\ sock' = SubSeq(sock, j + 1, Len(sock))
  /\ buffer' = buffer \o SubSeq(sock, 1, j)
  /\ call' = [call EXCEPT !["rx"].nleft = @ - j, !["rx"].ptr = @ + j]
  /\ UNCHANGED <<flags, open, link, errno, sent, recvd>>

\* The sender has closed its end, or the loss of the connection has been told.
AtEnd == sock = << >> /\ (link = "told" \/ (link = "up" /\ "tx" \notin open))

\* Mutant: recv's 0 is taken for a transfer of no bytes, and tried again.
EndIsTriedAgain ==
  /\ InLoop("rx") /\ AtEnd
  /\ errno' = [errno EXCEPT !["rx"] = "none"]
  /\ UNCHANGED <<flags, open, link, sock, call, sent, recvd, buffer>>

\* recv gives 0 at the end of the stream: break, and what came is the result.
recvn_end ==
  /\ InLoop("rx") /\ AtEnd
  /\ Return("rx", Size(Len(recvd) + 1) - call["rx"].nleft)
  /\ UNCHANGED <<flags, open, link, sock, errno>>

\* An empty socket and a descriptor that does not block, or a connection that
\* is lost, which recv tells once: -1, and nobody says how much of the buffer
\* is filled.
recvn_fail ==
  /\ InLoop("rx") /\ sock = << >>
  /\ \/ /\ link = "up" /\ "tx" \in open /\ ~Blocking("rx")
        /\ errno' = [errno EXCEPT !["rx"] = "EAGAIN"]
        /\ link' = link
     \/ /\ link = "lost"
        /\ errno' = [errno EXCEPT !["rx"] = "ECONNRESET"]
        /\ link' = "told"
  /\ Return("rx", -1)
  /\ UNCHANGED <<flags, open, sock>>

recvn_return ==
  /\ call["rx"].busy /\ call["rx"].nleft = 0
  /\ Return("rx", Size(Len(recvd) + 1))
  /\ UNCHANGED <<flags, open, link, sock, errno>>

\* The loops, signals apart.
Sender   == (\E j \in 1 .. Cap : sendn_send(j)) \/ sendn_fail \/ sendn_return
Receiver == (\E j \in 1 .. Cap : recvn_recv(j)) \/ recvn_end \/ recvn_fail \/ recvn_return

Next == \/ Sender \/ Receiver \/ connection_lost
        \/ \E e \in End : \/ interrupted(e) \/ kernel_error(e) \/ begin(e) \/ close(e)
                          \/ cs_set_blocking(e) \/ cs_set_nonblocking(e)

\* The kernel completes a transfer that is possible, whatever signals come.
Fairness == WF_vars(Sender) /\ WF_vars(Receiver)

Spec == Init /\ [][Next]_vars /\ Fairness

-----------------------------------------------------------------------------
Message(k) == Bytes(First[k], Size(k))

\* No end has been told of an error.
NoError == /\ \A k \in 1 .. Len(sent) : sent[k] # -1
           /\ \A k \in 1 .. Len(recvd) : recvd[k].n # -1

\* While no call has failed, the receiver gets the messages that were sent,
\* each in the call for it, however send and recv cut them into pieces: no
\* byte is lost, doubled or moved into the next message.
Framed == NoError => \A k \in 1 .. Len(recvd) :
                       recvd[k].n = Size(k) => recvd[k].data = Message(k)

\* A short result means the end of the stream: the sender has closed it, or
\* an earlier call has told that the connection is lost; nothing is left, and
\* the buffer holds as much as the result says.
ShortAtEnd ==
  \A k \in 1 .. Len(recvd) :
    recvd[k].n \in 0 .. Size(k) - 1 =>
      /\ "tx" \notin open \/ \E j \in 1 .. k - 1 : recvd[j].n = -1
      /\ sock = << >>
      /\ Len(recvd[k].data) = recvd[k].n

\* While the connection is up and no call has failed, a message that _cs_sendn
\* reports as sent is in the socket or with the receiver as a whole.
SentWhole ==
  /\ NoError /\ link = "up"
  /\ ~call["tx"].busy
  /\ \A k \in 1 .. Len(recvd) : recvd[k].n = Size(k)
  => First[Len(recvd) + 1] + Len(buffer) + Len(sock) = First[Len(sent) + 1]

BytesOf(s)  == {s[i] : i \in 1 .. Len(s)}
Below(S, T) == \A a \in S, b \in T : a < b

Got(k) == BytesOf(recvd[k].data)

\* A byte that has come into one of the receiver's buffers, or is on its way.
Held(b) == \/ \E k \in 1 .. Len(recvd) : b \in Got(k)
           \/ b \in BytesOf(buffer) \cup BytesOf(sock)

Increasing(s) == \A i, j \in 1 .. Len(s) : i < j => s[i] < s[j]

\* Whatever call fails, and however often the programs go on after it: the
\* bytes come in the order of the stream and none comes twice, ...
NoneTwice ==
  /\ \A k \in 1 .. Len(recvd) : Increasing(recvd[k].data)
  /\ Increasing(buffer) /\ Increasing(sock)
  /\ \A j, k \in 1 .. Len(recvd) : j < k => Below(Got(j), Got(k))
  /\ \A k \in 1 .. Len(recvd) : Below(Got(k), BytesOf(buffer) \cup BytesOf(sock))
  /\ Below(BytesOf(buffer), BytesOf(sock))

\* ... and while the connection is up no byte is missing of a message that
\* _cs_sendn reports as sent.
NoneMissing ==
  link = "up" => \A k \in 1 .. Len(sent) :
                   sent[k] # -1 => \A b \in First[k] .. First[k + 1] - 1 : Held(b)

\* A -1 in the middle of a message, which the two functions give without a
\* word on how far they came, breaks the framing but never the stream.
StreamIntact == NoneTwice /\ NoneMissing

\* No call goes on for ever while its peer is in a call too or has closed its
\* end: the two loops cannot wait for each other.
CallsReturn == \A e \in End : []<>(call[e].busy => Other(e) \in open /\ ~call[Other(e)].busy)
=============================================================================
