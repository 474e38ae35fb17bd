----------------------------- MODULE ExitProofs -----------------------------
(***************************************************************************)
(* Theorems about the exit server, for any number of sessions, requests    *)
(* and upstream connections.                                               *)
(***************************************************************************)
EXTENDS ExitServer, SessionPoolProofs

(* What a batch may hold of a session is a sequence of its frames, and its *)
(* SYN can only be the first of them.                                      *)
LEMMA SegmentFacts ==
  ASSUME NEW s \in Sid, NEW g \in Segments(s)
  PROVE  /\ g \in Seq(Frame) /\ AfterSyn(g) \in Seq(Frame)
         /\ Accepted(s, g) \in Seq(Frame)
<1>1. PICK k \in 0..MaxWrites : g \in Parts(ClientStream(s, k))
  BY DEF Segments
<1> DEFINE n == k + 2
           c == ClientStream(s, k)
<1>2. n \in Nat /\ k \in Nat /\ \A i \in 1..n : c[i] \in Frame
  <2>1. n \in Nat /\ k \in Nat
    BY ExitAssumption
  <2>2. 1 \in 0..MaxPayload
    BY ExitAssumption, SizesAssumption
  <2>3. Syn(s) \in Frame /\ Fin(s) \in Frame /\ \A m \in Nat : Data(s, m, 1) \in Frame
    BY <2>2, FramesTyped
  <2>4. ASSUME NEW i \in 1..n, i # 1
        PROVE  i - 2 \in Nat
    BY <2>1, <2>4
  <2> QED
    BY <2>1, <2>3, <2>4 DEF ClientStream
<1>3. c \in Seq(Frame) /\ Len(c) = n
  <2>1. c = [i \in 1..n |-> c[i]]
    BY DEF ClientStream
  <2> HIDE DEF c, n
  <2>2. c \in [1..n -> Frame]
    BY <1>2, <2>1
  <2> QED
    BY <1>2, <2>2
<1>4. g \in Parts(c)
  BY <1>1
<1> HIDE DEF c, n
<1>5. g \in Seq(Frame)
  <2>1. PICK a \in 1..Len(c), b \in 0..Len(c) : g = SubSeq(c, a, b)
    BY <1>4 DEF Parts
  <2> QED
    BY <1>2, <1>3, <2>1
<1>6. AfterSyn(g) \in Seq(Frame)
  BY <1>5 DEF AfterSyn, HasSyn
<1> QED
  BY <1>5, <1>6 DEF Accepted

LEMMA EnqueuedFacts ==
  ASSUME TypeOK, NEW s \in Sid, NEW g \in Segments(s)
  PROVE  /\ Enqueued(s, g) \in Session
         /\ Enqueued(s, g).tx_q = sess[s].tx_q
         /\ Enqueued(s, g).rx_q = sess[s].rx_q \o Accepted(s, g)
         /\ Enqueued(s, g).rx_event <=> sess[s].rx_event \/ Accepted(s, g) # <<>>
<1>1. sess[s] \in Session /\ sess[s].rx_q \in Seq(Frame) /\ Accepted(s, g) \in Seq(Frame)
  BY SegmentFacts DEF TypeOK, Session
<1>2. sess[s].rx_q \o Accepted(s, g) \in Seq(Frame)
  BY <1>1
<1> QED
  BY <1>1, <1>2 DEF Enqueued, Session

(* The actions, one by one.                                                *)
LEMMA NextSplits ==
  ASSUME Next
  PROVE  \/ \E h \in Handler : \/ PollReply(h) \/ PollAgain(h) \/ PollTimeout(h)
                               \/ \E b \in Batch : Post(h, b)
         \/ \E u \in Conn : \/ DialConnected(u) \/ DialRefused(u) \/ DialRaised(u)
                            \/ ReadChunk(u) \/ ReadEnd(u)
                            \/ Write(u) \/ Await(u) \/ WriteError(u) \/ Supervise(u)
         \/ \E s \in Sid : GoIdle(s)
BY DEF Next, Poll, Dial, Read, Writer

(* Draining and enqueueing on the server.                                  *)
LEMMA DrainedSession ==
  ASSUME NEW x \in Session
  PROVE  /\ DrainTx(x, MaxDrain) \in Session
         /\ DrainTx(x, MaxDrain).tx_q = Undrained(x, MaxDrain)
         /\ DrainTx(x, MaxDrain).rx_q = x.rx_q
         /\ DrainTx(x, MaxDrain).rx_event = x.rx_event
         /\ Snapshot(x, MaxDrain) \in Seq(Frame)
         /\ Undrained(x, MaxDrain) \in Seq(Frame)
         /\ Snapshot(x, MaxDrain) \o Undrained(x, MaxDrain) = x.tx_q
<1>1. MaxDrain \in Nat
  BY ExitAssumption
<1> QED
  BY <1>1, DrainSplits, DrainTxAccounted DEF DrainTx, Session

LEMMA ProducedFrames ==
  \A u \in Conn : /\ Fin(u[1]) \in Frame /\ Rst(u[1], 1) \in Frame
                  /\ \A n \in Nat : Data(u[1], n, 1) \in Frame
                  /\ u[1] \in Sid
<1>1. 1 \in 0..MaxPayload
  BY ExitAssumption, SizesAssumption
<1> QED
  BY <1>1, FramesTyped DEF Conn, Rst, Frame

LEMMA ProduceType ==
  ASSUME TypeOK, NEW u \in Conn, NEW f \in Frame, Produce(u, f)
  PROVE  /\ pool' \subseteq Sid /\ idle' \subseteq Sid
         /\ sess' \in [Sid -> Session]
         /\ produced' \in [Sid -> Seq(Frame)]
<1>1. u[1] \in Sid
  BY DEF Conn
<1>2. EnqueueTx(sess[u[1]], f) \in Session
  BY <1>1, EnqueueTxAccounted DEF TypeOK
<1>3. Append(produced[u[1]], f) \in Seq(Frame)
  BY <1>1 DEF TypeOK
<1> QED
  BY <1>1, <1>2, <1>3 DEF Produce, TypeOK

LEMMA WokenType ==
  ASSUME TypeOK, NEW S
  PROVE  Woken(S) \in [Conn -> {"none", "start", "wait", "woken", "drain", "done"}]
BY DEF TypeOK, Woken

LEMMA PollsFacts ==
  ASSUME TypeOK, NEW h \in Handler
  PROVE  /\ 0 \in {NoRequest} \cup 0..LongPollWindow
         /\ NoRequest \in {NoRequest} \cup 0..LongPollWindow
         /\ polls[h] # NoRequest /\ polls[h] < LongPollWindow =>
               polls[h] + 1 \in {NoRequest} \cup 0..LongPollWindow
<1>1. LongPollWindow \in Nat /\ polls[h] \in {NoRequest} \cup 0..LongPollWindow
  BY ExitAssumption DEF TypeOK
<1> QED
  BY <1>1 DEF NoRequest

LEMMA PostType ==
  ASSUME TypeOK, NEW h \in Handler, NEW b \in Batch, Post(h, b)
  PROVE  TypeOK'
<1> DEFINE S == {s \in Sid : Accepts(s, b[s])}
           tx == {s \in pool : sess[s].tx_q # <<>>}
<1>1. \A s \in Sid : b[s] \in Segments(s)
  BY DEF Batch
<1>2. pool' \subseteq Sid /\ idle' \subseteq Sid
  BY DEF Post, TypeOK
<1>3. \A s \in Sid : /\ Enqueued(s, b[s]) \in Session
                     /\ DrainTx(Enqueued(s, b[s]), MaxDrain) \in Session
                     /\ Snapshot(sess[s], MaxDrain) \in Seq(Frame)
                     /\ Accepted(s, b[s]) \in Seq(Frame)
  <2>1. \A s \in Sid : sess[s] \in Session
    BY DEF TypeOK
  <2> QED
    BY <1>1, <2>1, EnqueuedFacts, SegmentFacts, DrainedSession
<1>4. sess' \in [Sid -> Session]
  BY <1>3 DEF Post
<1>5. conns' \in [Sid -> 0..MaxConn]
  <2>1. MaxConn \in Nat /\ \A s \in Sid : conns[s] \in 0..MaxConn
    BY ExitAssumption DEF TypeOK
  <2>2. \A s \in Dialled(b) : conns[s] < MaxConn
    BY DEF Post
  <2>3. \A s \in Sid :
           (IF s \in Dialled(b) THEN conns[s] + 1 ELSE conns[s]) \in 0..MaxConn
    BY <2>1, <2>2
  <2>4. conns' = [s \in Sid |-> IF s \in Dialled(b) THEN conns[s] + 1 ELSE conns[s]]
    BY DEF Post
  <2> QED
    BY <2>3, <2>4
<1>6. task' \in [Conn -> {"none", "dial", "open", "closed", "refused", "raised"}]
  BY DEF Post, TypeOK
<1>7. writer' \in [Conn -> {"none", "start", "wait", "woken", "drain", "done"}]
  BY WokenType DEF Post
<1>8. polls' \in [Handler -> {NoRequest} \cup 0..LongPollWindow]
  BY PollsFacts DEF Post, TypeOK
<1>9. accepted' \in [Sid -> Seq(Frame)]
  <2>1. \A s \in Sid : accepted[s] \o Accepted(s, b[s]) \in Seq(Frame)
    BY <1>3 DEF TypeOK
  <2> QED
    BY <2>1 DEF Post
<1>10. taken' \in [Sid -> Seq(Frame)]
  <2>1. \A s \in Sid : /\ taken[s] \o Snapshot(sess[s], MaxDrain) \in Seq(Frame)
                       /\ taken[s] \in Seq(Frame)
    BY <1>3 DEF TypeOK
  <2> QED
    BY <2>1 DEF Post
<1> QED
  BY <1>2, <1>4, <1>5, <1>6, <1>7, <1>8, <1>9, <1>10 DEF Post, TypeOK

LEMMA PollType ==
  ASSUME TypeOK, NEW h \in Handler, PollReply(h) \/ PollAgain(h) \/ PollTimeout(h)
  PROVE  TypeOK'
<1>1. CASE PollReply(h)
  <2>1. \A s \in Sid : sess[s] \in Session /\ taken[s] \in Seq(Frame)
    BY DEF TypeOK
  <2>2. \A s \in Sid : /\ DrainTx(sess[s], MaxDrain) \in Session
                       /\ taken[s] \o Snapshot(sess[s], MaxDrain) \in Seq(Frame)
    BY <2>1, DrainedSession
  <2>3. sess' \in [Sid -> Session] /\ taken' \in [Sid -> Seq(Frame)]
    BY <1>1, <2>1, <2>2 DEF PollReply
  <2>4. polls' \in [Handler -> {NoRequest} \cup 0..LongPollWindow]
    BY <1>1, PollsFacts DEF PollReply, TypeOK
  <2> QED
    BY <1>1, <2>3, <2>4 DEF PollReply, TypeOK, connVars
<1>2. CASE PollAgain(h)
  <2>1. PICK S : Purge(S)
    BY <1>2 DEF PollAgain
  <2>2. /\ pool' \subseteq Sid
        /\ writer' \in [Conn -> {"none", "start", "wait", "woken", "drain", "done"}]
    BY <2>1, WokenType DEF Purge, TypeOK
  <2>4. sess' \in [Sid -> Session]
    <3>1. \A s \in Sid : /\ sess[s] \in Session
                         /\ [sess[s] EXCEPT !.tx_event = TRUE, !.rx_event = TRUE] \in Session
      BY DEF TypeOK, Session
    <3> QED
      BY <2>1, <3>1 DEF Purge
  <2>3. polls' \in [Handler -> {NoRequest} \cup 0..LongPollWindow]
    BY <1>2, PollsFacts DEF PollAgain, TypeOK
  <2> QED
    BY <1>2, <2>2, <2>3, <2>4 DEF PollAgain, TypeOK, history
<1>3. CASE PollTimeout(h)
  BY <1>3, PollsFacts DEF PollTimeout, TypeOK, poolVars, connVars, history
<1> QED
  BY <1>1, <1>2, <1>3

LEMMA ConnType ==
  ASSUME TypeOK, NEW u \in Conn,
         \/ DialConnected(u) \/ DialRefused(u) \/ DialRaised(u)
         \/ ReadChunk(u) \/ ReadEnd(u)
         \/ Write(u) \/ Await(u) \/ WriteError(u) \/ Supervise(u)
  PROVE  TypeOK'
<1>1. CASE DialConnected(u) \/ DialRaised(u) \/ WriteError(u)
  BY <1>1 DEF DialConnected, DialRaised, WriteError, TypeOK, poolVars, history
<1>2. CASE DialRefused(u)
  <2>1. Produce(u, Rst(u[1], 1)) /\ Rst(u[1], 1) \in Frame
    BY <1>2, ProducedFrames DEF DialRefused
  <2> QED
    BY <1>2, <2>1, ProduceType DEF DialRefused, TypeOK
<1>3. CASE ReadChunk(u)
  <2>1. rseq[u] \in Nat /\ rseq[u] + 1 \in 0..MaxReads
    BY <1>3, ExitAssumption DEF ReadChunk, TypeOK
  <2>2. Produce(u, Data(u[1], rseq[u], 1)) /\ Data(u[1], rseq[u], 1) \in Frame
    BY <1>3, <2>1, ProducedFrames DEF ReadChunk
  <2>3. rseq' \in [Conn -> 0..MaxReads]
    BY <1>3, <2>1 DEF ReadChunk, TypeOK
  <2> QED
    BY <1>3, <2>2, <2>3, ProduceType DEF ReadChunk, TypeOK
<1>4. CASE ReadEnd(u)
  <2>1. Produce(u, Fin(u[1])) /\ Fin(u[1]) \in Frame
    BY <1>4, ProducedFrames DEF ReadEnd
  <2> QED
    BY <1>4, <2>1, ProduceType DEF ReadEnd, TypeOK
<1>5. CASE Write(u)
  <2> DEFINE s == u[1]
             q == sess[s].rx_q
  <2>1. s \in Sid /\ sess[s] \in Session /\ q \in Seq(Frame) /\ q # <<>>
    BY <1>5 DEF TypeOK, Conn, Write, Session
  <2>2. Head(q) \in Frame /\ Tail(q) \in Seq(Frame)
    BY <2>1
  <2>3. sess' \in [Sid -> Session]
    BY <1>5, <2>1, <2>2 DEF Write, Pop, TypeOK, Session
  <2>4. Append(written[u], Head(q)) \in Seq(Frame)
    BY <2>2 DEF TypeOK
  <2>5. written' \in [Conn -> Seq(Frame)]
    BY <1>5, <2>4 DEF Write, Pop, TypeOK
  <2>6. writer' \in [Conn -> {"none", "start", "wait", "woken", "drain", "done"}]
    BY <1>5 DEF Write, Pop, TypeOK
  <2> QED
    BY <1>5, <2>3, <2>5, <2>6 DEF Write, TypeOK
<1>6. CASE Await(u)
  <2>1. sess' \in [Sid -> Session]
    <3> DEFINE x == [sess[u[1]] EXCEPT !.rx_event = FALSE]
    <3>1. sess[u[1]] \in Session
      BY ProducedFrames DEF TypeOK
    <3>2. x \in Session
      BY <3>1 DEF Session
    <3>3. sess' = [sess EXCEPT ![u[1]] = x]
      BY <1>6 DEF Await
    <3> HIDE DEF x
    <3> QED
      BY <3>2, <3>3 DEF TypeOK
  <2> QED
    BY <1>6, <2>1 DEF Await, TypeOK, history
<1>7. CASE Supervise(u)
  <2>1. /\ pool' \subseteq Sid /\ idle' \subseteq Sid
        /\ sess' \in [Sid -> Session]
        /\ produced' \in [Sid -> Seq(Frame)]
    <3>1. CASE reader[u] = "read"
      BY <1>7, <3>1, ProducedFrames, ProduceType DEF Supervise
    <3>2. CASE reader[u] # "read"
      BY <1>7, <3>2 DEF Supervise, TypeOK, poolVars
    <3> QED
      BY <3>1, <3>2
  <2> QED
    BY <1>7, <2>1 DEF Supervise, TypeOK
<1> QED
  BY <1>1, <1>2, <1>3, <1>4, <1>5, <1>6, <1>7

(* Every variable of the exit server keeps its type; in particular no poll *)
(* outlasts its window and no worker count its bound.                      *)
THEOREM ExitTypeCorrect == Spec => []TypeOK
<1>1. Init => TypeOK
  <2>1. NewSession \in Session /\ <<>> \in Seq(Frame)
    BY NewSessionAccounted, EmptySeq
  <2>2. 0 \in 0..MaxConn /\ 0 \in 0..MaxReads
    BY ExitAssumption
  <2> QED
    BY <2>1, <2>2 DEF Init, TypeOK
<1>2. TypeOK /\ [Next]_vars => TypeOK'
  <2> SUFFICES ASSUME TypeOK, [Next]_vars PROVE TypeOK'
    OBVIOUS
  <2>1. CASE \E s \in Sid : GoIdle(s)
    BY <2>1 DEF GoIdle, TypeOK, connVars, history
  <2>2. CASE UNCHANGED vars
    BY <2>2 DEF TypeOK, vars, poolVars, connVars, history
  <2> QED
    BY <2>1, <2>2, NextSplits, PostType, PollType, ConnType
<1> QED
  BY <1>1, <1>2, PTL DEF Spec
----------------------------------------------------------------------------
(* Towards the client: what the polls have taken, then the queue, is what  *)
(* the upstream workers have produced.                                     *)
DownLine == \A s \in Sid : taken[s] \o sess[s].tx_q = produced[s]

(* A step drains queues into replies, or appends one frame, or neither.    *)
Untaken(s) == taken'[s] = taken[s] /\ sess'[s].tx_q = sess[s].tx_q
Drains ==
    /\ produced' = produced
    /\ DOMAIN taken' = Sid
    /\ \A s \in Sid :
          \/ Untaken(s)
          \/ /\ taken'[s] = taken[s] \o Snapshot(sess[s], MaxDrain)
             /\ sess'[s].tx_q = Undrained(sess[s], MaxDrain)
Appends(s, f) ==
    /\ taken' = taken
    /\ produced' = [produced EXCEPT ![s] = Append(@, f)]
    /\ sess'[s].tx_q = Append(sess[s].tx_q, f)
    /\ \A t \in Sid \ {s} : sess'[t].tx_q = sess[t].tx_q

LEMMA ProduceAppends ==
  ASSUME TypeOK, NEW u \in Conn, NEW f \in Frame, Produce(u, f), taken' = taken
  PROVE  Appends(u[1], f)
<1>1. u[1] \in Sid /\ sess[u[1]] \in Session
  BY ProducedFrames DEF TypeOK
<1>2. sess' = [sess EXCEPT ![u[1]] = EnqueueTx(sess[u[1]], f)]
  BY DEF Produce
<1>3. sess'[u[1]] = EnqueueTx(sess[u[1]], f)
  BY <1>1, <1>2 DEF TypeOK
<1>4. EnqueueTx(sess[u[1]], f).tx_q = Append(sess[u[1]].tx_q, f)
  BY <1>1, EnqueueTxAccounted
<1>5. \A t \in Sid \ {u[1]} : sess'[t].tx_q = sess[t].tx_q
  BY <1>2 DEF TypeOK
<1> QED
  BY <1>3, <1>4, <1>5 DEF Produce, Appends

(* A writer's step touches the receive queue of its session only.          *)
LEMMA WriterEffect ==
  ASSUME TypeOK, NEW u \in Conn, Write(u) \/ Await(u)
  PROVE  /\ \A s \in Sid : sess'[s].tx_q = sess[s].tx_q
         /\ \A s \in Sid \ {u[1]} : sess'[s] = sess[s]
         /\ Write(u) => sess'[u[1]].rx_q = Tail(sess[u[1]].rx_q)
         /\ Await(u) => sess'[u[1]].rx_q = sess[u[1]].rx_q
<1>1. u[1] \in Sid /\ sess[u[1]] \in Session /\ DOMAIN sess = Sid
  BY ProducedFrames DEF TypeOK
<1>2. CASE Write(u)
  <2> DEFINE x == [sess[u[1]] EXCEPT
                     !.rx_q = Tail(@),
                     !.rx_event = IF writer[u] = "drain" THEN @ ELSE FALSE]
  <2>1. sess' = [sess EXCEPT ![u[1]] = x]
    BY <1>1, <1>2 DEF Write, Pop
  <2>2. x.tx_q = sess[u[1]].tx_q /\ x.rx_q = Tail(sess[u[1]].rx_q)
    BY <1>1 DEF Session
  <2>3. ~Await(u)
    BY <1>2 DEF Write, Await, Runnable
  <2> HIDE DEF x
  <2> QED
    BY <1>1, <2>1, <2>2, <2>3
<1>3. CASE Await(u)
  <2> DEFINE x == [sess[u[1]] EXCEPT !.rx_event = FALSE]
  <2>1. sess' = [sess EXCEPT ![u[1]] = x]
    BY <1>1, <1>3 DEF Await
  <2>2. x.tx_q = sess[u[1]].tx_q /\ x.rx_q = sess[u[1]].rx_q
    BY <1>1 DEF Session
  <2>3. ~Write(u)
    BY <1>3 DEF Write, Await, Runnable
  <2> HIDE DEF x
  <2> QED
    BY <1>1, <2>1, <2>2, <2>3
<1> QED
  BY <1>2, <1>3

LEMMA DownStep ==
  ASSUME TypeOK, [Next]_vars
  PROVE  Drains \/ \E s \in Sid, f \in Frame : Appends(s, f)
<1>0. DOMAIN taken = Sid /\ \A s \in Sid : sess[s] \in Session
  BY DEF TypeOK
<1>1. ASSUME NEW h \in Handler, NEW b \in Batch, Post(h, b)
      PROVE  Drains
  <2>1. \A s \in Sid : /\ Enqueued(s, b[s]).tx_q = sess[s].tx_q
                       /\ Enqueued(s, b[s]) \in Session
    BY EnqueuedFacts DEF Batch
  <2>2. \A s \in Sid : DrainTx(Enqueued(s, b[s]), MaxDrain).tx_q
                          = Undrained(sess[s], MaxDrain)
    <3> TAKE s \in Sid
    <3>1. DrainTx(Enqueued(s, b[s]), MaxDrain).tx_q = Undrained(Enqueued(s, b[s]), MaxDrain)
      BY <2>1, DrainedSession
    <3> QED
      BY <2>1, <3>1 DEF Undrained, SnapshotLen
  <2> QED
    BY <1>1, <2>1, <2>2 DEF Post, Drains, Untaken
<1>2. ASSUME NEW h \in Handler, PollReply(h)
      PROVE  Drains
  <2>1. \A s \in Sid : DrainTx(sess[s], MaxDrain).tx_q = Undrained(sess[s], MaxDrain)
    BY <1>0, DrainedSession
  <2> QED
    BY <1>2, <2>1 DEF PollReply, Drains, Untaken
<1>3. ASSUME NEW h \in Handler, PollAgain(h)
      PROVE  Drains
  <2>1. PICK S : Purge(S)
    BY <1>3 DEF PollAgain
  <2>2. \A s \in Sid : sess'[s].tx_q = sess[s].tx_q
    BY <1>0, <2>1 DEF Purge, Session
  <2> QED
    BY <1>0, <1>3, <2>2 DEF PollAgain, history, Drains, Untaken
<1>4. ASSUME NEW h \in Handler, PollTimeout(h)
      PROVE  Drains
  BY <1>0, <1>4 DEF PollTimeout, poolVars, history, Drains, Untaken
<1>5. ASSUME NEW u \in Conn,
             \/ DialConnected(u) \/ DialRaised(u) \/ WriteError(u)
             \/ Supervise(u) /\ reader[u] # "read"
      PROVE  Drains
  BY <1>0, <1>5 DEF DialConnected, DialRaised, WriteError, Supervise, poolVars,
                    history, Drains, Untaken
<1>6. ASSUME NEW u \in Conn, Write(u) \/ Await(u)
      PROVE  Drains
  <2>1. u[1] \in Sid
    BY ProducedFrames
  <2>2. \A s \in Sid : sess'[s].tx_q = sess[s].tx_q
    BY <1>6, WriterEffect
  <2>3. taken' = taken /\ produced' = produced
    BY <1>6 DEF Write, Await, history
  <2> QED
    BY <1>0, <2>2, <2>3 DEF Drains, Untaken
<1>7. ASSUME NEW u \in Conn, NEW f \in Frame, Produce(u, f), taken' = taken
      PROVE  \E s \in Sid, g \in Frame : Appends(s, g)
  BY <1>7, ProduceAppends, ProducedFrames
<1>8. ASSUME NEW u \in Conn,
             \/ DialRefused(u) \/ ReadChunk(u) \/ ReadEnd(u)
             \/ Supervise(u) /\ reader[u] = "read"
      PROVE  \E f \in Frame : Produce(u, f) /\ taken' = taken
  <2>1. rseq[u] \in Nat
    BY ExitAssumption DEF TypeOK
  <2> QED
    BY <1>8, <2>1, ProducedFrames DEF DialRefused, ReadChunk, ReadEnd, Supervise
<1>9. CASE (\E s \in Sid : GoIdle(s)) \/ UNCHANGED vars
  BY <1>0, <1>9 DEF GoIdle, vars, poolVars, history, Drains, Untaken
<1> QED
  BY <1>1, <1>2, <1>3, <1>4, <1>5, <1>6, <1>7, <1>8, <1>9, NextSplits

LEMMA DownKept == Spec => [](TypeOK /\ DownLine)
<1>1. Init => DownLine
  BY EmptySeq, ConcatEmptySeq DEF Init, DownLine, NewSession
<1>2. TypeOK /\ DownLine /\ [Next]_vars => DownLine'
  <2> SUFFICES ASSUME TypeOK, DownLine, [Next]_vars, NEW s \in Sid
               PROVE  taken'[s] \o sess'[s].tx_q = produced'[s]
    BY DEF DownLine
  <2> DEFINE a == taken[s]
             q == sess[s].tx_q
  <2>1. /\ a \in Seq(Frame) /\ q \in Seq(Frame) /\ a \o q = produced[s]
        /\ sess[s] \in Session /\ produced[s] \in Seq(Frame)
    BY DEF TypeOK, Session, DownLine
  <2>2. CASE Drains
    <3> DEFINE x == Snapshot(sess[s], MaxDrain)
               y == Undrained(sess[s], MaxDrain)
    <3>1. x \in Seq(Frame) /\ y \in Seq(Frame) /\ x \o y = q
      BY <2>1, DrainedSession
    <3>2. \/ taken'[s] = a /\ sess'[s].tx_q = q
          \/ taken'[s] = a \o x /\ sess'[s].tx_q = y
      BY <2>2 DEF Drains, Untaken
    <3>3. produced'[s] = produced[s]
      BY <2>2 DEF Drains
    <3> HIDE DEF a, q, x, y
    <3>4. (a \o x) \o y = a \o q
      BY <2>1, <3>1, Associative
    <3> QED
      BY <2>1, <3>2, <3>3, <3>4
  <2>3. ASSUME NEW r \in Sid, NEW f \in Frame, Appends(r, f)
        PROVE  taken'[s] \o sess'[s].tx_q = produced'[s]
    <3>1. CASE r # s
      BY <2>1, <2>3, <3>1 DEF Appends, TypeOK
    <3>2. CASE r = s
      <4>1. /\ taken'[s] = a /\ sess'[s].tx_q = Append(q, f)
            /\ produced'[s] = Append(produced[s], f)
        BY <2>3, <3>2 DEF Appends, TypeOK
      <4> HIDE DEF a, q
      <4>2. <<f>> \in Seq(Frame) /\ Append(q, f) = q \o <<f>>
            /\ Append(a \o q, f) = (a \o q) \o <<f>>
        BY <2>1, AppendIsConcat
      <4>3. (a \o q) \o <<f>> = a \o (q \o <<f>>)
        BY <2>1, <4>2, Associative
      <4> QED
        BY <2>1, <4>1, <4>2, <4>3
    <3> QED
      BY <3>1, <3>2
  <2> QED
    BY <2>2, <2>3, DownStep
<1> QED
  BY <1>1, <1>2, ExitTypeCorrect, PTL DEF Spec

(* Whatever requests, dials and connections do, the replies carry, for     *)
(* each session, exactly what the upstream workers produced, in order and  *)
(* once: the exit server implements Stream towards its clients.            *)
THEOREM ExitServesStream == Spec => ServesStream
<1>1. Init => Downstream!Init
  BY DEF Init, Downstream!Init
<1>2. TypeOK /\ TypeOK' /\ DownLine /\ DownLine' /\ [Next]_vars
      => [Downstream!Next]_<<produced, taken>>
  <2> SUFFICES ASSUME TypeOK, TypeOK', DownLine, DownLine', [Next]_vars
               PROVE  [Downstream!Next]_<<produced, taken>>
    OBVIOUS
  <2>1. CASE Drains
    <3>1. ASSUME NEW s \in Sid
          PROVE  \E n \in Len(taken[s])..Len(produced[s]) :
                    taken'[s] = SubSeq(produced[s], 1, n)
      <4> DEFINE a == taken[s]
                 b == taken'[s]
                 q == sess'[s].tx_q
      <4>1. /\ a \in Seq(Frame) /\ b \in Seq(Frame) /\ q \in Seq(Frame)
            /\ b \o q = produced[s]
        BY <2>1 DEF TypeOK, Session, DownLine, Drains
      <4>2. Len(a) <= Len(b) /\ Len(a) \in Nat
        <5>1. sess[s] \in Session
          BY DEF TypeOK
        <5>2. Snapshot(sess[s], MaxDrain) \in Seq(Frame)
          BY <5>1, DrainedSession
        <5>3. b = a \/ b = a \o Snapshot(sess[s], MaxDrain)
          BY <2>1 DEF Drains, Untaken
        <5> HIDE DEF a, b
        <5> DEFINE x == Snapshot(sess[s], MaxDrain)
        <5>4. Len(a) \in Nat /\ Len(x) \in Nat /\ Len(a \o x) = Len(a) + Len(x)
          BY <4>1, <5>2, ConcatProperties
        <5> HIDE DEF x
        <5> QED
          BY <5>3, <5>4 DEF x
      <4> HIDE DEF a, b, q
      <4>3. Len(b) \in 0..Len(produced[s]) /\ b = SubSeq(produced[s], 1, Len(b))
        BY <4>1, SequencePrefix
      <4>4. Len(b) \in Len(a)..Len(produced[s])
        BY <4>2, <4>3
      <4> QED
        BY <4>3, <4>4 DEF a, b
    <3>2. Downstream!Receive
      BY <2>1, <3>1 DEF Downstream!Receive, Drains
    <3> QED
      BY <3>2 DEF Downstream!Next
  <2>2. ASSUME NEW s \in Sid, NEW f \in Frame, Appends(s, f)
        PROVE  Downstream!Next
    <3>1. produced[s] \in Seq(Frame) /\ produced'[s] = Append(produced[s], f)
      BY <2>2 DEF TypeOK, Appends
    <3>2. Len(produced'[s]) = Len(produced[s]) + 1 /\ produced'[s][Len(produced'[s])] = f
      BY <3>1
    <3>3. Downstream!Send(s)
      BY <2>2, <3>2 DEF Downstream!Send, Appends
    <3> QED
      BY <3>3 DEF Downstream!Next
  <2> QED
    BY <2>1, <2>2, DownStep
<1> QED
  BY <1>1, <1>2, DownKept, PTL DEF Spec, ServesStream, Downstream!Spec
----------------------------------------------------------------------------
(* Towards the upstream hosts.  A worker's tasks exist only once it has    *)
(* been started and has dialled.                                           *)
WorkerInv(u) ==
    /\ u[2] > conns[u[1]] => task[u] = "none"
    /\ task[u] \in {"none", "dial", "refused", "raised"} =>
          reader[u] = "none" /\ writer[u] = "none" /\ written[u] = <<>>
    /\ task[u] = "open" => reader[u] # "none" /\ writer[u] # "none"
    /\ task[u] = "closed" => reader[u] = "done" /\ writer[u] = "done"

Fresh(s) == s \notin pool /\ accepted[s] = <<>> /\ sess[s].rx_q = <<>> /\ produced[s] = <<>>

(* The only worker u of session s.                                         *)
Single(s, u) ==
    /\ written[u] \o sess[s].rx_q = accepted[s]
    /\ writer[u] = "wait" => sess[s].rx_q = <<>>
    /\ writer[u] \in {"none", "start"} /\ sess[s].rx_q # <<>> => sess[s].rx_event
    /\ \A i \in DOMAIN produced[s] :
          Ending(produced[s][i]) =>
             i = Len(produced[s]) /\ (reader[u] = "done" \/ task[u] = "refused")

SessionInv(s) ==
    /\ ~Locked /\ conns[s] = 0 => Fresh(s)
    /\ conns[s] = 1 => Single(s, <<s, 1>>)

UpInv == (\A u \in Conn : WorkerInv(u)) /\ (\A s \in Sid : SessionInv(s))

LEMMA ConnFacts ==
  ASSUME TypeOK
  PROVE  /\ \A u \in Conn : /\ u = <<u[1], u[2]>> /\ u[1] \in Sid
                            /\ u[2] \in Nat /\ u[2] >= 1 /\ u[2] <= MaxConn
         /\ \A s \in Sid : conns[s] \in Nat /\ (conns[s] >= 1 => <<s, 1>> \in Conn)
<1>1. MaxConn \in Nat /\ \A s \in Sid : conns[s] \in 0..MaxConn
  BY ExitAssumption DEF TypeOK
<1> QED
  BY <1>1 DEF Conn

(* A worker that takes a step has been counted.                            *)
Steps(u) == \/ DialConnected(u) \/ DialRefused(u) \/ DialRaised(u)
            \/ ReadChunk(u) \/ ReadEnd(u)
            \/ Write(u) \/ Await(u) \/ WriteError(u) \/ Supervise(u)

LEMMA StepsStarted ==
  ASSUME TypeOK, UpInv, NEW u \in Conn, Steps(u)
  PROVE  task[u] # "none" /\ u[2] <= conns[u[1]]
<1>1. WorkerInv(u) /\ u[2] \in Nat /\ conns[u[1]] \in Nat
  BY ConnFacts DEF UpInv
<1>2. task[u] # "none"
  BY <1>1 DEF Steps, DialConnected, DialRefused, DialRaised, ReadChunk, ReadEnd,
              Write, Await, WriteError, Runnable, Supervise, WorkerInv
<1> QED
  BY <1>1, <1>2 DEF WorkerInv

(* and changes nothing of other workers and sessions.                      *)
LEMMA StepsLocal ==
  ASSUME TypeOK, NEW u \in Conn, Steps(u)
  PROVE  /\ conns' = conns /\ pool' = pool /\ accepted' = accepted
         /\ \A v \in Conn \ {u} : /\ task'[v] = task[v] /\ reader'[v] = reader[v]
                                  /\ writer'[v] = writer[v] /\ written'[v] = written[v]
         /\ \A s \in Sid \ {u[1]} : sess'[s] = sess[s] /\ produced'[s] = produced[s]
<1>1. u[1] \in Sid
  BY ConnFacts
<1>2. ASSUME NEW f, Produce(u, f)
      PROVE  /\ pool' = pool
             /\ \A s \in Sid \ {u[1]} : sess'[s] = sess[s] /\ produced'[s] = produced[s]
  BY <1>1, <1>2 DEF Produce, TypeOK
<1>3. CASE DialConnected(u) \/ DialRaised(u) \/ WriteError(u)
  BY <1>3 DEF DialConnected, DialRaised, WriteError, poolVars, history, TypeOK
<1>4. CASE DialRefused(u) \/ ReadChunk(u) \/ ReadEnd(u)
  BY <1>2, <1>4 DEF DialRefused, ReadChunk, ReadEnd, TypeOK
<1>5. CASE Supervise(u)
  BY <1>2, <1>5 DEF Supervise, poolVars, TypeOK
<1>6. CASE Write(u)
  BY <1>6, WriterEffect DEF Write, Pop, TypeOK
<1>7. CASE Await(u)
  BY <1>7, WriterEffect DEF Await, history, TypeOK
<1> QED
  BY <1>3, <1>4, <1>5, <1>6, <1>7 DEF Steps

LEMMA WorkerStep ==
  ASSUME TypeOK, UpInv, NEW u \in Conn, Steps(u), NEW v \in Conn
  PROVE  WorkerInv(v)'
<1>1. WorkerInv(v)
  BY DEF UpInv
<1>2. CASE v # u
  BY <1>1, <1>2, StepsLocal DEF WorkerInv
<1>3. CASE v = u
  <2>1. conns' = conns /\ task[u] # "none" /\ ~(u[2] > conns[u[1]])
    <3>1. u[2] \in Nat /\ conns[u[1]] \in Nat
      BY ConnFacts
    <3> QED
      BY <3>1, StepsStarted, StepsLocal
  <2>2. CASE DialConnected(u) \/ DialRefused(u) \/ DialRaised(u)
    BY <1>1, <1>3, <2>1, <2>2 DEF DialConnected, DialRefused, DialRaised, WorkerInv,
                                  history, TypeOK
  <2>3. CASE ReadChunk(u) \/ ReadEnd(u)
    BY <1>1, <1>3, <2>1, <2>3 DEF ReadChunk, ReadEnd, WorkerInv, TypeOK
  <2>4. CASE Write(u)
    <3>1. writer[u] \in {"woken", "drain", "start"}
      BY <2>4 DEF Write, Runnable
    <3>2. task' = task /\ reader' = reader /\ writer'[u] \in {"done", "drain"}
      BY <2>4 DEF Write, Pop, TypeOK
    <3> QED
      BY <1>1, <1>3, <2>1, <3>1, <3>2 DEF WorkerInv, TypeOK
  <2>5. CASE Await(u)
    <3>1. writer[u] \in {"woken", "drain", "start"}
      BY <2>5 DEF Await, Runnable
    <3>2. task' = task /\ reader' = reader /\ writer'[u] = "wait"
      BY <2>5 DEF Await, TypeOK
    <3> QED
      BY <1>1, <1>3, <2>1, <3>1, <3>2 DEF WorkerInv, TypeOK
  <2>6. CASE WriteError(u) \/ Supervise(u)
    BY <1>1, <1>3, <2>1, <2>6 DEF WriteError, Supervise, WorkerInv, TypeOK
  <2> QED
    BY <2>2, <2>3, <2>4, <2>5, <2>6 DEF Steps
<1> QED
  BY <1>2, <1>3

(* What a worker produces leaves the receive side of its session alone.    *)
LEMMA ProduceEffect ==
  ASSUME TypeOK, NEW u \in Conn, NEW f \in Frame, Produce(u, f)
  PROVE  LET s == u[1]
         IN  /\ sess'[s].rx_q = sess[s].rx_q /\ sess'[s].rx_event = sess[s].rx_event
             /\ produced'[s] = Append(produced[s], f)
             /\ DOMAIN produced'[s] = 1..Len(produced'[s])
             /\ DOMAIN produced[s] = 1..Len(produced[s])
             /\ Len(produced'[s]) = Len(produced[s]) + 1
             /\ Len(produced[s]) \in Nat
             /\ produced'[s][Len(produced'[s])] = f
             /\ \A i \in 1..Len(produced[s]) : produced'[s][i] = produced[s][i]
<1> DEFINE s == u[1]
           q == produced[s]
           r == produced'[s]
<1>1. s \in Sid /\ sess[s] \in Session /\ q \in Seq(Frame)
  BY ConnFacts DEF TypeOK
<1>2. sess'[s] = EnqueueTx(sess[s], f) /\ r = Append(q, f)
  BY <1>1 DEF Produce, TypeOK
<1>3. sess'[s].rx_q = sess[s].rx_q /\ sess'[s].rx_event = sess[s].rx_event
  BY <1>1, <1>2 DEF EnqueueTx, Session
<1> HIDE DEF q, r
<1>4. /\ Len(r) = Len(q) + 1 /\ r[Len(r)] = f /\ Len(q) \in Nat
      /\ DOMAIN r = 1..Len(r) /\ DOMAIN q = 1..Len(q)
      /\ \A i \in 1..Len(q) : r[i] = q[i]
  <2>1. r \in Seq(Frame)
    BY <1>1, <1>2
  <2> QED
    BY <1>1, <1>2, <2>1
<1> QED
  BY <1>2, <1>3, <1>4 DEF q, r

LEMMA SingleStep ==
  ASSUME TypeOK, UpInv, NEW u \in Conn, Steps(u), conns[u[1]] = 1, u = <<u[1], 1>>
  PROVE  Single(u[1], u)'
<1> DEFINE s == u[1]
<1>1. Single(s, u) /\ WorkerInv(u) /\ s \in Sid
  BY ConnFacts DEF UpInv, SessionInv
<1>2. accepted' = accepted
  BY StepsLocal
<1>3. /\ sess[s] \in Session /\ sess[s].rx_q \in Seq(Frame) /\ written[u] \in Seq(Frame)
  BY <1>1 DEF TypeOK, Session
(* A worker that produces its first ending.                                *)
<1>4. ASSUME NEW f \in Frame, Produce(u, f), reader[u] # "done", task[u] # "refused",
             Ending(f) => reader'[u] = "done" \/ task'[u] = "refused",
             written' = written,
             writer'[u] = writer[u] \/ writer'[u] = "done"
      PROVE  Single(s, u)'
  <2>1. \A i \in DOMAIN produced[s] : ~Ending(produced[s][i])
    BY <1>1, <1>4 DEF Single
  <2>2. \A i \in DOMAIN produced'[s] :
           Ending(produced'[s][i]) =>
              i = Len(produced'[s]) /\ (reader'[u] = "done" \/ task'[u] = "refused")
    BY <1>4, <2>1, ProduceEffect
  <2>3. sess'[s].rx_q = sess[s].rx_q /\ sess'[s].rx_event = sess[s].rx_event
    BY <1>4, ProduceEffect
  <2> QED
    BY <1>1, <1>2, <1>4, <2>2, <2>3 DEF Single
<1>5. CASE DialConnected(u)
  BY <1>1, <1>5 DEF DialConnected, Single, WorkerInv, poolVars, history, TypeOK
<1>6. CASE DialRefused(u)
  <2>1. Produce(u, Rst(s, 1)) /\ Rst(s, 1) \in Frame
    BY <1>6, ProducedFrames DEF DialRefused
  <2>2. /\ reader[u] = "none" /\ task[u] = "dial" /\ task'[u] = "refused"
        /\ written' = written /\ writer' = writer
    BY <1>1, <1>6 DEF DialRefused, WorkerInv, TypeOK
  <2> QED
    BY <1>4, <2>1, <2>2
<1>7. CASE DialRaised(u)
  BY <1>1, <1>7 DEF DialRaised, Single, WorkerInv, poolVars, history, TypeOK
<1>8. CASE ReadChunk(u)
  <2>1. rseq[u] \in Nat
    BY ExitAssumption DEF TypeOK
  <2>2. Produce(u, Data(s, rseq[u], 1)) /\ Data(s, rseq[u], 1) \in Frame
    BY <1>8, <2>1, ProducedFrames DEF ReadChunk
  <2>3. ~Ending(Data(s, rseq[u], 1))
    BY DEF Ending, Data
  <2>4. /\ reader[u] = "read" /\ task[u] # "refused"
        /\ written' = written /\ writer' = writer
    BY <1>1, <1>8 DEF ReadChunk, WorkerInv
  <2> QED
    BY <1>4, <2>2, <2>3, <2>4
<1>9. CASE ReadEnd(u)
  <2>1. Produce(u, Fin(s)) /\ Fin(s) \in Frame
    BY <1>9, ProducedFrames DEF ReadEnd
  <2>2. /\ reader[u] = "read" /\ task[u] # "refused" /\ reader'[u] = "done"
        /\ written' = written /\ writer' = writer
    BY <1>1, <1>9 DEF ReadEnd, WorkerInv, TypeOK
  <2> QED
    BY <1>4, <2>1, <2>2
<1>10. CASE Write(u)
  <2> DEFINE q == sess[s].rx_q
             w == written[u]
  <2>1. q # <<>> /\ sess'[s].rx_q = Tail(q)
    BY <1>10, WriterEffect DEF Write
  <2>2. /\ written'[u] = Append(w, Head(q)) /\ writer'[u] \in {"done", "drain"}
        /\ reader' = reader /\ task' = task /\ produced' = produced
    BY <1>10 DEF Write, Pop, TypeOK
  <2> HIDE DEF q, w
  <2>3. Append(w, Head(q)) \o Tail(q) = w \o q
    <3>1. q \in Seq(Frame) /\ w \in Seq(Frame) /\ Head(q) \in Frame /\ Tail(q) \in Seq(Frame)
      BY <1>3, <2>1 DEF q, w
    <3>2. /\ <<Head(q)>> \in Seq(Frame) /\ Append(w, Head(q)) = w \o <<Head(q)>>
          /\ <<Head(q)>> \o Tail(q) = q
      BY <2>1, <3>1, AppendIsConcat, HeadTailProperties
    <3>3. (w \o <<Head(q)>>) \o Tail(q) = w \o (<<Head(q)>> \o Tail(q))
      BY <3>1, <3>2, Associative
    <3> QED
      BY <3>2, <3>3
  <2> QED
    BY <1>1, <1>2, <2>1, <2>2, <2>3 DEF Single, q, w
<1>11. CASE Await(u)
  <2>1. sess[s].rx_q = <<>>
    BY <1>1, <1>11 DEF Await, Single
  <2>2. sess'[s].rx_q = <<>>
    BY <1>11, <2>1, WriterEffect
  <2>3. /\ written' = written /\ writer'[u] = "wait"
        /\ reader' = reader /\ task' = task /\ produced' = produced
    BY <1>11 DEF Await, history, TypeOK
  <2> QED
    BY <1>1, <1>2, <2>1, <2>2, <2>3 DEF Single
<1>12. CASE WriteError(u)
  BY <1>1, <1>12 DEF WriteError, Single, poolVars, history, TypeOK
<1>13. CASE Supervise(u)
  <2>1. /\ reader'[u] = "done" /\ writer'[u] = "done" /\ written' = written
        /\ task[u] = "open"
    BY <1>13 DEF Supervise, TypeOK
  <2>2. CASE reader[u] = "read"
    <3>1. Produce(u, Fin(s)) /\ Fin(s) \in Frame
      BY <1>13, <2>2, ProducedFrames DEF Supervise
    <3> QED
      BY <1>4, <2>1, <2>2, <3>1
  <2>3. CASE reader[u] # "read"
    <3>1. sess' = sess /\ produced' = produced
      BY <1>13, <2>3 DEF Supervise, poolVars
    <3> QED
      BY <1>1, <1>2, <2>1, <3>1 DEF Single
  <2> QED
    BY <2>2, <2>3
<1> QED
  BY <1>5, <1>6, <1>7, <1>8, <1>9, <1>10, <1>11, <1>12, <1>13 DEF Steps

LEMMA StepsKeep ==
  ASSUME TypeOK, UpInv, NEW u \in Conn, Steps(u)
  PROVE  UpInv'
<1>1. ASSUME NEW s \in Sid
      PROVE  SessionInv(s)'
  <2>1. SessionInv(s) /\ conns' = conns /\ pool' = pool /\ accepted' = accepted
    BY StepsLocal DEF UpInv
  <2>2. CASE u[1] # s
    <3>1. sess'[s] = sess[s] /\ produced'[s] = produced[s]
      BY <2>2, StepsLocal
    <3>2. ASSUME conns[s] = 1
          PROVE  Single(s, <<s, 1>>)'
      <4> DEFINE v == <<s, 1>>
      <4>1. v \in Conn /\ v # u
        BY <2>2, <3>2, ConnFacts
      <4>2. /\ task'[v] = task[v] /\ reader'[v] = reader[v]
            /\ writer'[v] = writer[v] /\ written'[v] = written[v]
        BY <4>1, StepsLocal
      <4>3. Single(s, v)
        BY <2>1, <3>2 DEF SessionInv
      <4> HIDE DEF v
      <4>4. Single(s, v)'
        BY <2>1, <3>1, <4>2, <4>3 DEF Single
      <4> QED
        BY <4>4 DEF v
    <3> QED
      BY <2>1, <3>1, <3>2 DEF SessionInv, Fresh
  <2>3. CASE u[1] = s
    <3>1. u[2] <= conns[s] /\ u[2] >= 1 /\ u[2] \in Nat /\ conns[s] \in Nat /\ u = <<s, u[2]>>
      BY <2>3, StepsStarted, ConnFacts
    <3>2. ASSUME conns[s] = 1
          PROVE  Single(s, <<s, 1>>)'
      <4>1. u[2] = 1
        BY <3>1, <3>2
      <4> QED
        BY <2>3, <3>1, <3>2, <4>1, SingleStep
    <3> QED
      BY <2>1, <3>1, <3>2 DEF SessionInv
  <2> QED
    BY <2>2, <2>3
<1> QED
  BY <1>1, WorkerStep DEF UpInv

(* A batch that is read.                                                   *)
LEMMA PostSession ==
  ASSUME TypeOK, NEW h \in Handler, NEW b \in Batch, Post(h, b), NEW s \in Sid
  PROVE  LET acc == Accepted(s, b[s])
         IN  /\ acc \in Seq(Frame)
             /\ sess'[s].rx_q = sess[s].rx_q \o acc
             /\ sess'[s].rx_event <=> sess[s].rx_event \/ acc # <<>>
             /\ accepted'[s] = accepted[s] \o acc
             /\ acc # <<>> => s \in {t \in Sid : Accepts(t, b[t])}
<1> DEFINE g == b[s]
<1>1. g \in Segments(s)
  BY DEF Batch
<1>2. /\ Enqueued(s, g) \in Session
      /\ Enqueued(s, g).rx_q = sess[s].rx_q \o Accepted(s, g)
      /\ Enqueued(s, g).rx_event <=> sess[s].rx_event \/ Accepted(s, g) # <<>>
  BY <1>1, EnqueuedFacts
<1>3. /\ DrainTx(Enqueued(s, g), MaxDrain).rx_q = Enqueued(s, g).rx_q
      /\ DrainTx(Enqueued(s, g), MaxDrain).rx_event = Enqueued(s, g).rx_event
  BY <1>2, DrainedSession
<1>4. sess'[s] = Enqueued(s, g) \/ sess'[s] = DrainTx(Enqueued(s, g), MaxDrain)
  BY DEF Post
<1>5. accepted'[s] = accepted[s] \o Accepted(s, g)
  BY DEF Post
<1>6. Accepted(s, g) \in Seq(Frame) /\ (Accepted(s, g) # <<>> => Accepts(s, g))
  BY <1>1, SegmentFacts DEF Accepted
<1> QED
  BY <1>2, <1>3, <1>4, <1>5, <1>6

LEMMA PostKeeps ==
  ASSUME TypeOK, UpInv, NEW h \in Handler, NEW b \in Batch, Post(h, b)
  PROVE  UpInv'
<1> DEFINE S == {t \in {t \in Sid : Accepts(t, b[t])} : Accepted(t, b[t]) # <<>>}
<1>0. /\ reader' = reader /\ written' = written /\ produced' = produced
      /\ writer' = Woken(S)
      /\ pool' = pool \cup {t \in Sid : Accepts(t, b[t])}
      /\ \A s \in Sid : conns'[s] = IF s \in Dialled(b) THEN conns[s] + 1 ELSE conns[s]
      /\ \A u \in Conn : task'[u] = IF u[1] \in Dialled(b) /\ u[2] = conns[u[1]] + 1
                                    THEN "dial" ELSE task[u]
  BY DEF Post
<1>1. \A u \in Conn : /\ writer[u] # "wait" => writer'[u] = writer[u]
                      /\ writer[u] = "wait" /\ u[1] \in S => writer'[u] = "woken"
                      /\ writer[u] = "wait" /\ u[1] \notin S => writer'[u] = "wait"
  BY <1>0 DEF Woken
<1> HIDE DEF S
<1>2. ASSUME NEW u \in Conn
      PROVE  WorkerInv(u)'
  <2>1. WorkerInv(u) /\ u[1] \in Sid /\ u[2] \in Nat /\ conns[u[1]] \in Nat
    BY ConnFacts DEF UpInv
  <2>2. CASE u[1] \in Dialled(b) /\ u[2] = conns[u[1]] + 1
    <3>1. task[u] = "none"
      BY <2>1, <2>2 DEF WorkerInv
    <3>2. task'[u] = "dial" /\ conns'[u[1]] = u[2]
      BY <1>0, <2>1, <2>2
    <3> QED
      BY <1>0, <1>1, <2>1, <3>1, <3>2 DEF WorkerInv
  <2>3. CASE ~(u[1] \in Dialled(b) /\ u[2] = conns[u[1]] + 1)
    <3>1. task'[u] = task[u]
      BY <1>0, <2>3
    <3>2. u[2] > conns'[u[1]] => u[2] > conns[u[1]]
      BY <1>0, <2>1
    <3>3. /\ writer[u] = "none" => writer'[u] = "none"
          /\ writer[u] # "none" => writer'[u] # "none"
          /\ writer[u] = "done" => writer'[u] = "done"
      BY <1>1
    <3> QED
      BY <1>0, <2>1, <3>1, <3>2, <3>3 DEF WorkerInv
  <2> QED
    BY <2>2, <2>3
<1>3. ASSUME NEW s \in Sid
      PROVE  SessionInv(s)'
  <2> DEFINE acc == Accepted(s, b[s])
             u == <<s, 1>>
  <2>1. /\ acc \in Seq(Frame)
        /\ sess'[s].rx_q = sess[s].rx_q \o acc
        /\ sess'[s].rx_event <=> sess[s].rx_event \/ acc # <<>>
        /\ accepted'[s] = accepted[s] \o acc
        /\ acc # <<>> => s \in S
    <3>1. /\ acc \in Seq(Frame)
          /\ sess'[s].rx_q = sess[s].rx_q \o acc
          /\ sess'[s].rx_event <=> sess[s].rx_event \/ acc # <<>>
          /\ accepted'[s] = accepted[s] \o acc
          /\ acc # <<>> => s \in {t \in Sid : Accepts(t, b[t])}
      BY PostSession
    <3>2. acc # <<>> => s \in S
      BY <3>1 DEF S
    <3> QED
      BY <3>1, <3>2
  <2>2. SessionInv(s) /\ conns[s] \in Nat /\ (conns[s] + 1) \in Nat
    <3>1. conns[s] \in Nat
      BY ConnFacts
    <3>2. SessionInv(s)
      BY DEF UpInv
    <3> QED
      BY <3>1, <3>2
  <2>3. sess[s].rx_q \in Seq(Frame) /\ accepted[s] \in Seq(Frame)
    BY DEF TypeOK, Session
  <2>4. ASSUME ~Locked, conns'[s] = 0
        PROVE  Fresh(s)'
    <3>1. conns[s] = 0 /\ s \notin Dialled(b)
      BY <1>0, <2>2, <2>4
    <3>2. Fresh(s) /\ ~HasSyn(b[s])
      BY <2>2, <2>4, <3>1 DEF SessionInv, Dialled
    <3>3. ~Accepts(s, b[s]) /\ acc = <<>>
      BY <3>2 DEF Fresh, Accepts, Accepted
    <3>4. sess'[s].rx_q = <<>> /\ accepted'[s] = <<>>
      BY <2>1, <2>3, <3>2, <3>3, ConcatEmptySeq DEF Fresh
    <3> QED
      BY <1>0, <3>2, <3>3, <3>4 DEF Fresh
  <2>5. ASSUME conns'[s] = 1
        PROVE  Single(s, u)'
    <3>1. u \in Conn
      <4>1. TypeOK'
        BY PostType
      <4>2. conns'[s] \in 0..MaxConn /\ MaxConn \in Nat
        BY <4>1, ExitAssumption DEF TypeOK
      <4> QED
        BY <2>5, <4>2 DEF Conn
    <3>2. written[u] \in Seq(Frame)
      BY <3>1 DEF TypeOK
    <3>3. CASE s \in Dialled(b)
      <4>1. conns[s] = 0 /\ ~Locked
        BY <1>0, <2>2, <2>5, <3>3 DEF Dialled
      <4>2. Fresh(s) /\ WorkerInv(u) /\ task[u] = "none"
        BY <2>2, <3>1, <4>1 DEF SessionInv, UpInv, WorkerInv
      <4>3. writer[u] = "none" /\ written[u] = <<>> /\ writer'[u] = "none"
        BY <1>1, <3>1, <4>2 DEF WorkerInv
      <4>4. written'[u] \o sess'[s].rx_q = accepted'[s]
        BY <1>0, <2>1, <2>3, <4>2, <4>3, ConcatEmptySeq DEF Fresh
      <4>5. sess'[s].rx_q # <<>> => sess'[s].rx_event
        BY <2>1, <2>3, <4>2, ConcatEmptySeq DEF Fresh
      <4>6. produced'[s] = <<>>
        BY <1>0, <4>2 DEF Fresh
      <4> HIDE DEF acc, u
      <4> QED
        BY <4>3, <4>4, <4>5, <4>6 DEF Single
    <3>4. CASE s \notin Dialled(b)
      <4>1. conns[s] = 1
        BY <1>0, <2>5, <3>4
      <4>2. Single(s, u)
        BY <2>2, <4>1 DEF SessionInv
      <4>3. task'[u] = task[u]
        BY <1>0, <3>1, <3>4
      <4>4. written'[u] \o sess'[s].rx_q = accepted'[s]
        <5>1. acc \in Seq(Frame) /\ written[u] \o sess[s].rx_q = accepted[s]
          BY <2>1, <4>2 DEF Single
        <5> HIDE DEF acc, u
        <5>2. (written[u] \o sess[s].rx_q) \o acc = written[u] \o (sess[s].rx_q \o acc)
          BY <2>3, <3>2, <5>1, Associative
        <5> QED
          BY <1>0, <2>1, <5>1, <5>2
      <4>5. writer'[u] = "wait" => sess'[s].rx_q = <<>>
        <5>1. writer'[u] = "wait" => writer[u] = "wait" /\ acc = <<>>
          BY <1>1, <2>1, <3>1
        <5> QED
          BY <2>1, <2>3, <4>2, <5>1, ConcatEmptySeq DEF Single
      <4>6. writer'[u] \in {"none", "start"} /\ sess'[s].rx_q # <<>> => sess'[s].rx_event
        <5>1. writer'[u] \in {"none", "start"} => writer'[u] = writer[u]
          BY <1>1, <3>1
        <5>2. acc = <<>> => sess'[s].rx_q = sess[s].rx_q
          BY <2>1, <2>3, ConcatEmptySeq
        <5> QED
          BY <2>1, <4>2, <5>1, <5>2 DEF Single
      <4> HIDE DEF acc, u
      <4> QED
        BY <1>0, <4>2, <4>3, <4>4, <4>5, <4>6 DEF Single
    <3> QED
      BY <3>3, <3>4
  <2> QED
    BY <2>4, <2>5 DEF SessionInv
<1> QED
  BY <1>2, <1>3 DEF UpInv

(* Polls do not touch the receive side, but a purge wakes the writers.     *)
LEMMA PollKeeps ==
  ASSUME TypeOK, UpInv, NEW h \in Handler, PollReply(h) \/ PollAgain(h) \/ PollTimeout(h)
  PROVE  UpInv'
<1>1. /\ conns' = conns /\ task' = task /\ reader' = reader
      /\ written' = written /\ produced' = produced /\ accepted' = accepted
      /\ pool' \subseteq pool
  BY DEF PollReply, PollAgain, PollTimeout, Purge, poolVars, connVars, history
<1>2. \A s \in Sid : /\ sess'[s].rx_q = sess[s].rx_q
                     /\ sess[s].rx_event => sess'[s].rx_event
  <2>1. \A s \in Sid : sess[s] \in Session
    BY DEF TypeOK
  <2>2. CASE PollReply(h)
    BY <2>1, <2>2, DrainedSession DEF PollReply
  <2>3. CASE PollAgain(h)
    BY <2>1, <2>3 DEF PollAgain, Purge, Session
  <2>4. CASE PollTimeout(h)
    BY <2>4 DEF PollTimeout, poolVars
  <2> QED
    BY <2>2, <2>3, <2>4
<1>3. \A u \in Conn : \/ writer'[u] = writer[u]
                      \/ writer[u] = "wait" /\ writer'[u] = "woken"
  <2>1. CASE PollAgain(h)
    <3>1. PICK S : writer' = Woken(S)
      BY <2>1 DEF PollAgain, Purge
    <3> QED
      BY <3>1 DEF Woken
  <2>2. CASE PollReply(h) \/ PollTimeout(h)
    BY <2>2 DEF PollReply, PollTimeout, connVars
  <2> QED
    BY <2>1, <2>2
<1>4. ASSUME NEW u \in Conn
      PROVE  WorkerInv(u)'
  <2>1. WorkerInv(u)
    BY DEF UpInv
  <2> QED
    BY <1>1, <1>3, <2>1 DEF WorkerInv
<1>5. ASSUME NEW s \in Sid
      PROVE  SessionInv(s)'
  <2>1. SessionInv(s)
    BY DEF UpInv
  <2>2. ASSUME conns[s] = 1
        PROVE  Single(s, <<s, 1>>)'
    <3> DEFINE u == <<s, 1>>
    <3>1. Single(s, u) /\ u \in Conn
      BY <2>1, <2>2, ConnFacts DEF SessionInv
    <3> HIDE DEF u
    <3>2. Single(s, u)'
      BY <1>1, <1>2, <1>3, <3>1 DEF Single
    <3> QED
      BY <3>2 DEF u
  <2> QED
    BY <1>1, <1>2, <2>1, <2>2 DEF SessionInv, Fresh
<1> QED
  BY <1>4, <1>5 DEF UpInv

LEMMA UpKept == Spec => [](TypeOK /\ UpInv)
<1>1. Init => UpInv
  <2> SUFFICES ASSUME Init PROVE UpInv
    OBVIOUS
  <2>1. \A u \in Conn : WorkerInv(u)
    BY DEF Init, WorkerInv
  <2>2. \A s \in Sid : SessionInv(s)
    BY DEF Init, SessionInv, Fresh, NewSession
  <2> QED
    BY <2>1, <2>2 DEF UpInv
<1>2. TypeOK /\ UpInv /\ [Next]_vars => UpInv'
  <2> SUFFICES ASSUME TypeOK, UpInv, [Next]_vars PROVE UpInv'
    OBVIOUS
  <2>1. CASE (\E s \in Sid : GoIdle(s)) \/ UNCHANGED vars
    <3>1. /\ conns' = conns /\ task' = task /\ reader' = reader /\ writer' = writer
          /\ written' = written /\ produced' = produced /\ accepted' = accepted
          /\ pool' = pool /\ sess' = sess
      BY <2>1 DEF GoIdle, vars, poolVars, connVars, history
    <3> QED
      BY <3>1 DEF UpInv, WorkerInv, SessionInv, Single, Fresh
  <2>2. ASSUME NEW u \in Conn, Steps(u)
        PROVE  UpInv'
    BY <2>2, StepsKeep
  <2> QED
    BY <2>1, <2>2, NextSplits, PostKeeps, PollKeeps DEF Steps
<1> QED
  BY <1>1, <1>2, ExitTypeCorrect, PTL DEF Spec

(* A session with one upstream connection writes to it what its client has *)
(* sent, whatever batches, polls and failures come in between.             *)
THEOREM UpstreamInOrder == Spec => []WritesInOrder
<1>1. UpInv => WritesInOrder
  BY DEF UpInv, SessionInv, Single, WritesInOrder
<1> QED
  BY <1>1, UpKept, PTL

(* Its writer never sleeps on frames.                                      *)
THEOREM WakeupsKept == Spec => []NoLostWakeup
<1>1. UpInv => NoLostWakeup
  BY DEF UpInv, SessionInv, Single, NoLostWakeup
<1> QED
  BY <1>1, UpKept, PTL

(* However its tasks end, the client is told once and last.                *)
THEOREM EndedOnce == Spec => []EndsOnce
<1>1. UpInv => EndsOnce
  BY DEF UpInv, SessionInv, Single, EndsOnce
<1> QED
  BY <1>1, UpKept, PTL
=============================================================================
