---------------------------- MODULE TunnelProofs ----------------------------
(***************************************************************************)
(* Theorems about the composition of carrier and exit server, for any      *)
(* number of sessions, endpoints, workers and handlers.                    *)
(*                                                                         *)
(* The modules that prove the two parts correct are instantiated beside    *)
(* them: every step of the tunnel is shown to be a step of each part, and  *)
(* so what was proved of the parts is known of the tunnel.                 *)
(***************************************************************************)
EXTENDS Tunnel, SequenceTheorems, TLAPS

CP == INSTANCE CarrierProofs WITH Shutdown <- FALSE
XP == INSTANCE ExitProofs WITH
        MaxDrain <- 1, MaxConcurrentUpstream <- 256,
        pool <- x_pool, sess <- x_sess, idle <- x_idle, polls <- x_polls,
        conns <- x_conns, task <- x_task, reader <- x_reader, writer <- x_writer,
        rseq <- x_rseq, accepted <- x_accepted, written <- x_written,
        produced <- x_produced, taken <- x_taken

(* Both parts' assumptions hold.                                           *)
LEMMA Assumed ==
  /\ CP!SizesAssumption /\ CP!CarrierAssumption
  /\ XP!SizesAssumption /\ XP!ExitAssumption
BY TunnelAssumption
DEF CP!SizesAssumption, CP!CarrierAssumption, XP!SizesAssumption, XP!ExitAssumption,
    CP!Outcomes, C!Outcomes, XP!DialOutcomes, X!DialOutcomes, CP!IsFiniteSet, IsFiniteSet

----------------------------------------------------------------------------
(* C and CP, X and XP are instances of the same definitions.               *)
LEMMA SameSets ==
  /\ C!Worker = CP!Worker
  /\ C!NoFrames = CP!NoFrames
  /\ C!Frame = CP!Frame
BY DEF C!Worker, CP!Worker, C!NoFrames, CP!NoFrames, C!Frame, CP!Frame

LEMMA SameServerSets ==
  /\ X!Conn = XP!Conn
  /\ X!Batch = XP!Batch
  /\ X!Frame = XP!Frame
BY DEF X!Conn, XP!Conn, X!Batch, XP!Batch, X!Segments, XP!Segments, X!Parts,
       XP!Parts, X!ClientStream, XP!ClientStream, X!Syn, XP!Syn, X!Fin,
       XP!Fin, X!Data, XP!Data, X!Frame, XP!Frame

LEMMA SameInit ==
  /\ C!Init => CP!Init
BY DEF C!Init, CP!Init, C!NewSession, CP!NewSession, C!Worker, CP!Worker,
       C!NoFrames, CP!NoFrames

LEMMA SameApplication ==
  ASSUME NEW s
  PROVE  /\ C!Open(s) => CP!Open(s)
         /\ C!Close(s) => CP!Close(s)
         /\ C!ReadLoop(s) => CP!ReadLoop(s)
BY DEF C!Open, CP!Open, C!Opened, CP!Opened, C!Cardinality, CP!Cardinality,
       C!EnqueueTx, CP!EnqueueTx, C!NewSession, CP!NewSession, C!Syn, CP!Syn,
       C!Worker, CP!Worker, C!epVars, CP!epVars, C!Close, CP!Close, C!Fin,
       CP!Fin, C!taskVars, CP!taskVars, C!ReadLoop, CP!ReadLoop, C!history,
       CP!history

LEMMA SameWrite ==
  ASSUME NEW s, NEW len
  PROVE  /\ C!Write(s, len) => CP!Write(s, len)
BY DEF C!Write, CP!Write, C!Data, CP!Data, C!Opened, CP!Opened, C!EnqueueTx,
       CP!EnqueueTx, C!taskVars, CP!taskVars, C!epVars, CP!epVars

LEMMA SameDrain ==
  ASSUME NEW w
  PROVE  /\ C!Poll(w) => CP!Poll(w)
         /\ C!Notified(w) => CP!Notified(w)
BY DEF C!Poll, CP!Poll, C!DrainAndPost, CP!DrainAndPost, C!AfterDrain,
       CP!AfterDrain, C!DrainTx, CP!DrainTx, C!PayloadBytes, CP!PayloadBytes,
       C!Cardinality, CP!Cardinality, C!Snapshot, CP!Snapshot, C!SnapshotLen,
       CP!SnapshotLen, C!Undrained, CP!Undrained, C!Visits, CP!Visits,
       C!Index, CP!Index, C!Overflows, CP!Overflows, C!Taken, CP!Taken,
       C!Fitting, CP!Fitting, C!EncodedBytes, CP!EncodedBytes, C!EncodedLen,
       CP!EncodedLen, C!TotalSize, CP!TotalSize, C!SidAt, CP!SidAt,
       C!RollbackDrain, CP!RollbackDrain, C!Drained, CP!Drained, C!NoFrames,
       CP!NoFrames, C!Torn, CP!Torn, C!epVars, CP!epVars, C!Notified,
       CP!Notified, C!Underway, CP!Underway, C!Worker, CP!Worker

LEMMA SamePost ==
  ASSUME NEW w
  PROVE  /\ C!PollIdle(w) => CP!PollIdle(w)
         /\ C!WakeUp(w) => CP!WakeUp(w)
         /\ C!Deliver(w) => CP!Deliver(w)
         /\ C!DeliverLate(w) => CP!DeliverLate(w)
         /\ C!ReplyGarbled(w) => CP!ReplyGarbled(w)
         /\ C!ReplyBlank(w) => CP!ReplyBlank(w)
         /\ C!ReplyThrottled(w) => CP!ReplyThrottled(w)
         /\ C!ReplyError(w) => CP!ReplyError(w)
BY DEF C!PollIdle, CP!PollIdle, C!WakeUp, CP!WakeUp, C!DeliverLate, CP!DeliverLate,
       C!ReplyBlank, CP!ReplyBlank, C!ReplyThrottled, CP!ReplyThrottled,
       C!Goto, CP!Goto, C!poolVars, CP!poolVars,
       C!epVars, CP!epVars, C!history, CP!history, C!Deliver, CP!Deliver,
       C!NoFrames, CP!NoFrames, C!ReplyGarbled, CP!ReplyGarbled, C!Forget,
       CP!Forget, C!LossOf, CP!LossOf, C!ReplyError, CP!ReplyError,
       C!FailedSids, CP!FailedSids, C!OneMoreFailure, CP!OneMoreFailure

LEMMA SameReplyOk ==
  ASSUME NEW w, NEW R
  PROVE  /\ C!ReplyOk(w, R) => CP!ReplyOk(w, R)
BY DEF C!ReplyOk, CP!ReplyOk, C!NoFrames, CP!NoFrames, C!Cardinality,
       CP!Cardinality, C!Dispatched, CP!Dispatched, C!EnqueueRx, CP!EnqueueRx,
       C!Data, CP!Data, C!AdaptedBatchSize, CP!AdaptedBatchSize, C!Goto,
       CP!Goto, C!history, CP!history

LEMMA SameServerInit ==
  /\ X!Init => XP!Init
BY DEF X!Init, XP!Init, X!NewSession, XP!NewSession, X!NoRequest,
       XP!NoRequest, X!Conn, XP!Conn

LEMMA SameServerPost ==
  ASSUME NEW h, NEW b
  PROVE  /\ X!Post(h, b) => XP!Post(h, b)
BY DEF X!Post, XP!Post, X!Accepts, XP!Accepts, X!HasSyn, XP!HasSyn,
       X!NoRequest, XP!NoRequest, X!Dialled, XP!Dialled, X!Locked, XP!Locked,
       X!Accepted, XP!Accepted, X!AfterSyn, XP!AfterSyn, X!DrainTx,
       XP!DrainTx, X!PayloadBytes, XP!PayloadBytes, X!Cardinality,
       XP!Cardinality, X!Snapshot, XP!Snapshot, X!SnapshotLen, XP!SnapshotLen,
       X!Undrained, XP!Undrained, X!Enqueued, XP!Enqueued, X!Conn, XP!Conn,
       X!Woken, XP!Woken, X!Refused, XP!Refused

LEMMA SamePoll ==
  ASSUME NEW h
  PROVE  /\ X!PollReply(h) => XP!PollReply(h)
         /\ X!PollAgain(h) => XP!PollAgain(h)
         /\ X!PollTimeout(h) => XP!PollTimeout(h)
BY DEF X!PollReply, XP!PollReply, X!NoRequest, XP!NoRequest, X!DrainTx,
       XP!DrainTx, X!PayloadBytes, XP!PayloadBytes, X!Cardinality,
       XP!Cardinality, X!Snapshot, XP!Snapshot, X!SnapshotLen, XP!SnapshotLen,
       X!Undrained, XP!Undrained, X!connVars, XP!connVars, X!PollAgain,
       XP!PollAgain, X!Purge, XP!Purge, X!Woken, XP!Woken, X!Conn, XP!Conn,
       X!Expired, XP!Expired, X!history, XP!history, X!PollTimeout,
       XP!PollTimeout, X!poolVars, XP!poolVars

LEMMA SameWorker ==
  ASSUME NEW u
  PROVE  /\ X!Dial(u) => XP!Dial(u)
         /\ X!Read(u) => XP!Read(u)
         /\ X!Supervise(u) => XP!Supervise(u)
BY DEF X!Dial, XP!Dial, X!DialConnected, XP!DialConnected, X!poolVars,
       XP!poolVars, X!history, XP!history, X!DialRefused, XP!DialRefused,
       X!Produce, XP!Produce, X!EnqueueTx, XP!EnqueueTx, X!Rst, XP!Rst,
       X!DialRaised, XP!DialRaised, X!Read, XP!Read, X!ReadChunk,
       XP!ReadChunk, X!Data, XP!Data, X!ReadEnd, XP!ReadEnd, X!Fin, XP!Fin,
       X!Supervise, XP!Supervise

LEMMA SameWriter ==
  ASSUME NEW u
  PROVE  /\ X!Writer(u) => XP!Writer(u)
BY DEF X!Writer, XP!Writer, X!Write, XP!Write, X!Runnable, XP!Runnable, X!Pop,
       XP!Pop, X!Await, XP!Await, X!history, XP!history, X!WriteError,
       XP!WriteError, X!poolVars, XP!poolVars

----------------------------------------------------------------------------
(* The actions, one by one.                                                *)
LEMMA TunnelSplits ==
  ASSUME Next
  PROVE  \/ ClientStep /\ \E s \in Sid : \/ C!Open(s) \/ C!Close(s) \/ C!ReadLoop(s)
                                         \/ \E len \in Payloads : C!Write(s, len)
         \/ ClientStep /\ \E w \in C!Worker : \/ C!Poll(w) \/ C!Notified(w)
                                              \/ C!PollIdle(w) \/ C!WakeUp(w)
         \/ ServerStep
         \/ \E h \in Handler : Respond(h)
         \/ \E h \in Handler, w \in C!Worker : Arrive(w, h) \/ ArriveLate(w, h)
         \/ \E w \in C!Worker : Receive(w) \/ ReceiveEmpty(w) \/ Fail(w)
BY DEF Next, ClientStep, Application, ReadConn, Loop

LEMMA NoOpenEnd == UNCHANGED clientVars => UNCHANGED CP!vars
BY DEF clientVars, CP!vars, CP!poolVars, CP!taskVars, CP!epVars, CP!history

LEMMA NoServerEnd == UNCHANGED serverVars => UNCHANGED XP!vars
BY DEF serverVars, XP!vars, XP!poolVars, XP!connVars, XP!history

(* Every step of the tunnel is a step of the carrier, or leaves it alone.  *)
LEMMA ClientSteps ==
  ASSUME [Next]_vars
  PROVE  [CP!Next]_(CP!vars)
<1>1. CASE UNCHANGED vars
  BY <1>1, NoOpenEnd DEF vars
<1>2. CASE UNCHANGED clientVars
  BY <1>2, NoOpenEnd
<1>3. ASSUME NEW s \in Sid, \/ C!Open(s) \/ C!Close(s) \/ C!ReadLoop(s)
                            \/ \E len \in Payloads : C!Write(s, len)
      PROVE  CP!Next
  <2>1. CP!Conn(s)
    BY <1>3, SameApplication, SameWrite DEF CP!Conn
  <2> QED
    BY <2>1 DEF CP!Next
<1>4. ASSUME NEW w \in C!Worker, C!Poll(w) \/ C!Notified(w) \/ C!PollIdle(w) \/ C!WakeUp(w)
      PROVE  CP!Next
  <2>1. CP!Work(w)
    BY <1>4, SameDrain, SamePost DEF CP!Work
  <2> QED
    BY <2>1, SameSets DEF CP!Next
<1>5. ASSUME NEW w \in C!Worker, C!Deliver(w) \/ C!DeliverLate(w)
      PROVE  CP!Next
  BY <1>5, SamePost, SameSets DEF CP!Next
<1>6. ASSUME NEW w \in C!Worker,
             \/ \E R \in SUBSET Sid : C!ReplyOk(w, R)
             \/ C!ReplyGarbled(w) \/ C!ReplyBlank(w)
             \/ C!ReplyThrottled(w) \/ C!ReplyError(w)
      PROVE  CP!Next
  <2>1. CP!Reply(w)
    BY <1>6, SamePost, SameReplyOk DEF CP!Reply
  <2> QED
    BY <2>1, SameSets DEF CP!Next, CP!Work
<1>7. CASE Next
  <2>1. CASE ServerStep \/ \E h \in Handler : Respond(h)
    BY <1>2, <2>1 DEF ServerStep, Respond
  <2>2. ASSUME NEW w \in C!Worker, NEW h \in Handler, Arrive(w, h) \/ ArriveLate(w, h)
        PROVE  CP!Next
    BY <1>5, <2>2 DEF Arrive, ArriveLate
  <2>3. ASSUME NEW w \in C!Worker, Receive(w) \/ ReceiveEmpty(w) \/ Fail(w)
        PROVE  CP!Next
    BY <1>6, <2>3 DEF Receive, ReceiveEmpty, Fail, Carries
  <2> QED
    BY <1>3, <1>4, <1>7, <2>1, <2>2, <2>3, TunnelSplits
<1> QED
  BY <1>1, <1>7

(* The tunnel runs the carrier, and what is true of the carrier is true of *)
(* the tunnel.                                                             *)
LEMMA ClientPart == Spec => CP!Spec
<1>1. Init => CP!Init
  BY SameInit DEF Init
<1> QED
  BY <1>1, ClientSteps, PTL DEF Spec, CP!Spec

ClientInv == /\ CP!TypeOK /\ CP!OrderInv /\ CP!SeqBound /\ CP!Lines
             /\ CP!StreamShape /\ CP!WireOfStream

LEMMA ClientKept == Spec => []ClientInv
<1>1. CP!Spec => [](CP!TypeOK /\ CP!OrderInv /\ CP!SeqBound /\ CP!Lines)
  BY Assumed, CP!LinesKept, PTL
<1>2. CP!Spec => [](CP!StreamShape /\ CP!WireOfStream)
  BY Assumed, CP!ShapeKept, CP!WireKept, PTL
<1> QED
  BY <1>1, <1>2, ClientPart, PTL DEF ClientInv
----------------------------------------------------------------------------
(* Where the middle of three sequences lies in the whole.                  *)
LEMMA Infix ==
  ASSUME NEW S, NEW x \in Seq(S), NEW g \in Seq(S), NEW y \in Seq(S)
  PROVE  LET t == (x \o g) \o y
         IN  /\ t \in Seq(S)
             /\ Len(t) = (Len(x) + Len(g)) + Len(y)
             /\ \A i \in 1..Len(x) : t[i] = x[i]
             /\ \A i \in 1..Len(g) : t[Len(x) + i] = g[i]
             /\ \A i \in 1..Len(y) : t[(Len(x) + Len(g)) + i] = y[i]
<1> DEFINE xg == x \o g
           t == xg \o y
           k == Len(x)
           m == Len(g)
           n == Len(y)
<1>1. k \in Nat /\ m \in Nat /\ n \in Nat
  OBVIOUS
<1>2. /\ xg \in Seq(S) /\ Len(xg) = k + m
      /\ \A i \in 1..(k + m) : xg[i] = IF i <= k THEN x[i] ELSE g[i - k]
  BY ConcatProperties
<1> HIDE DEF xg
<1>3. /\ t \in Seq(S) /\ Len(t) = (k + m) + n
      /\ \A i \in 1..((k + m) + n) :
            t[i] = IF i <= k + m THEN xg[i] ELSE y[i - (k + m)]
  <2>1. /\ t \in Seq(S) /\ Len(t) = Len(xg) + n
        /\ \A i \in 1..(Len(xg) + n) :
              t[i] = IF i <= Len(xg) THEN xg[i] ELSE y[i - Len(xg)]
    <3>1. xg \in Seq(S) /\ y \in Seq(S)
      BY <1>2
    <3> QED
      BY <3>1, ConcatProperties
  <2> HIDE DEF t
  <2> QED
    BY <1>2, <2>1
<1> HIDE DEF t, k, m, n
<1>4. \A i \in 1..k : t[i] = x[i]
  <2> SUFFICES ASSUME NEW i \in 1..k PROVE t[i] = x[i]
    OBVIOUS
  <2>1. i \in 1..(k + m) /\ i \in 1..((k + m) + n) /\ i <= k /\ i <= k + m
    BY <1>1
  <2> QED
    BY <1>2, <1>3, <2>1
<1>5. \A i \in 1..m : t[k + i] = g[i]
  <2> SUFFICES ASSUME NEW i \in 1..m PROVE t[k + i] = g[i]
    OBVIOUS
  <2>1. /\ k + i \in 1..(k + m) /\ k + i \in 1..((k + m) + n)
        /\ k + i <= k + m /\ ~(k + i <= k) /\ (k + i) - k = i
    BY <1>1
  <2> QED
    BY <1>1, <1>2, <1>3, <2>1
<1>6. \A i \in 1..n : t[(k + m) + i] = y[i]
  <2> SUFFICES ASSUME NEW i \in 1..n PROVE t[(k + m) + i] = y[i]
    OBVIOUS
  <2>1. /\ (k + m) + i \in 1..((k + m) + n) /\ ~((k + m) + i <= k + m)
        /\ ((k + m) + i) - (k + m) = i
    BY <1>1
  <2> QED
    BY <1>3, <2>1
<1> QED
  BY <1>3, <1>4, <1>5, <1>6 DEF t, xg, k, m, n

(* The stream of a session is one that ExitServer's clients may send.      *)
LEMMA ShapeIsClientStream ==
  ASSUME ClientInv, NEW s \in Sid
  PROVE  LET n == sess[s].seq
             c == X!ClientStream(s, n)
         IN  /\ n \in 0..MaxWrites /\ Len(sent[s]) <= n + 2
             /\ c \in [1..(n + 2) -> CP!Frame] /\ c \in Seq(CP!Frame) /\ Len(c) = n + 2
             /\ \A i \in 1..Len(sent[s]) : sent[s][i] = c[i]
<1> DEFINE n == sess[s].seq
           c == X!ClientStream(s, n)
<1>1. sess[s].seq \in Nat /\ sess[s].seq <= MaxWrites /\ MaxWrites \in Nat /\ sent[s] \in Seq(CP!Frame)
  BY TunnelAssumption DEF ClientInv, CP!TypeOK, CP!Session, CP!SeqBound
<1>2. Len(sent[s]) <= n + 2
  BY <1>1 DEF ClientInv, CP!StreamShape, CP!StreamLen
<1>3. ASSUME NEW i \in 1..(n + 2)
      PROVE  /\ c[i] = IF i = 1 THEN X!Syn(s) ELSE IF i = n + 2 THEN X!Fin(s)
                       ELSE X!Data(s, i - 2, 1)
             /\ c[i] \in CP!Frame
  <2>1. c[i] = IF i = 1 THEN X!Syn(s) ELSE IF i = n + 2 THEN X!Fin(s) ELSE X!Data(s, i - 2, 1)
    BY DEF X!ClientStream
  <2>2. i = 1 \/ i - 2 \in Nat
    BY <1>1, <1>3
  <2>3. 1 \in 0..MaxPayload /\ 0 \in 0..MaxPayload
    BY TunnelAssumption
  <2> QED
    BY <1>1, <1>3, <2>1, <2>2, <2>3 DEF X!Syn, X!Fin, X!Data, CP!Frame
<1>4. DOMAIN c = 1..(n + 2) /\ c = [i \in 1..(n + 2) |-> c[i]]
  BY DEF X!ClientStream
<1>5. ASSUME NEW i \in 1..Len(sent[s])
      PROVE  sent[s][i] = c[i]
  <2>1. CP!Placed(s, i, sent[s][i], n)
    BY DEF ClientInv, CP!StreamShape
  <2>2. i \in 1..(n + 2)
    BY <1>1, <1>2
  <2>3. \A len \in Payloads : len = 1
    BY TunnelAssumption
  <2> HIDE DEF c, n
  <2> QED
    BY <1>3, <2>1, <2>2, <2>3
    DEF CP!Placed, X!Syn, X!Fin, X!Data, CP!Syn, CP!Fin, CP!Data
<1> HIDE DEF c
<1>6. c \in [1..(n + 2) -> CP!Frame]
  BY <1>3, <1>4
<1>7. c \in Seq(CP!Frame) /\ Len(c) = n + 2
  BY <1>1, <1>6
<1> QED
  BY <1>1, <1>2, <1>5, <1>6, <1>7 DEF c

(* What the carrier sends is what ExitServer lets its clients send.        *)
LEMMA PartIsSegment ==
  ASSUME ClientInv, NEW s \in Sid, NEW g \in Seq(CP!Frame), CP!Part(g, s)
  PROVE  g \in X!Segments(s)
<1> DEFINE n == sess[s].seq
           c == X!ClientStream(s, n)
           t == sent[s]
<1>1. PICK x, y \in Seq(CP!Frame) : (x \o g) \o y = t
  BY DEF CP!Part
<1>2. g \in Seq(CP!Frame)
  OBVIOUS
<1>3. /\ n \in 0..MaxWrites /\ Len(t) <= n + 2
      /\ c \in Seq(CP!Frame) /\ Len(c) = n + 2
      /\ \A i \in 1..Len(t) : t[i] = c[i]
  BY ShapeIsClientStream
<1>4. X!Parts(c) \subseteq X!Segments(s)
  BY <1>3 DEF X!Segments
<1> HIDE DEF c, n, t
<1>5. n \in Nat
  BY <1>3, TunnelAssumption
<1>6. CASE g = <<>>
  <2>1. SubSeq(c, 1, 0) = <<>>
    BY SubSeqEmpty
  <2>2. 1 \in 1..Len(c) /\ 0 \in 0..Len(c)
    BY <1>3, <1>5
  <2>3. g \in X!Parts(c)
    BY <1>6, <2>1, <2>2 DEF X!Parts
  <2> QED
    BY <1>4, <2>3
<1>7. CASE g # <<>>
  <2> DEFINE k == Len(x)
             m == Len(g)
             d == SubSeq(c, k + 1, k + m)
  <2>1. k \in Nat /\ m \in Nat \ {0}
    BY <1>2, <1>7, EmptySeq
  <2>2. /\ Len(t) = (k + m) + Len(y) /\ Len(y) \in Nat
        /\ \A i \in 1..m : t[k + i] = g[i]
    <3> HIDE DEF k, m
    <3>1. LET z == (x \o g) \o y
          IN  /\ Len(z) = (Len(x) + Len(g)) + Len(y)
              /\ \A i \in 1..Len(g) : z[Len(x) + i] = g[i]
      BY <1>2, Infix
    <3>2. Len(y) \in Nat
      OBVIOUS
    <3> QED
      BY <1>1, <3>1, <3>2 DEF k, m
  <2>0. m = Len(g) /\ Len(t) \in Nat
    BY <1>1, <1>2, <2>1, <2>2
  <2> HIDE DEF k, m
  <2>3. k + m <= n + 2 /\ k + 1 \in 1..Len(c) /\ k + m \in 0..Len(c)
    BY <1>3, <1>5, <2>1, <2>2
  <2>4. \A i \in (k + 1)..(k + m) : c[i] \in CP!Frame
    <3> SUFFICES ASSUME NEW i \in (k + 1)..(k + m) PROVE c[i] \in CP!Frame
      OBVIOUS
    <3>1. i \in 1..Len(c)
      BY <1>3, <1>5, <2>1, <2>3
    <3> QED
      BY <1>3, <3>1
  <2>5. /\ d \in Seq(CP!Frame) /\ Len(d) = m
        /\ \A i \in 1..m : d[i] = c[k + i]
    <3>1. k + 1 \in Int /\ k + m \in Int /\ k + 1 <= k + m
      BY <2>1
    <3>2. /\ d \in Seq(CP!Frame) /\ Len(d) = ((k + m) - (k + 1)) + 1
          /\ \A i \in 1..(((k + m) - (k + 1)) + 1) : d[i] = c[((k + 1) + i) - 1]
      BY <2>4, <3>1, SubSeqProperties
    <3> HIDE DEF d
    <3>3. ((k + m) - (k + 1)) + 1 = m /\ \A i \in Int : ((k + 1) + i) - 1 = k + i
      BY <2>1
    <3> QED
      BY <3>2, <3>3
  <2> HIDE DEF d
  <2>6. \A i \in 1..m : g[i] = d[i]
    <3> SUFFICES ASSUME NEW i \in 1..m PROVE g[i] = d[i]
      OBVIOUS
    <3>1. k + i \in 1..Len(t)
      BY <2>1, <2>2
    <3>2. t[k + i] = c[k + i]
      BY <1>3, <3>1
    <3> QED
      BY <2>2, <2>5, <3>2
  <2>7. g = d
    BY <1>2, <2>0, <2>5, <2>6, SeqEqual
  <2>8. g \in X!Parts(c)
    <3>1. \A a \in 1..Len(c), b \in 0..Len(c) : SubSeq(c, a, b) \in X!Parts(c)
      BY DEF X!Parts
    <3> QED
      BY <2>3, <2>7, <3>1 DEF d
  <2> QED
    BY <1>4, <2>8
<1> QED
  BY <1>6, <1>7

LEMMA SegmentsSent == ClientInv => SendsSegments
<1> SUFFICES ASSUME ClientInv, NEW w \in C!Worker
             PROVE  wire[w] \in X!Batch /\ orphan[w] \in X!Batch
  BY DEF SendsSegments
<1>1. /\ w \in CP!Worker
      /\ wire[w] \in [Sid -> Seq(CP!Frame)] /\ orphan[w] \in [Sid -> Seq(CP!Frame)]
  BY SameSets DEF ClientInv, CP!TypeOK, CP!Batch
<1>2. ASSUME NEW s \in Sid
      PROVE  wire[w][s] \in X!Segments(s) /\ orphan[w][s] \in X!Segments(s)
  <2>1. CP!Part(wire[w][s], s) /\ CP!Part(orphan[w][s], s)
    BY <1>1 DEF ClientInv, CP!WireOfStream
  <2>2. wire[w][s] \in Seq(CP!Frame) /\ orphan[w][s] \in Seq(CP!Frame)
    BY <1>1
  <2> QED
    BY <2>1, <2>2, PartIsSegment
<1> QED
  BY <1>1, <1>2 DEF X!Batch

(* Whatever the drains, rollbacks and failures leave in a batch, it is a   *)
(* segment of each session's stream, which is all that the theorems about  *)
(* the server assume of its clients (_drain_all, _handle_tunnel_post).     *)
THEOREM SegmentsOnly == Spec => []SendsSegments
BY SegmentsSent, ClientKept, PTL
----------------------------------------------------------------------------
(* Every step of the tunnel is a step of the exit server, or leaves it     *)
(* alone: its clients send nothing ExitServer does not expect.             *)
LEMMA ServerSteps ==
  ASSUME SendsSegments, [Next]_vars
  PROVE  [XP!Next]_(XP!vars)
<1>1. CASE UNCHANGED serverVars
  BY <1>1, NoServerEnd
<1>2. ASSUME NEW u \in X!Conn, X!Dial(u) \/ X!Read(u) \/ X!Writer(u) \/ X!Supervise(u)
      PROVE  XP!Next
  BY <1>2, SameServerSets, SameWorker, SameWriter DEF XP!Next
<1>3. ASSUME NEW h \in Handler, X!PollReply(h) \/ X!PollAgain(h) \/ X!PollTimeout(h)
      PROVE  XP!Next
  BY <1>3, SamePoll DEF XP!Next, XP!Poll
<1>4. ASSUME NEW w \in C!Worker, NEW h \in Handler,
             X!Post(h, wire[w]) \/ X!Post(h, orphan[w])
      PROVE  XP!Next
  <2>1. wire[w] \in XP!Batch /\ orphan[w] \in XP!Batch
    BY SameServerSets DEF SendsSegments
  <2> QED
    BY <1>4, <2>1, SameServerPost DEF XP!Next
<1>5. CASE Next
  <2>1. CASE ClientStep
    BY <1>1, <2>1 DEF ClientStep
  <2>2. CASE ServerStep
    BY <1>2, <1>3, <2>2 DEF ServerStep
  <2>3. ASSUME NEW w \in C!Worker, NEW h \in Handler, Arrive(w, h) \/ ArriveLate(w, h)
        PROVE  XP!Next
    BY <1>4, <2>3 DEF Arrive, ArriveLate
  <2>4. ASSUME NEW h \in Handler, Respond(h)
        PROVE  XP!Next
    BY <1>3, <2>4 DEF Respond
  <2>5. ASSUME NEW w \in C!Worker, Receive(w) \/ ReceiveEmpty(w) \/ Fail(w)
        PROVE  UNCHANGED serverVars
    BY <2>5 DEF Receive, ReceiveEmpty, Fail
  <2> QED
    BY <1>1, <1>5, <2>1, <2>2, <2>3, <2>4, <2>5, TunnelSplits
<1> QED
  BY <1>1, <1>5 DEF vars

LEMMA ServerPart == Spec => XP!Spec
<1>1. Init => XP!Init
  BY SameServerInit DEF Init
<1> QED
  BY <1>1, ServerSteps, SegmentsOnly, PTL DEF Spec, XP!Spec

ServerInv == XP!TypeOK /\ XP!UpInv /\ XP!DownLine

LEMMA ServerKept == Spec => []ServerInv
<1>1. XP!Spec => [](XP!TypeOK /\ XP!UpInv /\ XP!DownLine)
  BY Assumed, XP!UpKept, XP!DownKept, PTL
<1> QED
  BY <1>1, ServerPart, PTL DEF ServerInv
----------------------------------------------------------------------------
(* The way up.  What the arrival of a batch does to a session on the       *)
(* server: late or not, it is a batch that was on its way.                 *)
OnItsWay(g, s) == \E w \in CP!Worker : g = wire[w][s] \/ g = orphan[w][s]

Arrives == \E w \in C!Worker, h \in Handler : Arrive(w, h) \/ ArriveLate(w, h)

LEMMA ArriveEffect ==
  ASSUME Arrives, NEW s \in Sid
  PROVE  \E g : /\ OnItsWay(g, s)
                /\ recvd'[s] = recvd[s] \o g
                /\ s \in x_pool' <=> s \in x_pool \/ X!HasSyn(g)
                /\ x_accepted'[s] = x_accepted[s] \o
                      (IF s \in x_pool \/ X!HasSyn(g) THEN X!AfterSyn(g) ELSE <<>>)
<1>1. PICK w \in C!Worker, h \in Handler : Arrive(w, h) \/ ArriveLate(w, h)
  BY DEF Arrives
<1>2. PICK b \in {wire[w], orphan[w]} :
         X!Post(h, b) /\ recvd' = [t \in Sid |-> recvd[t] \o b[t]]
  BY <1>1 DEF Arrive, ArriveLate, C!Deliver, C!DeliverLate
<1>3. /\ x_pool' = x_pool \cup {t \in Sid : X!Accepts(t, b[t])}
      /\ x_accepted' = [t \in Sid |-> x_accepted[t] \o X!Accepted(t, b[t])]
  BY <1>2 DEF X!Post
<1>4. OnItsWay(b[s], s)
  BY SameSets DEF OnItsWay
<1> QED
  BY <1>2, <1>3, <1>4 DEF X!Accepts, X!Accepted

(* Nothing else does anything to it: no session is collected.              *)
LEMMA OtherEffect ==
  ASSUME XP!TypeOK, [Next]_vars, ~Arrives
  PROVE  recvd' = recvd /\ x_pool' = x_pool /\ x_accepted' = x_accepted
<1>1. CASE UNCHANGED vars
  BY <1>1 DEF vars, clientVars, serverVars
<1>2. CASE ClientStep
  <2>1. recvd' = recvd
    BY <1>2
    DEF ClientStep, Application, ReadConn, Loop, C!Open, C!Close, C!ReadLoop, C!Write,
        C!Poll, C!Notified, C!PollIdle, C!WakeUp, C!DrainAndPost, C!history
  <2> QED
    BY <1>2, <2>1 DEF ClientStep, serverVars
<1>3. ASSUME NEW h \in Handler, X!PollAgain(h)
      PROVE  x_pool' = x_pool /\ x_accepted' = x_accepted
  <2>1. ~(x_polls[h] >= GcInterval)
    BY <1>3, TunnelAssumption DEF X!PollAgain, XP!TypeOK, X!NoRequest, XP!NoRequest
  <2> QED
    BY <1>3, <2>1 DEF X!PollAgain, X!Purge, X!history
<1>4. ASSUME NEW u \in X!Conn, X!Dial(u) \/ X!Read(u) \/ X!Writer(u) \/ X!Supervise(u)
      PROVE  x_pool' = x_pool /\ x_accepted' = x_accepted
  BY <1>4
  DEF X!Dial, X!DialConnected, X!DialRefused, X!DialRaised, X!Read, X!ReadChunk, X!ReadEnd,
      X!Writer, X!Write, X!Await, X!WriteError, X!Supervise, X!Produce, X!poolVars, X!history
<1>5. CASE ServerStep
  BY <1>3, <1>4, <1>5 DEF ServerStep, clientVars
<1>6. ASSUME NEW h \in Handler, Respond(h)
      PROVE  recvd' = recvd /\ x_pool' = x_pool /\ x_accepted' = x_accepted
  BY <1>6 DEF Respond, clientVars, X!PollReply, X!PollTimeout, X!poolVars, X!history
<1>7. ASSUME NEW w \in C!Worker, Receive(w) \/ ReceiveEmpty(w) \/ Fail(w)
      PROVE  recvd' = recvd /\ x_pool' = x_pool /\ x_accepted' = x_accepted
  BY <1>7
  DEF Receive, ReceiveEmpty, Fail, serverVars, C!ReplyOk, C!ReplyGarbled, C!ReplyBlank,
      C!ReplyThrottled, C!ReplyError, C!history
<1> QED
  BY <1>1, <1>2, <1>5, <1>6, <1>7, TunnelSplits DEF Arrives

(* The server has accepted what it has read of a session if that began     *)
(* with the SYN, or else nothing.                                          *)
Known(s) ==
    /\ s \in x_pool <=> X!HasSyn(recvd[s])
    /\ x_accepted[s] = IF X!HasSyn(recvd[s]) THEN Tail(recvd[s]) ELSE <<>>

UploadInv == \A s \in Sid : s \notin raced /\ "torn" \notin faults => Known(s)

(* In an ordered line, what comes behind a first frame is not a SYN.       *)
LEMMA SynFirst ==
  ASSUME CP!TypeOK, NEW s \in Sid, NEW top, NEW r \in Seq(CP!Frame), r # <<>>,
         NEW g \in Seq(CP!Frame), NEW q \in Seq(CP!Frame), CP!Ranked((r \o g) \o q, top)
  PROVE  ~X!HasSyn(g)
<1> SUFFICES ASSUME X!HasSyn(g) PROVE FALSE
  OBVIOUS
<1> DEFINE t == (r \o g) \o q
<1>1. /\ Len(t) = (Len(r) + Len(g)) + Len(q)
      /\ \A i \in 1..Len(r) : t[i] = r[i]
      /\ \A i \in 1..Len(g) : t[Len(r) + i] = g[i]
  BY Infix
<1>2. /\ Len(r) \in Nat \ {0} /\ Len(g) \in Nat \ {0} /\ Len(q) \in Nat
      /\ g # <<>> /\ g[1].flags = "SYN" /\ g[1] \in CP!Frame /\ r[1] \in CP!Frame
  BY EmptySeq DEF X!HasSyn
<1> HIDE DEF t
<1>3. 1 \in 1..Len(r) /\ 1 \in 1..Len(g) /\ 1 \in 1..Len(t) /\ Len(r) + 1 \in 1..Len(t)
      /\ 1 < Len(r) + 1
  BY <1>1, <1>2
<1>4. t[1] = r[1] /\ t[Len(r) + 1] = g[1]
  BY <1>1, <1>3
<1>5. CP!Rank(r[1]) < CP!Rank(g[1])
  BY <1>3, <1>4 DEF CP!Ranked, t
<1>6. CP!Rank(g[1]) = 0 /\ CP!Rank(r[1]) \in Nat
  BY <1>2, Assumed, CP!RankType DEF CP!Rank
<1> QED
  BY <1>5, <1>6

(* The frames of a batch are on the line.                                  *)
LEMMA OnLine ==
  ASSUME CP!TypeOK, NEW s \in Sid, CP!Alone(s), NEW g, OnItsWay(g, s)
  PROVE  /\ g \in Seq(CP!Frame)
         /\ g # <<>> => CP!Line(s) = (recvd[s] \o g) \o sess[s].tx_q
<1>1. PICK w \in CP!Worker : g = wire[w][s] \/ g = orphan[w][s]
  BY DEF OnItsWay
<1>2. g \in Seq(CP!Frame)
  BY <1>1 DEF CP!TypeOK, CP!Batch
<1>3. ASSUME g # <<>>
      PROVE  CP!CarriedBy(CP!Load, s) = g
  <2>1. CP!Load[w][s] = g
    BY <1>1, <1>3, Assumed, CP!LoadIs DEF CP!Alone
  <2> QED
    BY <1>3, <2>1, Assumed, CP!CarriedIs DEF CP!Alone
<1> QED
  BY <1>2, <1>3 DEF CP!Line

(* What follows the first frame.                                           *)
LEMMA TailOfConcat ==
  ASSUME NEW S, NEW r \in Seq(S), r # <<>>, NEW g \in Seq(S)
  PROVE  Tail(r \o g) = Tail(r) \o g
<1> DEFINE t == r \o g
           a == Tail(r)
           m == Len(r)
           n == Len(g)
<1>1. m \in Nat \ {0} /\ n \in Nat
  BY EmptySeq
<1>2. /\ t \in Seq(S) /\ Len(t) = m + n
      /\ \A i \in 1..(m + n) : t[i] = IF i <= m THEN r[i] ELSE g[i - m]
  BY ConcatProperties
<1>3. a \in Seq(S) /\ Len(a) = m - 1 /\ \A i \in 1..(m - 1) : a[i] = r[i + 1]
  BY HeadTailProperties
<1> HIDE DEF t, a, m, n
<1>4. /\ a \o g \in Seq(S) /\ Len(a \o g) = (m - 1) + n
      /\ \A i \in 1..((m - 1) + n) :
            (a \o g)[i] = IF i <= m - 1 THEN a[i] ELSE g[i - (m - 1)]
  <2>1. /\ a \o g \in Seq(S) /\ Len(a \o g) = Len(a) + n
        /\ \A i \in 1..(Len(a) + n) :
              (a \o g)[i] = IF i <= Len(a) THEN a[i] ELSE g[i - Len(a)]
    BY <1>3, ConcatProperties DEF n
  <2> QED
    BY <1>3, <2>1
<1>5. t # <<>>
  BY <1>1, <1>2, EmptySeq
<1>6. Tail(t) \in Seq(S) /\ Len(Tail(t)) = (m + n) - 1
      /\ \A i \in 1..((m + n) - 1) : Tail(t)[i] = t[i + 1]
  <2>1. Tail(t) \in Seq(S) /\ Len(Tail(t)) = Len(t) - 1
        /\ \A i \in 1..Len(Tail(t)) : Tail(t)[i] = t[i + 1]
    BY <1>2, <1>5, HeadTailProperties
  <2> QED
    BY <1>2, <2>1
<1>7. ASSUME NEW i \in 1..((m + n) - 1)
      PROVE  Tail(t)[i] = (a \o g)[i]
  <2>1. /\ i + 1 \in 1..(m + n) /\ i \in 1..((m - 1) + n)
        /\ (i + 1 <= m <=> i <= m - 1) /\ (i + 1) - m = i - (m - 1)
        /\ i <= m - 1 => i \in 1..(m - 1)
    BY <1>1
  <2> QED
    BY <1>2, <1>3, <1>4, <1>6, <2>1
<1>8. (m + n) - 1 = (m - 1) + n
  BY <1>1
<1> QED
  BY <1>4, <1>6, <1>7, <1>8, SeqEqual DEF t, a

LEMMA ServerKnows ==
  ASSUME CP!TypeOK, XP!TypeOK, NEW s \in Sid, CP!Alone(s), CP!Ranked(CP!Line(s), CP!Top(s)),
         Known(s), [Next]_vars
  PROVE  /\ s \in x_pool' <=> X!HasSyn(recvd'[s])
         /\ x_accepted'[s] = IF X!HasSyn(recvd'[s]) THEN Tail(recvd'[s]) ELSE <<>>
<1>1. CASE ~Arrives
  BY <1>1, OtherEffect DEF Known
<1>2. CASE Arrives
  <2> DEFINE r == recvd[s]
             q == sess[s].tx_q
  <2>1. PICK g : /\ OnItsWay(g, s)
                 /\ recvd'[s] = r \o g
                 /\ s \in x_pool' <=> s \in x_pool \/ X!HasSyn(g)
                 /\ x_accepted'[s] = x_accepted[s] \o
                       (IF s \in x_pool \/ X!HasSyn(g) THEN X!AfterSyn(g) ELSE <<>>)
    BY <1>2, ArriveEffect
  <2>2. r \in Seq(CP!Frame) /\ g \in Seq(CP!Frame) /\ q \in Seq(CP!Frame)
    BY <2>1, OnLine DEF CP!TypeOK, CP!Session
  <2>3. g # <<>> => CP!Ranked((r \o g) \o q, CP!Top(s))
    BY <2>1, OnLine
  <2>4. /\ s \in x_pool <=> X!HasSyn(r)
        /\ x_accepted[s] = IF X!HasSyn(r) THEN Tail(r) ELSE <<>>
    BY DEF Known
  <2> HIDE DEF r, q
  <2>5. CASE r = <<>>
    <3>1. r \o g = g /\ ~X!HasSyn(r)
      BY <2>2, <2>5, ConcatEmptySeq DEF X!HasSyn
    <3>2. Tail(g) \in Seq(CP!Frame) \/ g = <<>>
      BY <2>2
    <3>3. X!HasSyn(g) => <<>> \o Tail(g) = Tail(g) /\ X!AfterSyn(g) = Tail(g)
      BY <2>2, <3>2, ConcatEmptySeq DEF X!HasSyn, X!AfterSyn
    <3>4. <<>> \o <<>> = <<>>
      OBVIOUS
    <3> QED
      BY <2>1, <2>4, <3>1, <3>3, <3>4
  <2>6. CASE r # <<>>
    <3>1. ~X!HasSyn(g)
      BY <2>2, <2>3, <2>6, SynFirst DEF X!HasSyn
    <3>2. X!HasSyn(r \o g) <=> X!HasSyn(r)
      <4>1. (r \o g)[1] = r[1] /\ r \o g # <<>>
        <5>1. Len(r) \in Nat \ {0} /\ Len(g) \in Nat
          BY <2>2, <2>6, EmptySeq
        <5>2. 1 \in 1..(Len(r) + Len(g)) /\ 1 <= Len(r)
          BY <5>1
        <5> QED
          BY <2>2, <5>1, <5>2, ConcatProperties, EmptySeq
      <4> QED
        BY <2>6, <4>1 DEF X!HasSyn
    <3>3. Tail(r \o g) = Tail(r) \o g
      BY <2>2, <2>6, TailOfConcat
    <3>4. X!AfterSyn(g) = g
      BY <3>1 DEF X!AfterSyn
    <3>5. <<>> \o <<>> = <<>>
      OBVIOUS
    <3> QED
      BY <2>1, <2>4, <3>1, <3>2, <3>3, <3>4, <3>5
  <2> QED
    BY <2>5, <2>6
<1> QED
  BY <1>1, <1>2

LEMMA UploadStep ==
  ASSUME ClientInv, XP!TypeOK, UploadInv, [Next]_vars
  PROVE  UploadInv'
<1> SUFFICES ASSUME NEW s \in Sid, s \notin raced', "torn" \notin faults'
             PROVE  Known(s)'
  BY DEF UploadInv
<1>1. faults \subseteq faults' /\ raced \subseteq raced'
  BY ClientSteps, Assumed, CP!HistoryGrows
<1>2. s \notin raced /\ "torn" \notin faults
  BY <1>1
<1>3. CP!TypeOK /\ CP!Alone(s) /\ CP!Ranked(CP!Line(s), CP!Top(s))
  BY <1>2 DEF ClientInv, CP!Lines
<1>4. Known(s)
  BY <1>2 DEF UploadInv
<1>5. /\ s \in x_pool' <=> X!HasSyn(recvd'[s])
      /\ x_accepted'[s] = IF X!HasSyn(recvd'[s]) THEN Tail(recvd'[s]) ELSE <<>>
  BY <1>3, <1>4, ServerKnows
<1> QED
  BY <1>5 DEF Known, X!HasSyn

LEMMA InitUploads == Init => UploadInv
<1> SUFFICES ASSUME Init, NEW s \in Sid
             PROVE  Known(s)
  BY DEF UploadInv
<1>1. recvd[s] = <<>> /\ x_pool = {} /\ x_accepted[s] = <<>>
  BY DEF Init, C!Init, X!Init
<1> QED
  BY <1>1 DEF Known, X!HasSyn

LEMMA UploadKept == Spec => []UploadInv
<1>1. ClientInv /\ ServerInv /\ UploadInv /\ [Next]_vars => UploadInv'
  BY UploadStep DEF ServerInv
<1> QED
  BY <1>1, InitUploads, ClientKept, ServerKept, PTL DEF Spec

(* What an upstream connection is written is what the server has read      *)
(* behind the SYN, up to some point of it.                                 *)
LEMMA WrittenOfRead ==
  ASSUME ServerInv, NEW s \in Sid, Known(s), x_conns[s] <= 1
  PROVE  LET q == x_written[<<s, 1>>]
         IN  /\ q \in Seq(CP!Frame)
             /\ q = <<>> \/ /\ X!HasSyn(recvd[s])
                            /\ \E r \in Seq(CP!Frame) : q \o r = Tail(recvd[s])
<1> DEFINE u == <<s, 1>>
           q == x_written[u]
<1>1. u \in XP!Conn /\ u[1] = s /\ u[2] = 1
  BY TunnelAssumption DEF XP!Conn
<1>2. XP!Frame = CP!Frame
  BY DEF XP!Frame, CP!Frame
<1>3. q \in Seq(CP!Frame) /\ x_sess[s].rx_q \in Seq(CP!Frame) /\ x_conns[s] \in Nat
  BY <1>1, <1>2 DEF ServerInv, XP!TypeOK, XP!Session
<1>4. x_conns[s] = 0 \/ x_conns[s] = 1
  BY <1>3
<1>5. CASE x_conns[s] = 0
  <2>1. XP!WorkerInv(u)
    BY <1>1 DEF ServerInv, XP!UpInv
  <2>2. q = <<>>
    BY <1>1, <1>5, <2>1 DEF XP!WorkerInv
  <2> QED
    BY <1>3, <2>2
<1>6. CASE x_conns[s] = 1
  <2>1. XP!Single(s, u)
    BY <1>6 DEF ServerInv, XP!UpInv, XP!SessionInv
  <2>2. q \o x_sess[s].rx_q = x_accepted[s]
    BY <2>1 DEF XP!Single
  <2>3. CASE X!HasSyn(recvd[s])
    BY <1>3, <2>2, <2>3 DEF Known
  <2>4. CASE ~X!HasSyn(recvd[s])
    <3>1. q \o x_sess[s].rx_q = <<>>
      BY <2>2, <2>4 DEF Known
    <3> QED
      BY <1>3, <3>1, ConcatEqualIffEmpty
  <2> QED
    BY <2>3, <2>4
<1> QED
  BY <1>4, <1>5, <1>6

(* The beginning of a sequence, element by element.                        *)
LEMMA PrefixOf ==
  ASSUME NEW S, NEW a \in Seq(S), NEW b \in Seq(S), Len(a) <= Len(b),
         \A i \in 1..Len(a) : a[i] = b[i]
  PROVE  IsPrefix(a, b)
<1> DEFINE x == SubSeq(a, 1, Len(a))
           y == SubSeq(b, 1, Len(a))
           n == Len(a)
<1>1. n \in Nat /\ Len(b) \in Nat
  OBVIOUS
<1>2. /\ x \in Seq(S) /\ Len(x) = n /\ \A i \in 1..n : x[i] = a[i]
      /\ y \in Seq(S) /\ Len(y) = n /\ \A i \in 1..n : y[i] = b[i]
  <2> HIDE DEF n
  <2>1. 1 \in Int /\ n \in Int
    BY <1>1
  <2>2. \A i \in 1..n : a[i] \in S /\ b[i] \in S
    BY <1>1 DEF n
  <2>3. n - 1 + 1 = n /\ \A i \in 1..n : 1 + i - 1 = i
    BY <1>1
  <2>4. n = Len(a)
    BY DEF n
  <2>5. SubSeq(a, 1, n) \in Seq(S) /\ Len(SubSeq(a, 1, n)) = n
        /\ \A i \in 1..n : SubSeq(a, 1, n)[i] = a[i]
    BY <1>1, <2>1, <2>2, <2>3, SubSeqProperties
  <2>6. SubSeq(b, 1, n) \in Seq(S) /\ Len(SubSeq(b, 1, n)) = n
        /\ \A i \in 1..n : SubSeq(b, 1, n)[i] = b[i]
    BY <1>1, <2>1, <2>2, <2>3, SubSeqProperties
  <2> QED
    BY <2>4, <2>5, <2>6
<1> HIDE DEF x, y
<1>3. x = y
  BY <1>2, SeqEqual
<1> QED
  BY <1>3 DEF IsPrefix, x, y

LEMMA UploadsFollow == ClientInv /\ ServerInv /\ UploadInv => UploadsInOrder
<1> SUFFICES ASSUME ClientInv, ServerInv, UploadInv, NEW s \in Sid,
                    s \notin raced, "torn" \notin faults, x_conns[s] <= 1
             PROVE  LET q == x_written[<<s, 1>>]
                    IN  /\ "lost" \notin faults => IsPrefix(q, X!AfterSyn(sent[s]))
                        /\ C!Ascending(q)
  BY DEF UploadsInOrder
<1> DEFINE q == x_written[<<s, 1>>]
           r == recvd[s]
           c == CP!CarriedBy(CP!Load, s)
           t == sess[s].tx_q
<1>1. /\ Known(s) /\ CP!Ranked(CP!Line(s), CP!Top(s))
      /\ "lost" \notin faults => CP!Line(s) = sent[s]
  BY DEF UploadInv, ClientInv, CP!Lines
<1>2. q \in Seq(CP!Frame) /\ (q = <<>> \/ /\ X!HasSyn(r)
                                          /\ \E z \in Seq(CP!Frame) : q \o z = Tail(r))
  BY <1>1, WrittenOfRead
<1>3. /\ r \in Seq(CP!Frame) /\ c \in Seq(CP!Frame) /\ t \in Seq(CP!Frame)
      /\ sent[s] \in Seq(CP!Frame)
  <2>1. CP!TypeOK
    BY DEF ClientInv
  <2> QED
    BY <2>1, Assumed, CP!LineTyped DEF CP!TypeOK
<1>4. CP!Line(s) = (r \o c) \o t
  BY DEF CP!Line
<1>5. X!AfterSyn(sent[s]) \in Seq(CP!Frame)
  BY <1>3 DEF X!AfterSyn, X!HasSyn
<1> HIDE DEF q, r, c, t
<1>6. CASE q = <<>>
  <2>1. DOMAIN q = {} /\ Len(q) = 0 /\ 1..0 = {}
    BY <1>6
  <2>2. IsPrefix(q, X!AfterSyn(sent[s]))
    <3>1. Len(q) <= Len(X!AfterSyn(sent[s])) /\ 1..Len(q) = {}
      BY <1>5, <2>1
    <3> QED
      BY <1>2, <1>5, <3>1, PrefixOf
  <2> QED
    BY <2>1, <2>2 DEF q, C!Ascending
<1>7. ASSUME X!HasSyn(r), NEW z \in Seq(CP!Frame), q \o z = Tail(r)
      PROVE  /\ "lost" \notin faults => IsPrefix(q, X!AfterSyn(sent[s]))
             /\ C!Ascending(q)
  <2> DEFINE l == (r \o c) \o t
             n == Len(q)
  <2>1. /\ n \in Nat /\ DOMAIN q = 1..n /\ r # <<>> /\ Len(r) \in Nat \ {0}
    BY <1>2, <1>3, <1>7, EmptySeq DEF X!HasSyn
  <2>2. /\ Len(Tail(r)) = Len(r) - 1 /\ \A i \in 1..(Len(r) - 1) : Tail(r)[i] = r[i + 1]
    BY <1>3, <2>1, HeadTailProperties
  <2>3. n + Len(z) = Len(Tail(r)) /\ Len(z) \in Nat /\ \A i \in 1..n : q[i] = Tail(r)[i]
    <3>1. Len(z) \in Nat
      OBVIOUS
    <3>2. /\ Len(q \o z) = n + Len(z)
          /\ \A i \in 1..(n + Len(z)) : (q \o z)[i] = IF i <= n THEN q[i] ELSE z[i - n]
      BY <1>2, ConcatProperties
    <3>3. \A i \in 1..n : i \in 1..(n + Len(z)) /\ i <= n
      BY <2>1, <3>1
    <3> QED
      BY <1>7, <3>1, <3>2, <3>3
  <2>4. /\ l \in Seq(CP!Frame) /\ Len(l) = (Len(r) + Len(c)) + Len(t)
        /\ Len(c) \in Nat /\ Len(t) \in Nat
        /\ \A i \in 1..Len(r) : l[i] = r[i]
    BY <1>3, Infix
  <2> HIDE DEF l, n
  <2>5. n <= Len(r) - 1 /\ n + 1 <= Len(l)
    BY <2>1, <2>2, <2>3, <2>4
  <2>6. ASSUME NEW i \in 1..n
        PROVE  q[i] = l[i + 1] /\ i + 1 \in 1..Len(l)
    <3>1. i \in 1..(Len(r) - 1) /\ i + 1 \in 1..Len(r) /\ i + 1 \in 1..Len(l)
      BY <2>1, <2>4, <2>5
    <3> QED
      BY <2>2, <2>3, <2>4, <3>1
  <2>7. C!Ascending(q)
    <3> SUFFICES ASSUME NEW i \in 1..n, NEW j \in 1..n, i < j
                 PROVE  C!Rank(q[i]) < C!Rank(q[j])
      BY <2>1 DEF C!Ascending
    <3>1. CP!Rank(l[i + 1]) < CP!Rank(l[j + 1])
      <4>1. i + 1 < j + 1
        BY <2>1
      <4>2. CP!Ranked(l, CP!Top(s))
        BY <1>1, <1>4 DEF l
      <4> QED
        BY <2>6, <4>1, <4>2 DEF CP!Ranked
    <3> QED
      BY <2>6, <3>1 DEF C!Rank, CP!Rank
  <2>8. ASSUME "lost" \notin faults
        PROVE  IsPrefix(q, X!AfterSyn(sent[s]))
    <3>1. sent[s] = l
      BY <1>1, <1>4, <2>8 DEF l
    <3>2. 1 \in 1..Len(r) /\ l[1] = r[1] /\ l # <<>>
      BY <2>1, <2>4, EmptySeq
    <3>3. X!AfterSyn(sent[s]) = Tail(l)
      BY <1>7, <3>1, <3>2 DEF X!AfterSyn, X!HasSyn
    <3>4. Tail(l) \in Seq(CP!Frame) /\ Len(Tail(l)) = Len(l) - 1
          /\ \A i \in 1..(Len(l) - 1) : Tail(l)[i] = l[i + 1]
      BY <2>4, <3>2, HeadTailProperties
    <3>5. Len(q) <= Len(Tail(l)) /\ \A i \in 1..Len(q) : i \in 1..(Len(l) - 1)
      BY <2>1, <2>4, <2>5, <3>4 DEF n
    <3>6. \A i \in 1..Len(q) : q[i] = Tail(l)[i]
      BY <2>6, <3>4, <3>5 DEF n
    <3> QED
      BY <1>2, <3>3, <3>4, <3>5, <3>6, PrefixOf
  <2> QED
    BY <2>7, <2>8
<1> QED
  BY <1>2, <1>6, <1>7 DEF q

(* Bytes of the application reach the upstream connection in order and,    *)
(* while no request is lost, without a gap, whatever the polls, workers    *)
(* and handlers do in between and whatever POSTs fail or are given up:     *)
(* unless two requests with frames of the session were on their way at     *)
(* once, one of them perhaps a POST that was given up and still arrived,   *)
(* or a rollback was torn (VirtualConn to write_downstream).               *)
THEOREM UploadsKept == Spec => []UploadsInOrder
BY UploadsFollow, ClientKept, ServerKept, UploadKept, PTL
----------------------------------------------------------------------------
(* The way down.  A worker waits for one reply: either a handler of its    *)
(* POST is at work on it or it is on its way.                              *)
Waiting(w) == pc[w] = "post" /\ wire[w] = C!NoFrames

LinkInv ==
    /\ client \in [Handler -> C!Worker \cup {NoWorker}]
    /\ DOMAIN reply = C!Worker
    /\ \A w \in C!Worker :
          /\ reply[w].kind # "frames" => reply[w].frames = C!NoFrames
          /\ reply[w].kind # "none" => Waiting(w) /\ \A h \in Handler : client[h] # w
          /\ \A h \in Handler : client[h] = w => Waiting(w)
          /\ \A h, k \in Handler : client[h] = w /\ client[k] = w => h = k

LEMMA NoWorkerIsNone == NoWorker \notin C!Worker
BY DEF NoWorker, C!Worker

(* What a worker that waits does is to take the reply or to give up.       *)
LEMMA WaitingStays ==
  ASSUME CP!TypeOK, ClientStep, NEW w \in C!Worker, Waiting(w)
  PROVE  Waiting(w)'
<1> USE DEF Waiting
<1>1. pc \in [C!Worker -> {"loop", "wait", "woken", "sleep", "post", "crashed", "stopped"}]
      /\ DOMAIN wire = C!Worker
  BY SameSets DEF CP!TypeOK
<1>2. ASSUME NEW v \in C!Worker, C!Poll(v) \/ C!Notified(v) \/ C!PollIdle(v) \/ C!WakeUp(v)
      PROVE  Waiting(w)'
  BY <1>1, <1>2 DEF C!Poll, C!Notified, C!PollIdle, C!WakeUp, C!Goto, C!DrainAndPost
<1>3. ASSUME NEW s \in Sid, C!Open(s) \/ C!Close(s) \/ C!ReadLoop(s)
                            \/ \E len \in Payloads : C!Write(s, len)
      PROVE  Waiting(w)'
  BY <1>1, <1>3 DEF C!Open, C!Close, C!ReadLoop, C!Write, C!taskVars
<1> QED
  BY <1>2, <1>3 DEF ClientStep, Application, ReadConn, Loop

(* Handler h answers worker w, which waits for no one else.                *)
LEMMA AnswerLink ==
  ASSUME LinkInv, NEW h \in Handler, NEW w \in C!Worker \cup {NoWorker}, Answer(h, w),
         w # NoWorker => Waiting(w)' /\ \A k \in Handler : client[k] = w => k = h,
         \A v \in C!Worker : Waiting(v) => Waiting(v)'
  PROVE  LinkInv'
<1> USE DEF LinkInv
<1>1. /\ client' = [client EXCEPT ![h] = NoWorker]
      /\ \A k \in Handler : client'[k] = IF k = h THEN NoWorker ELSE client[k]
      /\ client' \in [Handler -> C!Worker \cup {NoWorker}]
  BY DEF Answer
<1>2. CASE w = NoWorker
  BY <1>1, <1>2, NoWorkerIsNone DEF Answer
<1>3. CASE w # NoWorker
  <2>1. /\ w \in C!Worker
        /\ reply' = [reply EXCEPT ![w] =
                   IF JustTaken = C!NoFrames THEN Empty
                   ELSE [kind |-> "frames", frames |-> JustTaken]]
    BY <1>3 DEF Answer
  <2>2. /\ DOMAIN reply' = C!Worker
        /\ reply'[w].kind # "frames" => reply'[w].frames = C!NoFrames
        /\ \A v \in C!Worker \ {w} : reply'[v] = reply[v]
    BY <2>1 DEF Empty
  <2> QED
    BY <1>1, <1>3, <2>1, <2>2, NoWorkerIsNone
<1> QED
  BY <1>2, <1>3

(* A worker gets its reply, or gives up on it.                             *)
LEMMA ReceiveLink ==
  ASSUME LinkInv, CP!TypeOK, NEW w \in C!Worker, Receive(w) \/ ReceiveEmpty(w) \/ Fail(w)
  PROVE  LinkInv'
<1> USE DEF LinkInv
<1>1. reply' = [reply EXCEPT ![w] = NoReply]
  BY DEF Receive, ReceiveEmpty, Fail
<1>2. /\ client' \in [Handler -> C!Worker \cup {NoWorker}]
      /\ \A h \in Handler : client'[h] # w /\ (client'[h] = client[h] \/ client'[h] = NoWorker)
  <2>1. CASE Receive(w) \/ ReceiveEmpty(w)
    <3>1. reply[w].kind # "none" /\ client' = client
      BY <2>1 DEF Receive, ReceiveEmpty
    <3> QED
      BY <3>1
  <2>2. CASE Fail(w)
    BY <2>2, NoWorkerIsNone DEF Fail
  <2> QED
    BY <2>1, <2>2
<1>3. \A v \in C!Worker \ {w} : Waiting(v) => Waiting(v)'
  <2>1. DOMAIN pc = C!Worker /\ DOMAIN wire = C!Worker
    BY SameSets DEF CP!TypeOK
  <2> QED
    BY <2>1
    DEF Waiting, Receive, ReceiveEmpty, Fail, C!ReplyOk, C!ReplyGarbled, C!ReplyBlank,
        C!ReplyThrottled, C!ReplyError, C!Forget, C!Goto
<1>4. /\ DOMAIN reply' = C!Worker
      /\ reply'[w].kind = "none" /\ reply'[w].frames = C!NoFrames
      /\ \A v \in C!Worker \ {w} : reply'[v] = reply[v]
  BY <1>1 DEF NoReply
<1> QED
  BY <1>2, <1>3, <1>4, NoWorkerIsNone

LEMMA ArriveLink ==
  ASSUME LinkInv, CP!TypeOK, CP!OrderInv, NEW w \in C!Worker, NEW h \in Handler, Arrive(w, h)
  PROVE  LinkInv'
<1>1. wire[w] # C!NoFrames /\ pc[w] = "post"
  BY SameSets DEF Arrive, C!Deliver, CP!OrderInv, CP!AtPost
<1>2. ~Waiting(w) /\ Waiting(w)' /\ \A v \in C!Worker : Waiting(v) => Waiting(v)'
  <2>1. pc' = pc /\ wire' = [wire EXCEPT ![w] = C!NoFrames] /\ DOMAIN wire = C!Worker
    BY SameSets DEF Arrive, C!Deliver, CP!TypeOK
  <2> QED
    BY <1>1, <2>1 DEF Waiting
<1>3. reply[w].kind = "none" /\ \A k \in Handler : client[k] # w
  BY <1>2 DEF LinkInv
<1>4. CASE Answer(h, w)
  BY <1>2, <1>3, <1>4, AnswerLink
<1>5. CASE client' = [client EXCEPT ![h] = w] /\ reply' = reply
  <2>1. /\ \A k \in Handler : client'[k] = IF k = h THEN w ELSE client[k]
        /\ client' \in [Handler -> C!Worker \cup {NoWorker}]
    BY <1>5 DEF LinkInv
  <2> QED
    BY <1>2, <1>3, <1>5, <2>1 DEF LinkInv
<1> QED
  BY <1>4, <1>5 DEF Arrive, Serve

(* A request that comes late finds a free handler and leaves it free of    *)
(* workers.                                                                *)
LEMMA LateLink ==
  ASSUME LinkInv, NEW w \in C!Worker, NEW h \in Handler, ArriveLate(w, h)
  PROVE  LinkInv'
<1>1. \A v \in C!Worker : Waiting(v) => Waiting(v)'
  BY DEF ArriveLate, C!DeliverLate, Waiting
<1>2. CASE Answer(h, NoWorker)
  BY <1>1, <1>2, AnswerLink
<1>3. CASE client' = [client EXCEPT ![h] = NoWorker] /\ reply' = reply
  <2>1. /\ \A k \in Handler : client'[k] = IF k = h THEN NoWorker ELSE client[k]
        /\ client' \in [Handler -> C!Worker \cup {NoWorker}]
    BY <1>3 DEF LinkInv
  <2> QED
    BY <1>1, <1>3, <2>1, NoWorkerIsNone DEF LinkInv
<1> QED
  BY <1>2, <1>3 DEF ArriveLate, Serve

LEMMA LinkStep ==
  ASSUME LinkInv, CP!TypeOK, CP!OrderInv, [Next]_vars
  PROVE  LinkInv'
<1>1. CASE UNCHANGED vars \/ ServerStep
  BY <1>1 DEF vars, ServerStep, clientVars, linkVars, LinkInv, Waiting
<1>2. CASE ClientStep
  <2>1. client' = client /\ reply' = reply
    BY <1>2 DEF ClientStep, linkVars
  <2>2. \A w \in C!Worker : Waiting(w) => Waiting(w)'
    BY <1>2, WaitingStays
  <2> QED
    BY <2>1, <2>2 DEF LinkInv
<1>3. ASSUME NEW h \in Handler, Respond(h)
      PROVE  LinkInv'
  <2>1. \A v \in C!Worker : Waiting(v) => Waiting(v)'
    BY <1>3 DEF Respond, clientVars, Waiting
  <2>2. PICK w \in C!Worker \cup {NoWorker} : w = client[h]
    BY DEF LinkInv
  <2>3. w # NoWorker => Waiting(w) /\ \A k \in Handler : client[k] = w => k = h
    BY <2>2 DEF LinkInv
  <2>4. w # NoWorker => Waiting(w)'
    BY <2>1, <2>3
  <2>5. Answer(h, w)
    BY <1>3, <2>2 DEF Respond
  <2> QED
    BY <2>1, <2>3, <2>4, <2>5, AnswerLink
<1>4. ASSUME NEW w \in C!Worker, NEW h \in Handler, Arrive(w, h) \/ ArriveLate(w, h)
      PROVE  LinkInv'
  BY <1>4, ArriveLink, LateLink
<1>5. ASSUME NEW w \in C!Worker, Receive(w) \/ ReceiveEmpty(w) \/ Fail(w)
      PROVE  LinkInv'
  BY <1>5, ReceiveLink
<1> QED
  BY <1>1, <1>2, <1>3, <1>4, <1>5, TunnelSplits

LEMMA LinkKept == Spec => []LinkInv
<1>1. Init => LinkInv
  BY NoWorkerIsNone DEF Init, LinkInv, NoReply
<1>2. LinkInv /\ ClientInv /\ [Next]_vars => LinkInv'
  BY LinkStep DEF ClientInv
<1> QED
  BY <1>1, <1>2, ClientKept, PTL DEF Spec
----------------------------------------------------------------------------
(* One sequence is contained in another, in order but with gaps.           *)
Embeds(g, t) ==
    \E f \in [1..Len(g) -> 1..Len(t)] :
        /\ \A i \in 1..Len(g) : g[i] = t[f[i]]
        /\ \A i, j \in 1..Len(g) : i < j => f[i] < f[j]

LEMMA EmbedsItself == ASSUME NEW S, NEW t \in Seq(S) PROVE Embeds(t, t)
<1> DEFINE f == [i \in 1..Len(t) |-> i]
<1>1. f \in [1..Len(t) -> 1..Len(t)]
  OBVIOUS
<1>2. \A i \in 1..Len(t) : f[i] = i
  OBVIOUS
<1> HIDE DEF f
<1> QED
  BY <1>1, <1>2 DEF Embeds

LEMMA EmbedsLonger ==
  ASSUME NEW S, NEW g \in Seq(S), NEW t \in Seq(S), NEW x \in Seq(S), Embeds(g, t)
  PROVE  Embeds(g, t \o x)
<1> DEFINE m == Len(t)
           n == Len(x)
           u == t \o x
<1>1. m \in Nat /\ n \in Nat /\ Len(g) \in Nat
  OBVIOUS
<1>2. Len(u) = m + n /\ \A i \in 1..(m + n) : u[i] = IF i <= m THEN t[i] ELSE x[i - m]
  BY ConcatProperties
<1>3. PICK f \in [1..Len(g) -> 1..m] :
         /\ \A i \in 1..Len(g) : g[i] = t[f[i]]
         /\ \A i, j \in 1..Len(g) : i < j => f[i] < f[j]
  BY DEF Embeds
<1> HIDE DEF m, n, u
<1>4. \A k \in 1..m : k \in 1..(m + n) /\ k <= m
  BY <1>1
<1>5. \A k \in 1..m : u[k] = t[k]
  BY <1>2, <1>4
<1>6. f \in [1..Len(g) -> 1..Len(u)] /\ \A i \in 1..Len(g) : f[i] \in 1..m
  BY <1>2, <1>4
<1>7. \A i \in 1..Len(g) : g[i] = u[f[i]]
  BY <1>3, <1>5, <1>6
<1>8. Embeds(g, u)
  BY <1>3, <1>6, <1>7 DEF Embeds
<1> QED
  BY <1>8 DEF u

LEMMA EmbedsShorter ==
  ASSUME NEW S, NEW g \in Seq(S), NEW x \in Seq(S), NEW t \in Seq(S), Embeds(g \o x, t)
  PROVE  Embeds(g, t)
<1> DEFINE m == Len(g)
           n == Len(x)
           u == g \o x
<1>1. m \in Nat /\ n \in Nat /\ Len(t) \in Nat
  OBVIOUS
<1>2. Len(u) = m + n /\ \A i \in 1..(m + n) : u[i] = IF i <= m THEN g[i] ELSE x[i - m]
  BY ConcatProperties
<1> HIDE DEF m, n, u
<1>3. PICK f \in [1..(m + n) -> 1..Len(t)] :
         /\ \A i \in 1..(m + n) : u[i] = t[f[i]]
         /\ \A i, j \in 1..(m + n) : i < j => f[i] < f[j]
  <2>1. Embeds(u, t)
    BY DEF u
  <2> QED
    BY <1>2, <2>1 DEF Embeds
<1>4. \A i \in 1..m : i \in 1..(m + n) /\ i <= m
  BY <1>1
<1> DEFINE e == [i \in 1..m |-> f[i]]
<1>5. e \in [1..m -> 1..Len(t)] /\ \A i \in 1..m : e[i] = f[i]
  BY <1>3, <1>4
<1> HIDE DEF e
<1>6. \A i \in 1..m : g[i] = t[e[i]]
  BY <1>2, <1>3, <1>4, <1>5
<1>7. \A i, j \in 1..m : i < j => e[i] < e[j]
  BY <1>3, <1>4, <1>5
<1> QED
  BY <1>5, <1>6, <1>7 DEF Embeds, m

LEMMA EmbedsBoth ==
  ASSUME NEW S, NEW g \in Seq(S), NEW t \in Seq(S), NEW x \in Seq(S), Embeds(g, t)
  PROVE  Embeds(g \o x, t \o x)
<1> DEFINE k == Len(g)
           m == Len(t)
           n == Len(x)
           v == g \o x
           u == t \o x
<1>1. k \in Nat /\ m \in Nat /\ n \in Nat
  OBVIOUS
<1>2. /\ Len(v) = k + n /\ \A i \in 1..(k + n) : v[i] = IF i <= k THEN g[i] ELSE x[i - k]
      /\ Len(u) = m + n /\ \A i \in 1..(m + n) : u[i] = IF i <= m THEN t[i] ELSE x[i - m]
  BY ConcatProperties
<1>3. PICK f \in [1..k -> 1..m] :
         /\ \A i \in 1..k : g[i] = t[f[i]]
         /\ \A i, j \in 1..k : i < j => f[i] < f[j]
  BY DEF Embeds
<1> HIDE DEF k, m, n, v, u
<1> DEFINE e == [i \in 1..(k + n) |-> IF i <= k THEN f[i] ELSE (i - k) + m]
<1>4. ASSUME NEW i \in 1..(k + n)
      PROVE  /\ i <= k => i \in 1..k /\ e[i] = f[i] /\ e[i] \in 1..m
             /\ ~(i <= k) => /\ e[i] = (i - k) + m /\ e[i] \in (m + 1)..(m + n)
                             /\ e[i] - m = i - k
             /\ e[i] \in 1..(m + n)
  BY <1>1, <1>3
<1>5. e \in [1..(k + n) -> 1..(m + n)]
  <2>1. \A i \in 1..(k + n) : e[i] \in 1..(m + n)
    BY <1>4
  <2> QED
    BY <2>1
<1> HIDE DEF e
<1>6. ASSUME NEW i \in 1..(k + n)
      PROVE  v[i] = u[e[i]]
  <2>1. CASE i <= k
    <3>1. i \in 1..k /\ e[i] = f[i] /\ e[i] <= m /\ e[i] \in 1..(m + n)
      BY <1>1, <1>4, <2>1
    <3>2. v[i] = g[i] /\ u[e[i]] = t[e[i]]
      BY <1>2, <2>1, <3>1
    <3> QED
      BY <1>3, <3>1, <3>2
  <2>2. CASE ~(i <= k)
    <3>1. ~(e[i] <= m) /\ e[i] \in 1..(m + n) /\ e[i] - m = i - k
      BY <1>1, <1>4, <2>2
    <3>2. v[i] = x[i - k]
      BY <1>2, <2>2
    <3>3. u[e[i]] = x[e[i] - m]
      BY <1>2, <3>1
    <3> QED
      BY <3>1, <3>2, <3>3
  <2> QED
    BY <2>1, <2>2
<1>7. ASSUME NEW i \in 1..(k + n), NEW j \in 1..(k + n), i < j
      PROVE  e[i] < e[j]
  <2>1. CASE j <= k
    <3>1. i \in 1..k /\ j \in 1..k /\ e[i] = f[i] /\ e[j] = f[j]
      BY <1>1, <1>4, <1>7, <2>1
    <3> QED
      BY <1>3, <1>7, <3>1
  <2>2. CASE ~(j <= k)
    BY <1>1, <1>4, <1>7, <2>2
  <2> QED
    BY <2>1, <2>2
<1>8. Embeds(v, u)
  BY <1>2, <1>5, <1>6, <1>7 DEF Embeds
<1> QED
  BY <1>8 DEF v, u

LEMMA SuffixOfConcat ==
  ASSUME NEW S, NEW g \in Seq(S), NEW x \in Seq(S)
  PROVE  SubSeq(g \o x, Len(g) + 1, Len(g \o x)) = x
<1> DEFINE m == Len(g)
           n == Len(x)
           t == g \o x
           d == SubSeq(t, m + 1, m + n)
<1>1. m \in Nat /\ n \in Nat
  OBVIOUS
<1>2. /\ t \in Seq(S) /\ Len(t) = m + n
      /\ \A i \in 1..(m + n) : t[i] = IF i <= m THEN g[i] ELSE x[i - m]
  BY ConcatProperties
<1> HIDE DEF m, n, t
<1>3. CASE n = 0
  <2>1. x = <<>>
    BY <1>3, EmptySeq DEF n
  <2>2. m + 1 \in Int /\ m + n \in Int /\ m + n < m + 1
    BY <1>1, <1>3
  <2>3. SubSeq(t, m + 1, m + n) = <<>>
    BY <2>2, SubSeqEmpty
  <2>4. SubSeq(t, m + 1, Len(t)) = x
    BY <1>2, <2>1, <2>3
  <2> QED
    BY <2>4 DEF t, m
<1>4. CASE n # 0
  <2>1. m + 1 \in Int /\ m + n \in Int /\ m + 1 <= m + n
        /\ ((m + n) - (m + 1)) + 1 = n /\ \A i \in Int : ((m + 1) + i) - 1 = m + i
    BY <1>1, <1>4
  <2>2. \A i \in (m + 1)..(m + n) : t[i] \in S
    <3> SUFFICES ASSUME NEW i \in (m + 1)..(m + n) PROVE t[i] \in S
      OBVIOUS
    <3>1. i \in 1..Len(t)
      BY <1>1, <1>2
    <3> QED
      BY <1>2, <3>1
  <2>3. /\ d \in Seq(S) /\ Len(d) = ((m + n) - (m + 1)) + 1
        /\ \A i \in 1..(((m + n) - (m + 1)) + 1) : d[i] = t[((m + 1) + i) - 1]
    <3>1. m + 1 \in Int /\ m + n \in Int /\ m + 1 <= m + n
      BY <2>1
    <3> QED
      BY <2>2, <3>1, SubSeqProperties
  <2> HIDE DEF d
  <2>4. d \in Seq(S) /\ Len(d) = n /\ \A i \in 1..n : d[i] = t[m + i]
    <3>1. \A i \in 1..n : i \in Int /\ ((m + 1) + i) - 1 = m + i
      BY <1>1
    <3> QED
      BY <2>1, <2>3, <3>1
  <2>5. ASSUME NEW i \in 1..n PROVE d[i] = x[i]
    <3>1. m + i \in 1..(m + n) /\ ~(m + i <= m) /\ (m + i) - m = i
      BY <1>1
    <3> QED
      BY <1>2, <2>4, <3>1
  <2>6. d = x
    BY <2>4, <2>5, SeqEqual DEF n
  <2>7. SubSeq(t, m + 1, Len(t)) = x
    BY <1>2, <2>6 DEF d
  <2> QED
    BY <2>7 DEF t, m
<1> QED
  BY <1>3, <1>4

(* A session on its way down: what was dispatched, and then what a reply   *)
(* carries, is what polls took for it, less what was dropped.              *)
Body == [w \in CP!Worker |-> reply[w].frames]
Coming(s) == CP!CarriedBy(Body, s)
Incoming(s) == got[s] \o Coming(s)

OneReply(s) ==
    \A v, w \in CP!Worker : reply[v].frames[s] # <<>> /\ reply[w].frames[s] # <<>> => v = w

Downloads(s) ==
    /\ OneReply(s)
    /\ Embeds(Incoming(s), x_taken[s])
    /\ s \notin dropped => Incoming(s) = x_taken[s]

Typed(s) == got[s] \in Seq(XP!Frame)
            /\ \A w \in CP!Worker : reply[w].frames[s] \in Seq(XP!Frame)

DownloadInv ==
    /\ DOMAIN got = Sid
    /\ \A s \in Sid : Typed(s) /\ (s \notin overlapped => Downloads(s))

ComingFacts(s) ==
    /\ \A w \in CP!Worker : reply[w].frames[s] # <<>> => Coming(s) = reply[w].frames[s]
    /\ (\A w \in CP!Worker : reply[w].frames[s] = <<>>) => Coming(s) = <<>>

LEMMA ComingIs == \A s \in Sid : OneReply(s) => ComingFacts(s)
<1> SUFFICES ASSUME NEW s \in Sid, OneReply(s) PROVE ComingFacts(s)
  OBVIOUS
<1>1. \A w \in CP!Worker : Body[w] = reply[w].frames
  BY DEF Body
<1>2. \A v, w \in CP!Worker : Body[v][s] # <<>> /\ Body[w][s] # <<>> => v = w
  BY <1>1 DEF OneReply
<1>3. /\ \A w \in CP!Worker : Body[w][s] # <<>> => Coming(s) = Body[w][s]
      /\ (\A w \in CP!Worker : Body[w][s] = <<>>) => Coming(s) = <<>>
  BY <1>2, Assumed, CP!CarriedIs DEF Coming
<1> QED
  BY <1>1, <1>3 DEF ComingFacts

LEMMA ComingIsNext == (\A s \in Sid : OneReply(s) => ComingFacts(s))'
BY ComingIs, PTL

LEMMA ComingTyped ==
  ASSUME NEW s \in Sid, Typed(s), OneReply(s)
  PROVE  Coming(s) \in Seq(XP!Frame) /\ Incoming(s) \in Seq(XP!Frame)
<1>1. Coming(s) \in Seq(XP!Frame)
  BY ComingIs, EmptySeq DEF Typed, ComingFacts
<1> QED
  BY <1>1, ConcatProperties DEF Typed, Incoming

(* What the polls of a step take.                                          *)
LEMMA TakenStep ==
  ASSUME ServerInv, [XP!Next]_(XP!vars), NEW s \in Sid
  PROVE  /\ x_taken[s] \in Seq(XP!Frame) /\ JustTaken[s] \in Seq(XP!Frame)
         /\ x_taken'[s] = x_taken[s] \o JustTaken[s]
<1>1. x_taken[s] \in Seq(XP!Frame) /\ x_sess[s] \in XP!Session
  BY DEF ServerInv, XP!TypeOK
<1>2. XP!Drains \/ \E t \in Sid, f \in XP!Frame : XP!Appends(t, f)
  BY Assumed, XP!DownStep DEF ServerInv
<1>3. <<>> \in Seq(XP!Frame) /\ x_taken[s] \o <<>> = x_taken[s]
  BY <1>1, ConcatEmptySeq
<1>4. PICK x \in Seq(XP!Frame) : x_taken'[s] = x_taken[s] \o x
  <2>1. CASE x_taken'[s] = x_taken[s]
    BY <1>3, <2>1
  <2>2. CASE x_taken'[s] = x_taken[s] \o XP!Snapshot(x_sess[s], 1)
    <3>1. XP!Snapshot(x_sess[s], 1) \in Seq(XP!Frame)
      BY <1>1, Assumed, XP!DrainedSession
    <3> QED
      BY <2>2, <3>1
  <2> QED
    BY <1>2, <2>1, <2>2 DEF XP!Drains, XP!Untaken, XP!Appends
<1>5. JustTaken[s] = SubSeq(x_taken'[s], Len(x_taken[s]) + 1, Len(x_taken'[s]))
  BY DEF JustTaken
<1>6. SubSeq(x_taken[s] \o x, Len(x_taken[s]) + 1, Len(x_taken[s] \o x)) = x
  BY <1>1, SuffixOfConcat
<1> QED
  BY <1>1, <1>4, <1>5, <1>6

(* Steps that take nothing for the session and move no reply.              *)
LEMMA RestDown ==
  ASSUME NEW s \in Sid, Typed(s), Downloads(s),
         got'[s] = got[s], \A w \in CP!Worker : reply'[w].frames[s] = reply[w].frames[s],
         x_taken'[s] = x_taken[s], dropped \subseteq dropped'
  PROVE  Downloads(s)'
<1>1. OneReply(s)'
  BY DEF Downloads, OneReply
<1>2. ComingFacts(s) /\ ComingFacts(s)'
  BY <1>1, ComingIs, ComingIsNext DEF Downloads
<1>3. Coming(s)' = Coming(s)
  BY <1>2 DEF ComingFacts
<1>4. Incoming(s)' = Incoming(s)
  BY <1>3 DEF Incoming
<1> QED
  BY <1>1, <1>4 DEF Downloads, Embeds

(* A handler answers, or finds nobody to answer: in either case it has     *)
(* taken x of the session.                                                 *)
LEMMA AnswerDown ==
  ASSUME LinkInv, NEW s \in Sid, Typed(s), Downloads(s), s \notin overlapped',
         NEW h \in Handler, NEW w \in C!Worker \cup {NoWorker}, Answer(h, w),
         w # NoWorker => reply[w].frames = C!NoFrames,
         x_taken[s] \in Seq(XP!Frame), JustTaken[s] \in Seq(XP!Frame),
         x_taken'[s] = x_taken[s] \o JustTaken[s]
  PROVE  Downloads(s)'
<1> USE SameSets
<1> DEFINE x == JustTaken[s]
           t == x_taken[s]
<1>1. /\ got'[s] = got[s] /\ got[s] \in Seq(XP!Frame)
      /\ Embeds(Incoming(s), t) /\ OneReply(s)
      /\ s \notin dropped => Incoming(s) = t
  BY DEF Answer, Typed, Downloads
<1>2. Incoming(s) \in Seq(XP!Frame) /\ ComingFacts(s)
  BY <1>1, ComingTyped, ComingIs
<1>3. s \in Carries(JustTaken) <=> x # <<>>
  BY DEF Carries
<1>4. w = NoWorker \/ \A v \in CP!Worker :
                         reply'[v].frames = IF v = w THEN JustTaken ELSE reply[v].frames
  BY DEF Answer, Empty, LinkInv
<1> HIDE DEF x, t
<1>5. x = <<>> => t \o x = t
  BY ConcatEmptySeq DEF t
<1>6. dropped \subseteq dropped'
  BY DEF Answer
<1>7. CASE x = <<>>
  <2>1. \A v \in CP!Worker : reply'[v].frames[s] = reply[v].frames[s]
    BY <1>4, <1>7, NoWorkerIsNone DEF Answer, x, CP!NoFrames
  <2> QED
    BY <1>1, <1>5, <1>6, <1>7, <2>1, RestDown DEF x, t
<1>8. CASE w = NoWorker /\ x # <<>>
  <2>1. reply' = reply /\ s \in dropped'
    BY <1>3, <1>8 DEF Answer
  <2>2. OneReply(s)'
    BY <1>1, <2>1 DEF OneReply
  <2>3. ComingFacts(s)'
    BY <2>2, ComingIsNext
  <2>4. Coming(s)' = Coming(s)
    BY <1>2, <2>1, <2>3 DEF ComingFacts
  <2>5. Incoming(s)' = Incoming(s)
    BY <1>1, <2>4 DEF Incoming
  <2>6. Embeds(Incoming(s), t \o x)
    BY <1>1, <1>2, EmbedsLonger DEF t, x
  <2>7. Embeds(Incoming(s)', x_taken'[s])
    BY <2>5, <2>6 DEF t, x
  <2> QED
    BY <2>1, <2>2, <2>7 DEF Downloads, Embeds
<1>9. CASE w # NoWorker /\ x # <<>>
  <2>1. /\ \A v \in CP!Worker : reply[v].frames[s] = <<>>
        /\ dropped' = dropped
    BY <1>3, <1>9 DEF Answer, OnTheWay
  <2>2. /\ w \in CP!Worker /\ reply'[w].frames[s] = x
        /\ \A v \in CP!Worker \ {w} : reply'[v].frames[s] = <<>>
    BY <1>4, <1>9, <2>1 DEF x
  <2>3. OneReply(s)'
    BY <2>2 DEF OneReply
  <2>4. ComingFacts(s)'
    BY <2>3, ComingIsNext
  <2>5. Coming(s) = <<>> /\ Coming(s)' = x
    BY <1>2, <1>9, <2>1, <2>2, <2>4 DEF ComingFacts
  <2>6. Incoming(s) = got[s] /\ Incoming(s)' = got[s] \o x
    BY <1>1, <2>5, ConcatEmptySeq DEF Incoming
  <2>7. Embeds(got[s] \o x, t \o x)
    BY <1>1, <2>6, EmbedsBoth DEF t, x
  <2>8. Embeds(Incoming(s)', x_taken'[s])
    BY <2>6, <2>7 DEF t, x
  <2>9. s \notin dropped' => Incoming(s)' = x_taken'[s]
    BY <1>1, <2>1, <2>6 DEF t, x
  <2> QED
    BY <2>3, <2>8, <2>9 DEF Downloads, Embeds
<1> QED
  BY <1>7, <1>8, <1>9

(* A worker dispatches its reply, or the reply is lost.                    *)
LEMMA ReceiveDown ==
  ASSUME LinkInv, DownloadInv, NEW s \in Sid, Downloads(s), NEW w \in C!Worker,
         x_taken[s] \in Seq(XP!Frame),
         Receive(w) \/ ReceiveEmpty(w) \/ Fail(w)
  PROVE  Downloads(s)'
<1> USE SameSets
<1> DEFINE g == reply[w].frames[s]
<1>1. /\ x_taken' = x_taken
      /\ \A v \in CP!Worker \ {w} : reply'[v] = reply[v]
      /\ reply'[w].frames[s] = <<>>
      /\ dropped \subseteq dropped'
  <2>1. reply' = [reply EXCEPT ![w] = NoReply] /\ x_taken' = x_taken
        /\ dropped \subseteq dropped'
    BY DEF Receive, ReceiveEmpty, Fail, serverVars, history
  <2>2. w \in DOMAIN reply /\ NoReply.frames[s] = <<>>
    BY DEF LinkInv, NoReply, C!NoFrames
  <2> QED
    BY <2>1, <2>2
<1>2. \/ got'[s] = got[s] \o g
      \/ got'[s] = got[s] /\ (g # <<>> => s \in dropped')
  <2>1. CASE Receive(w)
    <3>1. got'[s] = IF s \in pool THEN got[s] \o g ELSE got[s]
      BY <2>1 DEF Receive
    <3>2. dropped' = dropped \cup (Carries(reply[w].frames) \ pool)
      BY <2>1 DEF Receive
    <3> QED
      BY <3>1, <3>2 DEF Carries
  <2>2. CASE ReceiveEmpty(w)
    <3>1. got' = got /\ reply[w].kind # "frames"
      BY <2>2 DEF ReceiveEmpty, history
    <3>2. g = C!NoFrames[s]
      BY <3>1 DEF LinkInv
    <3>3. C!NoFrames[s] = <<>>
      BY DEF C!NoFrames
    <3> QED
      BY <3>1, <3>2, <3>3
  <2>3. CASE Fail(w)
    BY <2>3 DEF Fail, Carries
  <2> QED
    BY <2>1, <2>2, <2>3
<1>3. /\ Typed(s) /\ OneReply(s) /\ g \in Seq(XP!Frame) /\ got[s] \in Seq(XP!Frame)
      /\ Embeds(Incoming(s), x_taken[s])
      /\ s \notin dropped => Incoming(s) = x_taken[s]
  BY DEF DownloadInv, Typed, Downloads
<1>4. ComingFacts(s) /\ Coming(s) \in Seq(XP!Frame) /\ Incoming(s) \in Seq(XP!Frame)
  BY <1>3, ComingIs, ComingTyped
<1> HIDE DEF g
<1>5. OneReply(s)'
  BY <1>1, <1>3 DEF OneReply
<1>6. ComingFacts(s)'
  BY <1>5, ComingIsNext
<1>7. got[s] \o <<>> = got[s]
  BY <1>3, ConcatEmptySeq
<1>8. CASE g = <<>>
  <2>1. \A v \in CP!Worker : reply'[v].frames[s] = reply[v].frames[s]
    BY <1>1, <1>8 DEF g
  <2> QED
    BY <1>1, <1>2, <1>3, <1>7, <1>8, <2>1, RestDown
<1>9. CASE g # <<>>
  <2>1. Coming(s) = g /\ Coming(s)' = <<>>
    BY <1>1, <1>3, <1>4, <1>6, <1>9 DEF ComingFacts, OneReply, g
  <2>2. Incoming(s) = got[s] \o g
    BY <2>1 DEF Incoming
  <2>3. Incoming(s)' = got'[s] \o <<>>
    BY <2>1 DEF Incoming
  <2>4. CASE got'[s] = got[s] \o g
    <3>1. Incoming(s)' = Incoming(s)
      BY <1>4, <2>2, <2>3, <2>4, ConcatEmptySeq
    <3> QED
      BY <1>1, <1>3, <1>5, <3>1 DEF Downloads, Embeds
  <2>5. CASE got'[s] = got[s] /\ s \in dropped'
    <3>1. Incoming(s)' = got[s]
      BY <1>7, <2>3, <2>5
    <3>2. Embeds(got[s], x_taken[s])
      BY <1>3, <2>2, EmbedsShorter
    <3> QED
      BY <1>1, <1>5, <2>5, <3>1, <3>2 DEF Downloads, Embeds
  <2> QED
    BY <1>2, <1>9, <2>4, <2>5
<1> QED
  BY <1>8, <1>9

LEMMA DropsGrow == [Next]_vars => dropped \subseteq dropped' /\ overlapped \subseteq overlapped'
<1> SUFFICES ASSUME [Next]_vars
             PROVE  dropped \subseteq dropped' /\ overlapped \subseteq overlapped'
  OBVIOUS
<1>1. CASE UNCHANGED vars
  BY <1>1 DEF vars, history
<1>2. CASE Next
  BY <1>2
  DEF Next, ClientStep, ServerStep, Respond, Arrive, ArriveLate, Serve, Answer, Receive,
      ReceiveEmpty, Fail, history
<1> QED
  BY <1>1, <1>2

(* A step answers a handler, hands a reply over or loses it, or does       *)
(* neither, and then no poll takes anything.                               *)
LEMMA DownSplits ==
  ASSUME XP!TypeOK, LinkInv, CP!TypeOK, CP!OrderInv, [Next]_vars
  PROVE  \/ \E h \in Handler, w \in C!Worker \cup {NoWorker} :
               /\ Answer(h, w)
               /\ w # NoWorker => reply[w].kind = "none"
         \/ \E w \in C!Worker : Receive(w) \/ ReceiveEmpty(w) \/ Fail(w)
         \/ /\ got' = got /\ reply' = reply
            /\ \A s \in Sid : x_taken'[s] = x_taken[s]
<1> DEFINE Goal == \/ \E h \in Handler, w \in C!Worker \cup {NoWorker} :
                         /\ Answer(h, w)
                         /\ w # NoWorker => reply[w].kind = "none"
                   \/ \E w \in C!Worker : Receive(w) \/ ReceiveEmpty(w) \/ Fail(w)
                   \/ /\ got' = got /\ reply' = reply
                      /\ \A s \in Sid : x_taken'[s] = x_taken[s]
<1>1. CASE UNCHANGED vars \/ ClientStep
  <2>1. got' = got /\ reply' = reply /\ x_taken' = x_taken
    BY <1>1 DEF vars, ClientStep, serverVars, linkVars, history
  <2> QED
    BY <2>1
<1>2. CASE ServerStep
  <2>1. got' = got /\ reply' = reply
    BY <1>2 DEF ServerStep, linkVars, history
  <2>2. x_taken' = x_taken
    BY <1>2
    DEF ServerStep, X!PollAgain, X!Dial, X!DialConnected, X!DialRefused, X!DialRaised,
        X!Read, X!ReadChunk, X!ReadEnd, X!Writer, X!Write, X!Await, X!WriteError,
        X!Supervise, X!history
  <2> QED
    BY <2>1, <2>2
<1>3. ASSUME NEW h \in Handler, Respond(h)
      PROVE  Goal
  <2>1. PICK w \in C!Worker \cup {NoWorker} : w = client[h]
    BY DEF LinkInv
  <2>2. Answer(h, w)
    BY <1>3, <2>1 DEF Respond
  <2>3. w # NoWorker => reply[w].kind = "none"
    BY <2>1 DEF LinkInv
  <2> QED
    BY <2>2, <2>3
<1>4. ASSUME NEW h \in Handler, NEW b, X!Post(h, b),
             NEW w \in C!Worker \cup {NoWorker}, Serve(h, w),
             w # NoWorker => reply[w].kind = "none"
      PROVE  Goal
  <2>1. CASE Answer(h, w)
    BY <1>4, <2>1
  <2>2. CASE /\ x_polls'[h] # X!NoRequest
             /\ UNCHANGED <<reply, history>>
    <3> DEFINE tx == {s \in x_pool : x_sess[s].tx_q # <<>>}
    <3>1. /\ x_polls[h] = X!NoRequest
          /\ x_polls' = [x_polls EXCEPT ![h] =
                            IF tx = {} /\ X!Refused(b) = {} THEN 0 ELSE @]
          /\ x_taken' = [s \in Sid |-> IF s \in tx
                                       THEN x_taken[s] \o X!Snapshot(x_sess[s], 1)
                                       ELSE x_taken[s]]
      BY <1>4 DEF X!Post
    <3>2. h \in DOMAIN x_polls
      BY DEF XP!TypeOK
    <3> HIDE DEF tx
    <3>3. tx = {}
      BY <2>2, <3>1, <3>2
    <3>4. \A s \in Sid : x_taken'[s] = x_taken[s]
      BY <3>1, <3>3
    <3>5. got' = got /\ reply' = reply
      BY <2>2 DEF history
    <3> QED
      BY <3>4, <3>5
  <2> QED
    BY <1>4, <2>1, <2>2 DEF Serve
<1> HIDE DEF Goal
<1>5. ASSUME NEW w \in C!Worker, Receive(w) \/ ReceiveEmpty(w) \/ Fail(w)
      PROVE  Goal
  BY <1>5 DEF Goal
<1>6. ASSUME NEW w \in C!Worker, NEW h \in Handler, Arrive(w, h)
      PROVE  Goal
  <2>1. reply[w].kind = "none"
    BY <1>6 DEF Arrive, C!Deliver, LinkInv, Waiting
  <2> QED
    BY <1>4, <1>6, <2>1 DEF Arrive
<1>7. ASSUME NEW w \in C!Worker, NEW h \in Handler, ArriveLate(w, h)
      PROVE  Goal
  BY <1>4, <1>7 DEF ArriveLate
<1> QED
  BY <1>1, <1>2, <1>3, <1>5, <1>6, <1>7, TunnelSplits DEF Goal

LEMMA DownloadTyped ==
  ASSUME ServerInv, [XP!Next]_(XP!vars), LinkInv, CP!TypeOK, CP!OrderInv, DownloadInv,
         [Next]_vars
  PROVE  DOMAIN got' = Sid /\ \A s \in Sid : Typed(s)'
<1> USE SameSets
<1>1. CASE got' = got /\ reply' = reply
  BY <1>1 DEF DownloadInv, Typed
<1>2. ASSUME NEW h \in Handler, NEW w \in C!Worker \cup {NoWorker}, Answer(h, w)
      PROVE  DOMAIN got' = Sid /\ \A s \in Sid : Typed(s)'
  <2>1. got' = got
    BY <1>2 DEF Answer
  <2>2. \A v \in CP!Worker : \/ reply'[v] = reply[v]
                             \/ reply'[v].frames = JustTaken
    BY <1>2 DEF Answer, Empty, LinkInv
  <2>3. \A s \in Sid : JustTaken[s] \in Seq(XP!Frame)
    BY TakenStep
  <2> QED
    BY <2>1, <2>2, <2>3 DEF DownloadInv, Typed
<1>3. ASSUME NEW w \in C!Worker, Receive(w) \/ ReceiveEmpty(w) \/ Fail(w)
      PROVE  DOMAIN got' = Sid /\ \A s \in Sid : Typed(s)'
  <2>1. /\ DOMAIN got' = Sid
        /\ \A s \in Sid : got'[s] = got[s] \/ got'[s] = got[s] \o reply[w].frames[s]
    BY <1>3 DEF Receive, ReceiveEmpty, Fail, history, DownloadInv
  <2>2. reply' = [reply EXCEPT ![w] = NoReply] /\ DOMAIN reply = C!Worker
    BY <1>3 DEF Receive, ReceiveEmpty, Fail, LinkInv
  <2>3. \A v \in CP!Worker : reply'[v] = reply[v] \/ reply'[v] = NoReply
    BY <2>2
  <2>4. \A s \in Sid : NoReply.frames[s] \in Seq(XP!Frame)
    BY EmptySeq DEF NoReply, C!NoFrames
  <2>5. ASSUME NEW s \in Sid
        PROVE  got'[s] \in Seq(XP!Frame)
    BY <2>1, ConcatProperties DEF DownloadInv, Typed
  <2> QED
    BY <2>1, <2>3, <2>4, <2>5 DEF DownloadInv, Typed
<1> QED
  BY <1>1, <1>2, <1>3, DownSplits DEF ServerInv

LEMMA DownloadStep ==
  ASSUME ServerInv, [XP!Next]_(XP!vars), LinkInv, CP!TypeOK, CP!OrderInv, DownloadInv,
         [Next]_vars
  PROVE  DownloadInv'
<1> USE SameSets
<1> SUFFICES ASSUME NEW s \in Sid, s \notin overlapped'
             PROVE  Downloads(s)'
  BY DownloadTyped DEF DownloadInv
<1>1. dropped \subseteq dropped' /\ overlapped \subseteq overlapped'
  BY DropsGrow
<1>2. Typed(s) /\ Downloads(s)
  BY <1>1 DEF DownloadInv
<1>3. /\ x_taken[s] \in Seq(XP!Frame) /\ JustTaken[s] \in Seq(XP!Frame)
      /\ x_taken'[s] = x_taken[s] \o JustTaken[s]
  BY TakenStep
<1>4. CASE got' = got /\ reply' = reply /\ x_taken'[s] = x_taken[s]
  BY <1>1, <1>2, <1>4, RestDown
<1>5. ASSUME NEW h \in Handler, NEW w \in C!Worker \cup {NoWorker}, Answer(h, w),
             w # NoWorker => reply[w].kind = "none"
      PROVE  Downloads(s)'
  <2>1. w # NoWorker => reply[w].frames = C!NoFrames
    BY <1>5 DEF LinkInv
  <2> QED
    BY <1>2, <1>3, <1>5, <2>1, AnswerDown
<1>6. ASSUME NEW w \in C!Worker, Receive(w) \/ ReceiveEmpty(w) \/ Fail(w)
      PROVE  Downloads(s)'
  BY <1>2, <1>3, <1>6, ReceiveDown
<1> QED
  BY <1>4, <1>5, <1>6, DownSplits DEF ServerInv

LEMMA InitDownloads == Init => DownloadInv
<1> SUFFICES ASSUME Init, NEW s \in Sid PROVE Typed(s) /\ Downloads(s)
  BY DEF DownloadInv, Init
<1>1. /\ got[s] = <<>> /\ x_taken[s] = <<>>
      /\ \A w \in CP!Worker : reply[w].frames[s] = <<>>
  BY SameSets DEF Init, X!Init, NoReply, C!NoFrames
<1>2. Typed(s) /\ OneReply(s)
  BY <1>1, EmptySeq DEF Typed, OneReply
<1>3. Incoming(s) = <<>>
  <2>1. Coming(s) = <<>>
    BY <1>1, <1>2, ComingIs DEF ComingFacts
  <2>2. <<>> \o <<>> = <<>>
    OBVIOUS
  <2> QED
    BY <1>1, <2>1, <2>2 DEF Incoming
<1>4. Embeds(<<>>, <<>>)
  <2>1. <<>> \in Seq(Sid)
    OBVIOUS
  <2> QED
    BY <2>1, EmbedsItself
<1> QED
  BY <1>1, <1>2, <1>3, <1>4 DEF Downloads

LEMMA DownloadKept == Spec => []DownloadInv
<1>1. ServerInv /\ ClientInv /\ SendsSegments /\ LinkInv /\ DownloadInv /\ [Next]_vars
      => DownloadInv'
  BY ServerSteps, DownloadStep DEF ClientInv
<1> QED
  BY <1>1, InitDownloads, ServerKept, ClientKept, SegmentsOnly, LinkKept, PTL DEF Spec

LEMMA DownloadsFollow == ServerInv /\ DownloadInv => DownloadsInOrder
<1> SUFFICES ASSUME ServerInv, DownloadInv, NEW s \in Sid, s \notin overlapped
             PROVE  /\ s \notin dropped => IsPrefix(got[s], x_produced[s])
                    /\ \A i, j \in DOMAIN got[s] : i < j =>
                          \E a, b \in DOMAIN x_produced[s] :
                              a < b /\ x_produced[s][a] = got[s][i]
                                    /\ x_produced[s][b] = got[s][j]
  BY DEF DownloadsInOrder
<1> DEFINE g == got[s]
           c == Coming(s)
           t == x_taken[s]
           q == x_sess[s].tx_q
           p == x_produced[s]
<1>1. /\ g \in Seq(XP!Frame) /\ t \in Seq(XP!Frame) /\ q \in Seq(XP!Frame)
      /\ p \in Seq(XP!Frame) /\ t \o q = p
  BY DEF ServerInv, XP!TypeOK, XP!Session, XP!DownLine, DownloadInv, Typed
<1>2. /\ Typed(s) /\ OneReply(s) /\ Embeds(g \o c, t)
      /\ s \notin dropped => g \o c = t
  BY DEF DownloadInv, Downloads, Incoming
<1>3. c \in Seq(XP!Frame)
  BY <1>2, ComingTyped
<1> HIDE DEF g, c, t, q, p
<1>4. ASSUME s \notin dropped
      PROVE  IsPrefix(g, p)
  <2>1. (g \o c) \o q = p
    BY <1>1, <1>2, <1>4
  <2>2. /\ Len(p) = (Len(g) + Len(c)) + Len(q)
        /\ \A i \in 1..Len(g) : p[i] = g[i]
    <3>1. LET z == (g \o c) \o q
          IN  /\ Len(z) = (Len(g) + Len(c)) + Len(q)
              /\ \A i \in 1..Len(g) : z[i] = g[i]
      BY <1>1, <1>3, Infix
    <3> QED
      BY <2>1, <3>1
  <2>3. Len(g) <= Len(p)
    BY <1>1, <1>3, <2>2
  <2> QED
    BY <1>1, <2>2, <2>3, PrefixOf
<1>5. Embeds(g, p)
  <2>1. Embeds(g, t)
    BY <1>1, <1>2, <1>3, EmbedsShorter
  <2>2. Embeds(g, t \o q)
    BY <1>1, <2>1, EmbedsLonger
  <2> QED
    BY <1>1, <2>2
<1>6. PICK f \in [1..Len(g) -> 1..Len(p)] :
         /\ \A i \in 1..Len(g) : g[i] = p[f[i]]
         /\ \A i, j \in 1..Len(g) : i < j => f[i] < f[j]
  BY <1>5 DEF Embeds
<1>7. DOMAIN g = 1..Len(g) /\ DOMAIN p = 1..Len(p)
  BY <1>1
<1>8. ASSUME NEW i \in DOMAIN g, NEW j \in DOMAIN g, i < j
      PROVE  \E a, b \in DOMAIN p : a < b /\ p[a] = g[i] /\ p[b] = g[j]
  <2>1. f[i] \in DOMAIN p /\ f[j] \in DOMAIN p
    BY <1>6, <1>7
  <2>2. f[i] < f[j] /\ p[f[i]] = g[i] /\ p[f[j]] = g[j]
    BY <1>6, <1>7, <1>8
  <2> QED
    BY <2>1, <2>2
<1> QED
  BY <1>4, <1>8 DEF g, p

(* What the client is handed of an upstream connection is in the order in  *)
(* which it came, and is all of it up to some point unless a reply was     *)
(* lost: however polls, handlers and workers interleave, unless two        *)
(* replies with frames of the session were on their way at once            *)
(* (read_upstream to _dispatch_response_frames).                           *)
THEOREM DownloadsKept == Spec => []DownloadsInOrder
BY DownloadsFollow, ServerKept, DownloadKept, PTL
=============================================================================
