---------------------------- MODULE CarrierProofs ----------------------------
(***************************************************************************)
(* Theorems about the carrier, for any number of sessions, endpoints and   *)
(* workers, any sizes and any of the outcomes of a POST: what its queues   *)
(* hold, and then the order in which it delivers: the sharing of the       *)
(* sessions among the workers, the FIFO channel of a session, the          *)
(* refinement of Stream and the order of what the server reads when frames *)
(* are lost.                                                               *)
(***************************************************************************)
EXTENDS Carrier, SessionPoolProofs

(* No more frames fit in a batch than there are.                           *)
LEMMA FittingBounds ==
  ASSUME NEW q \in Seq(Frame), NEW used
  PROVE  Fitting(q, used) \in 0..Len(q)
<1> DEFINE K == {k \in 1..Len(q) : used + EncodedBytes(q, k) <= MaxFramePayload}
<1>1. Len(q) \in Nat
  OBVIOUS
<1>2. \A n \in Nat : IsFiniteSet(1..n) /\ Cardinality(1..n) = n
  BY FS_Interval
<1>3. K \in SUBSET (1..Len(q))
  OBVIOUS
<1> HIDE DEF K
<1>4. IsFiniteSet(K) /\ Cardinality(K) <= Cardinality(1..Len(q))
  BY <1>1, <1>2, <1>3, FS_Subset
<1>5. Cardinality(K) \in Nat
  BY <1>4, FS_CardinalityType
<1> QED
  BY <1>1, <1>2, <1>4, <1>5 DEF Fitting, K

(* Sets of sessions can be counted.                                        *)
LEMMA SubsetsCounted ==
  \A T \in SUBSET Sid : IsFiniteSet(T) /\ Cardinality(T) \in Nat
BY CarrierAssumption, FS_Subset, FS_CardinalityType

(* What a drain puts in the batch, and what it leaves in the sessions.     *)
LEMMA DrainFacts ==
  ASSUME TypeOK, NEW w \in Worker, NEW s \in Sid
  PROVE  /\ Drained(w)[s] \in Seq(Frame)
         /\ \E r \in Seq(Frame) : Drained(w)[s] \o r = sess[s].tx_q
         /\ Visits(w, s) /\ ~Overflows(w, s) =>
               /\ Drained(w)[s] = Snapshot(sess[s], batch_size[w[1]])
               /\ AfterDrain(w, s).tx_q = Undrained(sess[s], batch_size[w[1]])
         /\ ~Visits(w, s) => Drained(w)[s] = <<>> /\ AfterDrain(w, s) = sess[s]
         /\ Overflows(w, s) => AfterDrain(w, s).tx_q = sess[s].tx_q
         /\ AfterDrain(w, s) \in Session
         /\ Accounted(sess[s]) => Accounted(AfterDrain(w, s))
<1> DEFINE n == batch_size[w[1]]
           q == sess[s].tx_q
           snap == Snapshot(sess[s], n)
           k == Taken(s, n)
<1>1. n \in Nat /\ sess[s] \in Session /\ q \in Seq(Frame)
  BY CarrierAssumption DEF TypeOK, Worker, Session
<1>2. /\ SnapshotLen(sess[s], n) \in 0..Len(q) /\ snap \in Seq(Frame)
      /\ Undrained(sess[s], n) \in Seq(Frame)
      /\ snap \o Undrained(sess[s], n) = q
  BY <1>1, DrainSplits
<1>3. Len(snap) = SnapshotLen(sess[s], n)
  <2>1. \A i \in 1..Len(q) : q[i] \in Frame
    BY <1>1
  <2> QED
    BY <1>1, <1>2, <2>1, SubSeqProperties DEF Snapshot
<1>4. k \in 0..SnapshotLen(sess[s], n)
  BY <1>2, <1>3, FittingBounds DEF Taken
<1>5. SubSeq(q, 1, k) \in Seq(Frame) /\ \E r \in Seq(Frame) : SubSeq(q, 1, k) \o r = q
  <2>1. k \in 0..Len(q)
    BY <1>1, <1>2, <1>4
  <2> HIDE DEF k, q
  <2> QED
    BY <1>1, <2>1, SequenceSplits
<1>6. Drained(w)[s] = IF Visits(w, s) THEN SubSeq(q, 1, k) ELSE <<>>
  BY DEF Drained
<1>7. Drained(w)[s] \in Seq(Frame) /\ \E r \in Seq(Frame) : Drained(w)[s] \o r = q
  <2>1. <<>> \o q = q /\ <<>> \in Seq(Frame)
    BY <1>1, ConcatEmptySeq, EmptySeq
  <2> QED
    BY <1>1, <1>5, <1>6, <2>1, Zenon
<1>8. ASSUME Visits(w, s), ~Overflows(w, s)
      PROVE  Drained(w)[s] = snap /\ AfterDrain(w, s) = DrainTx(sess[s], n)
  <2>1. k = SnapshotLen(sess[s], n)
    BY <1>1, <1>2, <1>4, <1>8 DEF Overflows
  <2> QED
    BY <1>6, <1>8, <2>1 DEF Snapshot, AfterDrain
<1>9. ASSUME Overflows(w, s)
      PROVE  AfterDrain(w, s) = RollbackDrain(DrainTx(sess[s], n), snap)
  BY <1>9 DEF AfterDrain, Overflows
<1>10. ASSUME ~Visits(w, s)
       PROVE  Drained(w)[s] = <<>> /\ AfterDrain(w, s) = sess[s]
  BY <1>6, <1>10 DEF AfterDrain
<1>11. /\ DrainTx(sess[s], n) \in Session
       /\ DrainTx(sess[s], n).tx_q = Undrained(sess[s], n)
       /\ Accounted(sess[s]) => Accounted(DrainTx(sess[s], n))
  BY <1>1, DrainTxAccounted
<1>12. /\ RollbackDrain(DrainTx(sess[s], n), snap) \in Session
       /\ RollbackDrain(DrainTx(sess[s], n), snap).tx_q = q
       /\ Accounted(sess[s]) => RollbackDrain(DrainTx(sess[s], n), snap) = sess[s]
  BY <1>1, <1>2, <1>11, RollbackType, RollbackUndoesDrain
<1> HIDE DEF n, q, snap, k
<1>13. Overflows(w, s) => Visits(w, s)
  BY DEF Overflows
<1> QED
  BY <1>1, <1>7, <1>8, <1>9, <1>10, <1>11, <1>12, <1>13 DEF n, q, snap

(* The actions, one by one.                                                *)
LEMMA NextSplits ==
  ASSUME Next
  PROVE  \/ \E s \in Sid : \/ Open(s) \/ Close(s) \/ ReadLoop(s)
                           \/ \E len \in Payloads : Write(s, len)
         \/ \E w \in Worker :
               \/ Poll(w) \/ Notified(w) \/ PollIdle(w) \/ SleepDead(w) \/ WakeUp(w)
               \/ (\E R \in SUBSET Sid : ReplyOk(w, R))
               \/ ReplyGarbled(w) \/ ReplyBlank(w) \/ ReplyThrottled(w) \/ ReplyError(w)
               \/ Cancel(w) \/ Deliver(w) \/ DeliverLate(w)
         \/ \E ep \in Endpoint : Revive(ep)
         \/ HealthTick \/ Watchdog \/ Stop
BY DEF Next, Conn, Work, Reply

LEMMA BatchFacts ==
  /\ NoFrames \in Batch
  /\ \A b, c \in Batch : [s \in Sid |-> b[s] \o c[s]] \in Batch
BY EmptySeq, ConcatProperties DEF NoFrames, Batch

LEMMA InitType == Init => TypeOK
<1> SUFFICES ASSUME Init PROVE TypeOK
  OBVIOUS
<1>1. NewSession \in Session /\ NoFrames \in Batch /\ <<>> \in Seq(Frame)
  BY NewSessionAccounted, BatchFacts, EmptySeq
<1>2. 0 \in 0..MaxConsecutiveFailures
  BY CarrierAssumption
<1> QED
  BY <1>1, <1>2, CarrierAssumption DEF Init, TypeOK

LEMMA DrainType ==
  ASSUME TypeOK, NEW w \in Worker, NEW idlePc \in {"wait", "loop"},
         DrainAndPost(w, idlePc)
  PROVE  TypeOK'
<1>1. sess' \in [Sid -> Session]
  BY DrainFacts DEF DrainAndPost
<1>2. Drained(w) \in Batch
  <2>1. \A s \in Sid : Drained(w)[s] \in Seq(Frame)
    BY DrainFacts
  <2> QED
    BY <2>1 DEF Drained, Batch
<1>3. frames' \in [Worker -> Batch] /\ wire' \in [Worker -> Batch]
  BY <1>2 DEF DrainAndPost, TypeOK
<1>4. pc' \in [Worker -> {"loop", "wait", "woken", "sleep", "post", "crashed", "stopped"}]
  BY DEF DrainAndPost, TypeOK
<1>5. faults' \subseteq Fault /\ raced' \subseteq Sid
  BY DEF DrainAndPost, TypeOK, Fault
<1> QED
  BY <1>1, <1>3, <1>4, <1>5 DEF DrainAndPost, TypeOK, epVars

(* What close leaves of a session: the FIN behind its data, the rest of its *)
(* unread frames, and the event set.                                       *)
LEMMA ClosedSession ==
  ASSUME TypeOK, NEW s \in Sid, Close(s)
  PROVE  LET e == EnqueueTx(sess[s], Fin(s))
         IN  /\ e \in Session
             /\ sess'[s] \in Session
             /\ sess' = [sess EXCEPT ![s] = sess'[s]]
             /\ sess'[s].tx_q = e.tx_q /\ sess'[s].tx_bytes = e.tx_bytes
             /\ sess'[s].tx_event = e.tx_event /\ sess'[s].rx_event
             /\ sess'[s].seq = e.seq
<1> DEFINE e == EnqueueTx(sess[s], Fin(s))
<1>1. sess[s] \in Session /\ sess[s].rx_q \in Seq(Frame)
  BY DEF TypeOK, Session
<1>2. e \in Session
  BY <1>1, FramesTyped, EnqueueTxAccounted
<1>3. PICK k \in DOMAIN sess[s].rx_q :
         sess' = [sess EXCEPT ![s] = [e EXCEPT
                    !.rx_q = SubSeq(sess[s].rx_q, k + 1, Len(sess[s].rx_q)),
                    !.rx_event = TRUE]]
  BY DEF Close
<1> DEFINE r == SubSeq(sess[s].rx_q, k + 1, Len(sess[s].rx_q))
<1>4. r \in Seq(Frame)
  BY <1>1
<1>5. sess' = [sess EXCEPT ![s] = [e EXCEPT !.rx_q = r, !.rx_event = TRUE]]
  BY <1>3
<1> HIDE DEF e, r
<1>6. sess'[s] = [e EXCEPT !.rx_q = r, !.rx_event = TRUE]
  BY <1>5 DEF TypeOK
<1>7. sess' = [sess EXCEPT ![s] = sess'[s]]
  BY <1>5, <1>6
<1>8. [e EXCEPT !.rx_q = r, !.rx_event = TRUE] \in Session
  BY <1>2, <1>4 DEF Session
<1>9. /\ sess'[s].tx_q = e.tx_q /\ sess'[s].tx_bytes = e.tx_bytes
      /\ sess'[s].tx_event = e.tx_event /\ sess'[s].rx_event
      /\ sess'[s].seq = e.seq
  BY <1>2, <1>6 DEF Session
<1> QED
  BY <1>2, <1>6, <1>7, <1>8, <1>9 DEF e

LEMMA ConnType ==
  ASSUME TypeOK, NEW s \in Sid,
         Open(s) \/ Close(s) \/ ReadLoop(s) \/ \E len \in Payloads : Write(s, len)
  PROVE  TypeOK'
<1>1. sess[s] \in Session /\ sent[s] \in Seq(Frame)
  BY DEF TypeOK
<1>2. CASE Open(s)
  <2>1. EnqueueTx(NewSession, Syn(s)) \in Session
    BY NewSessionAccounted, FramesTyped, EnqueueTxAccounted
  <2>2. Append(sent[s], Syn(s)) \in Seq(Frame)
    BY <1>1, FramesTyped, AppendProperties
  <2>3. 1 + Cardinality({t \in Sid : Opened(t)}) \in Nat
    <3> DEFINE U == {t \in Sid : Opened(t)}
    <3>1. U \in SUBSET Sid
      OBVIOUS
    <3> HIDE DEF U
    <3>2. 1 + Cardinality(U) \in Nat
      BY <3>1, SubsetsCounted
    <3> QED
      BY <3>2 DEF U
  <2>4. pc' \in [Worker -> {"loop", "wait", "woken", "sleep", "post", "crashed", "stopped"}]
    BY <1>2 DEF Open, TypeOK
  <2> QED
    BY <1>2, <2>1, <2>2, <2>3, <2>4 DEF Open, TypeOK, epVars
<1>3. CASE Close(s)
  <2>1. sess' \in [Sid -> Session]
    BY <1>3, ClosedSession DEF TypeOK
  <2>2. Append(sent[s], Fin(s)) \in Seq(Frame)
    BY <1>1, FramesTyped, AppendProperties
  <2> QED
    BY <1>3, <2>1, <2>2 DEF Close, TypeOK, epVars, taskVars
<1>4. CASE ReadLoop(s)
  <2>1. [sess[s] EXCEPT !.rx_q = <<>>, !.rx_event = FALSE] \in Session
    BY <1>1, EmptySeq DEF Session
  <2> QED
    BY <1>4, <2>1 DEF ReadLoop, TypeOK, epVars, taskVars, history
<1>5. ASSUME NEW len \in Payloads, Write(s, len)
      PROVE  TypeOK'
  <2> DEFINE n == sess[s].seq
             f == Data(s, n, len)
  <2>1. n \in Nat /\ len \in 0..MaxPayload
    BY <1>1, CarrierAssumption DEF Session
  <2>2. f \in Frame
    BY <2>1, FramesTyped
  <2>3. [EnqueueTx(sess[s], f) EXCEPT !.seq = n + 1] \in Session
    <3>1. EnqueueTx(sess[s], f) \in Session
      BY <1>1, <2>2, EnqueueTxAccounted
    <3> QED
      BY <2>1, <3>1 DEF Session
  <2>4. Append(sent[s], f) \in Seq(Frame)
    BY <1>1, <2>2, AppendProperties
  <2> QED
    BY <1>5, <2>3, <2>4 DEF Write, TypeOK, epVars, taskVars
<1> QED
  BY <1>2, <1>3, <1>4, <1>5

LEMMA ReplyType ==
  ASSUME TypeOK, NEW w \in Worker,
         \/ \E R \in SUBSET Sid : ReplyOk(w, R)
         \/ ReplyGarbled(w) \/ ReplyBlank(w) \/ ReplyThrottled(w) \/ ReplyError(w) \/ Cancel(w)
  PROVE  TypeOK'
<1>1. NoFrames \in Batch /\ w[1] \in Endpoint
  BY BatchFacts DEF Worker
<1>2. ASSUME NEW R \in SUBSET Sid, ReplyOk(w, R)
      PROVE  TypeOK'
  <2>1. sess' \in [Sid -> Session]
    BY <1>2, FramesTyped, SizesAssumption, EnqueueRxAccounted
    DEF ReplyOk, Dispatched, TypeOK
  <2>2. Cardinality(R) \in Nat
    BY CarrierAssumption, FS_Subset, FS_CardinalityType
  <2>3. AdaptedBatchSize(batch_size[w[1]], Cardinality(R)) \in BatchSizeMin..BatchSizeMax
    <3> DEFINE n == batch_size[w[1]]
               resp == Cardinality(R)
    <3>1. n \in BatchSizeMin..BatchSizeMax
      BY <1>1 DEF TypeOK
    <3>2. resp \in Nat
      BY <2>2
    <3> HIDE DEF n, resp
    <3>3. BatchSizeMin \in Nat \ {0} /\ BatchSizeMax \in Nat
      BY CarrierAssumption
    <3>4. AdaptedBatchSize(n, resp) \in BatchSizeMin..BatchSizeMax
      BY <3>1, <3>2, <3>3 DEF AdaptedBatchSize
    <3> QED
      BY <3>4 DEF n, resp
  <2>4. 0 \in 0..MaxConsecutiveFailures
    BY CarrierAssumption
  <2>5. batch_size' \in [Endpoint -> BatchSizeMin..BatchSizeMax]
    BY <1>2, <2>3 DEF ReplyOk, TypeOK
  <2>6. consecutive_failures' \in [Endpoint -> 0..MaxConsecutiveFailures]
    BY <1>2, <2>4 DEF ReplyOk, TypeOK
  <2> QED
    BY <1>1, <1>2, <2>1, <2>5, <2>6 DEF ReplyOk, Goto, TypeOK, history
<1>3. CASE ReplyGarbled(w)
  <2>1. 0 \in 0..MaxConsecutiveFailures
    BY CarrierAssumption
  <2>2. consecutive_failures' \in [Endpoint -> 0..MaxConsecutiveFailures]
    BY <1>3, <2>1 DEF ReplyGarbled, TypeOK
  <2> QED
    BY <1>1, <1>3, <2>2 DEF ReplyGarbled, Forget, Goto, LossOf, TypeOK, Fault, poolVars
<1>8. CASE ReplyBlank(w)
  <2>1. 0 \in 0..MaxConsecutiveFailures
    BY CarrierAssumption
  <2>2. consecutive_failures' \in [Endpoint -> 0..MaxConsecutiveFailures]
    BY <1>8, <2>1 DEF ReplyBlank, TypeOK
  <2> QED
    BY <1>1, <1>8, <2>2 DEF ReplyBlank, Forget, Goto, LossOf, TypeOK, Fault, poolVars
<1>4. OneMoreFailure(w[1]) => consecutive_failures' \in [Endpoint -> 0..MaxConsecutiveFailures]
  BY <1>1, CarrierAssumption DEF OneMoreFailure, TypeOK
<1>5. CASE ReplyThrottled(w)
  BY <1>1, <1>4, <1>5 DEF ReplyThrottled, Forget, Goto, LossOf, TypeOK, Fault, poolVars
<1>6. CASE ReplyError(w)
  <2>1. faults' \subseteq Fault
    BY <1>6 DEF ReplyError, LossOf, TypeOK, Fault
  <2>2. orphan' \in [Worker -> Batch]
    BY <1>6 DEF ReplyError, TypeOK
  <2> QED
    BY <1>1, <1>4, <1>6, <2>1, <2>2 DEF ReplyError, Forget, Goto, TypeOK
<1>7. CASE Cancel(w)
  BY <1>1, <1>7 DEF Cancel, Forget, Goto, LossOf, TypeOK, Fault, poolVars, epVars
<1> QED
  BY <1>2, <1>3, <1>5, <1>6, <1>7, <1>8

LEMMA StepType == TypeOK /\ [Next]_vars => TypeOK'
<1> SUFFICES ASSUME TypeOK, [Next]_vars PROVE TypeOK'
  OBVIOUS
<1>1. CASE UNCHANGED vars
  BY <1>1 DEF TypeOK, vars, poolVars, taskVars, epVars, history
<1>2. ASSUME NEW w \in Worker, Poll(w) \/ Notified(w)
      PROVE  TypeOK'
  BY <1>2, DrainType DEF Poll, Notified
<1>3. ASSUME NEW w \in Worker, PollIdle(w) \/ SleepDead(w) \/ WakeUp(w)
      PROVE  TypeOK'
  BY <1>3 DEF PollIdle, SleepDead, WakeUp, Goto, TypeOK, poolVars, epVars, history
<1>4. ASSUME NEW w \in Worker, Deliver(w) \/ DeliverLate(w)
      PROVE  TypeOK'
  <2>1. recvd \in Batch /\ wire[w] \in Batch /\ orphan[w] \in Batch /\ NoFrames \in Batch
    BY BatchFacts DEF TypeOK, Batch
  <2>2. recvd' \in [Sid -> Seq(Frame)]
    BY <1>4, <2>1, BatchFacts DEF Deliver, DeliverLate, Batch
  <2> QED
    BY <1>4, <2>1, <2>2 DEF Deliver, DeliverLate, TypeOK, poolVars, epVars
<1>5. ASSUME NEW ep \in Endpoint, Revive(ep)
      PROVE  TypeOK'
  <2>1. 0 \in 0..MaxConsecutiveFailures
    BY CarrierAssumption
  <2> QED
    BY <1>5, <2>1 DEF Revive, TypeOK, poolVars, taskVars, history
<1>6. CASE HealthTick
  BY <1>6 DEF HealthTick, TypeOK, poolVars, taskVars, history
<1>7. CASE Watchdog
  <2>1. MaxConsecutiveFailures \in 0..MaxConsecutiveFailures
    BY CarrierAssumption
  <2> QED
    BY <1>7, <2>1 DEF Watchdog, TypeOK, poolVars, taskVars, history
<1>8. CASE Stop
  BY <1>8 DEF Stop, TypeOK, poolVars, taskVars, epVars, history
<1> QED
  BY <1>1, <1>2, <1>3, <1>4, <1>5, <1>6, <1>7, <1>8, NextSplits, ConnType, ReplyType

(* Every variable keeps its type.                                          *)
THEOREM TypeCorrect == Spec => []TypeOK
BY InitType, StepType, PTL DEF Spec
----------------------------------------------------------------------------
(* What a step can do to a session and to its stream.                      *)
LEMMA SessionStep ==
  ASSUME TypeOK, [Next]_vars, NEW s \in Sid
  PROVE  /\ Accounted(sess[s]) => Accounted(sess'[s])
         /\ \/ sess'[s].tx_q = sess[s].tx_q /\ sent'[s] = sent[s]
            \/ \E f \in Frame : /\ sent'[s] = Append(sent[s], f)
                               /\ sess'[s].tx_q \in {Append(sess[s].tx_q, f), <<f>>}
            \/ \E n \in Nat : /\ sess'[s].tx_q = Undrained(sess[s], n)
                             /\ sent'[s] = sent[s]
<1> DEFINE Goal == /\ Accounted(sess[s]) => Accounted(sess'[s])
                   /\ \/ sess'[s].tx_q = sess[s].tx_q /\ sent'[s] = sent[s]
                      \/ \E f \in Frame : /\ sent'[s] = Append(sent[s], f)
                                         /\ sess'[s].tx_q \in {Append(sess[s].tx_q, f), <<f>>}
                      \/ \E n \in Nat : /\ sess'[s].tx_q = Undrained(sess[s], n)
                                       /\ sent'[s] = sent[s]
<1> SUFFICES Goal
  OBVIOUS
<1>1. CASE sess' = sess /\ sent' = sent
  BY <1>1
<1>2. ASSUME NEW t \in Sid, Open(t)
      PROVE  Goal
  <2>1. CASE s = t
    <3>1. sess'[s] = EnqueueTx(NewSession, Syn(s)) /\ sent'[s] = Append(sent[s], Syn(s))
      BY <1>2, <2>1 DEF Open, TypeOK
    <3>2. Accounted(sess'[s]) /\ sess'[s].tx_q = Append(NewSession.tx_q, Syn(s))
      BY <3>1, NewSessionAccounted, FramesTyped, EnqueueTxAccounted
    <3>3. Append(NewSession.tx_q, Syn(s)) = <<Syn(s)>>
      BY DEF NewSession
    <3> QED
      BY <3>1, <3>2, <3>3, FramesTyped
  <2>2. CASE s # t
    BY <1>2, <2>2 DEF Open, TypeOK
  <2> QED
    BY <2>1, <2>2
<1>3. ASSUME NEW t \in Sid, Close(t)
      PROVE  Goal
  <2>1. CASE s = t
    <3> DEFINE e == EnqueueTx(sess[s], Fin(s))
    <3>1. sent'[s] = Append(sent[s], Fin(s))
      BY <1>3, <2>1 DEF Close, TypeOK
    <3>2. sess[s] \in Session /\ Fin(s) \in Frame
      BY FramesTyped DEF TypeOK
    <3>3. /\ e \in Session /\ e.tx_q = Append(sess[s].tx_q, Fin(s))
          /\ Accounted(sess[s]) => Accounted(e)
      BY <3>2, EnqueueTxAccounted
    <3>4. /\ sess'[s].tx_q = e.tx_q /\ sess'[s].tx_bytes = e.tx_bytes
          /\ sess'[s].tx_event = e.tx_event /\ sess'[s].rx_event
      BY <1>3, <2>1, ClosedSession
    <3> HIDE DEF e
    <3> QED
      BY <3>1, <3>2, <3>3, <3>4 DEF Accounted
  <2>2. CASE s # t
    BY <1>3, <2>2 DEF Close, TypeOK
  <2> QED
    BY <2>1, <2>2
<1>4. ASSUME NEW t \in Sid, ReadLoop(t)
      PROVE  Goal
  <2>1. CASE s = t
    <3>1. sess[s] \in Session /\ sess'[s] = [sess[s] EXCEPT !.rx_q = <<>>, !.rx_event = FALSE]
      BY <1>4, <2>1 DEF ReadLoop, TypeOK
    <3>2. sent'[s] = sent[s]
      BY <1>4 DEF ReadLoop, history
    <3> QED
      BY <3>1, <3>2 DEF Session, Accounted
  <2>2. CASE s # t
    BY <1>4, <2>2 DEF ReadLoop, TypeOK, history
  <2> QED
    BY <2>1, <2>2
<1>5. ASSUME NEW t \in Sid, NEW len \in Payloads, Write(t, len)
      PROVE  Goal
  <2>1. CASE s = t
    <3> DEFINE f == Data(s, sess[s].seq, len)
               e == EnqueueTx(sess[s], f)
    <3>1. /\ sess'[s] = [e EXCEPT !.seq = sess[s].seq + 1]
          /\ sent'[s] = Append(sent[s], f)
      BY <1>5, <2>1 DEF Write, TypeOK
    <3>2. sess[s] \in Session /\ f \in Frame
      BY FramesTyped, CarrierAssumption DEF TypeOK, Session
    <3>3. /\ e \in Session /\ e.tx_q = Append(sess[s].tx_q, f)
          /\ Accounted(sess[s]) => Accounted(e)
      BY <3>2, EnqueueTxAccounted
    <3> HIDE DEF e, f
    <3>4. /\ sess'[s].tx_q = e.tx_q /\ sess'[s].tx_bytes = e.tx_bytes
          /\ sess'[s].tx_event = e.tx_event /\ sess'[s].rx_q = e.rx_q
          /\ sess'[s].rx_event = e.rx_event
      BY <3>1, <3>3 DEF Session
    <3> QED
      BY <3>1, <3>2, <3>3, <3>4 DEF Accounted
  <2>2. CASE s # t
    BY <1>5, <2>2 DEF Write, TypeOK
  <2> QED
    BY <2>1, <2>2
<1>6. ASSUME NEW w \in Worker, NEW idlePc, DrainAndPost(w, idlePc)
      PROVE  Goal
  <2>1. sess'[s] = AfterDrain(w, s) /\ sent'[s] = sent[s]
    BY <1>6 DEF DrainAndPost
  <2>2. batch_size[w[1]] \in Nat
    BY CarrierAssumption DEF TypeOK, Worker
  <2>3. Overflows(w, s) => Visits(w, s)
    BY DEF Overflows
  <2> QED
    BY <2>1, <2>2, <2>3, DrainFacts
<1>7. ASSUME NEW w \in Worker, NEW R \in SUBSET Sid, ReplyOk(w, R)
      PROVE  Goal
  <2>1. /\ sess'[s] = (IF s \in R \cap pool THEN EnqueueRx(sess[s], Data(s, 0, 0)) ELSE sess[s])
        /\ sent'[s] = sent[s]
    BY <1>7 DEF ReplyOk, Dispatched, history
  <2>2. sess[s] \in Session /\ Data(s, 0, 0) \in Frame
    BY FramesTyped, SizesAssumption DEF TypeOK
  <2> QED
    BY <2>1, <2>2, EnqueueRxAccounted
<1> HIDE DEF Goal
<1>8. CASE \E w \in Worker :
             \/ PollIdle(w) \/ SleepDead(w) \/ WakeUp(w)
             \/ ReplyGarbled(w) \/ ReplyBlank(w) \/ ReplyThrottled(w) \/ ReplyError(w)
             \/ Cancel(w) \/ Deliver(w) \/ DeliverLate(w)
  BY <1>1, <1>8 DEF PollIdle, SleepDead, WakeUp, ReplyGarbled, ReplyBlank, ReplyThrottled, ReplyError,
                    Cancel, Deliver, DeliverLate, poolVars, history
<1>9. CASE HealthTick \/ Watchdog \/ Stop \/ (\E ep \in Endpoint : Revive(ep))
  BY <1>1, <1>9 DEF HealthTick, Watchdog, Stop, Revive, poolVars, history
<1>10. CASE UNCHANGED vars
  BY <1>1, <1>10 DEF vars, poolVars, history
<1>11. ASSUME NEW w \in Worker, Poll(w) \/ Notified(w)
       PROVE  Goal
  BY <1>6, <1>11 DEF Poll, Notified
<1>12. ASSUME Next
       PROVE  Goal
  <2>1. CASE \E t \in Sid : \/ Open(t) \/ Close(t) \/ ReadLoop(t)
                           \/ \E len \in Payloads : Write(t, len)
    BY <1>2, <1>3, <1>4, <1>5, <2>1
  <2>2. CASE \E w \in Worker : Poll(w) \/ Notified(w)
    BY <1>11, <2>2
  <2>3. CASE \E w \in Worker : \E R \in SUBSET Sid : ReplyOk(w, R)
    BY <1>7, <2>3
  <2> QED
    BY <1>8, <1>9, <1>12, <2>1, <2>2, <2>3, NextSplits
<1>13. Next \/ UNCHANGED vars
  OBVIOUS
<1>14. Goal
  BY <1>10, <1>12, <1>13
<1> QED
  BY <1>14

(* Byte counts and events agree with their queues, after any rollback.     *)
THEOREM Accounting == Spec => []QueuesAccounted
<1>1. Init => QueuesAccounted
  BY NewSessionAccounted DEF Init, QueuesAccounted
<1>2. TypeOK /\ QueuesAccounted /\ [Next]_vars => QueuesAccounted'
  BY SessionStep DEF QueuesAccounted
<1> QED
  BY <1>1, <1>2, TypeCorrect, PTL DEF Spec

(* A queue is what is left of the stream after some prefix of it.          *)
TailOfStream ==
    \A s \in Sid : \E p \in Seq(Frame) : p \o sess[s].tx_q = sent[s]

LEMMA TailStep == TypeOK /\ TailOfStream /\ [Next]_vars => TailOfStream'
<1> SUFFICES ASSUME TypeOK, TailOfStream, [Next]_vars, NEW s \in Sid
             PROVE  \E p \in Seq(Frame) : p \o sess'[s].tx_q = sent'[s]
  BY DEF TailOfStream
<1> DEFINE q == sess[s].tx_q
<1>1. PICK p \in Seq(Frame) : p \o q = sent[s]
  BY DEF TailOfStream
<1>2. q \in Seq(Frame) /\ sent[s] \in Seq(Frame) /\ sess[s] \in Session
  BY DEF TypeOK, Session
<1> HIDE DEF q
<1>3. CASE sess'[s].tx_q = q /\ sent'[s] = sent[s]
  BY <1>1, <1>3
<1>4. ASSUME NEW f \in Frame, sent'[s] = Append(sent[s], f)
      PROVE  sent[s] \o <<f>> = sent'[s] /\ p \o Append(q, f) = sent'[s]
  <2>1. <<f>> \in Seq(Frame) /\ Append(q, f) = q \o <<f>> /\ sent'[s] = sent[s] \o <<f>>
    BY <1>2, <1>4, AppendIsConcat
  <2>2. (p \o q) \o <<f>> = p \o (q \o <<f>>)
    BY <1>2, <2>1, Associative
  <2> QED
    BY <1>1, <2>1, <2>2
<1>5. ASSUME NEW n \in Nat, sess'[s].tx_q = Undrained(sess[s], n), sent'[s] = sent[s]
      PROVE  \E r \in Seq(Frame) : r \o sess'[s].tx_q = sent'[s]
  <2> DEFINE a == Snapshot(sess[s], n)
             b == Undrained(sess[s], n)
  <2>1. a \in Seq(Frame) /\ b \in Seq(Frame) /\ a \o b = q
    BY <1>2, DrainSplits DEF q
  <2> HIDE DEF a, b
  <2>2. p \o a \in Seq(Frame)
    BY <2>1, ConcatProperties
  <2>3. (p \o a) \o b = p \o (a \o b)
    BY <2>1, Associative
  <2> QED
    BY <1>1, <1>5, <2>1, <2>2, <2>3 DEF b
<1> QED
  BY <1>2, <1>3, <1>4, <1>5, SessionStep DEF q

LEMMA TailInv == Spec => []TailOfStream
<1>1. Init => TailOfStream
  <2>1. <<>> \in Seq(Frame) /\ <<>> \o <<>> = <<>>
    BY EmptySeq, ConcatEmptySeq
  <2>2. NewSession.tx_q = <<>>
    BY DEF NewSession
  <2> QED
    BY <2>1, <2>2 DEF Init, TailOfStream
<1> QED
  BY <1>1, TailStep, TypeCorrect, PTL DEF Spec

(* What waits in a queue is always the unbroken tail of its stream.        *)
THEOREM TailKept == Spec => []QueueIsTail
<1>1. TypeOK /\ TailOfStream => QueueIsTail
  <2> SUFFICES ASSUME TypeOK, NEW s \in Sid, NEW p \in Seq(Frame),
                      p \o sess[s].tx_q = sent[s]
               PROVE  \E n \in 0..Len(sent[s]) :
                         sess[s].tx_q = SubSeq(sent[s], n + 1, Len(sent[s]))
    BY DEF TailOfStream, QueueIsTail
  <2>1. sess[s].tx_q \in Seq(Frame)
    BY DEF TypeOK, Session
  <2>2. Len(p) \in 0..Len(sent[s])
    BY <2>1, ConcatProperties
  <2>3. sess[s].tx_q = SubSeq(sent[s], Len(p) + 1, Len(sent[s]))
    BY <2>1, SequenceSuffix
  <2> QED
    BY <2>2, <2>3
<1> QED
  BY <1>1, TailInv, TypeCorrect, PTL
----------------------------------------------------------------------------
(* Order of delivery.                                                      *)

(* The strengthening: a session nobody has opened has left no trace,       *)
(* creation numbers grow, a worker carries frames only while it posts, and *)
(* carries only frames of sessions that are its own.                       *)
Unborn ==
    \A s \in Sid : born[s] = 0 =>
        /\ s \notin pool /\ s \notin closed
        /\ sess[s].tx_q = <<>> /\ sess[s].seq = 0
        /\ recvd[s] = <<>>
        /\ \A w \in Worker : frames[w][s] = <<>> /\ orphan[w][s] = <<>>

BornBound ==
    \A s \in Sid : born[s] <= Cardinality({t \in Sid : Opened(t)})

AtPost ==
    \A w \in Worker : /\ pc[w] # "post" => frames[w] = NoFrames
                      /\ wire[w] = NoFrames \/ wire[w] = frames[w]

Owned ==
    "moved" \notin faults =>
        \A w \in Worker, s \in Sid : frames[w][s] # <<>> => Visits(w, s)

Timely == "late" \notin faults => \A w \in Worker : orphan[w] = NoFrames

OrderInv == Unborn /\ BornBound /\ AtPost /\ Owned /\ Timely

LEMMA EmptyBatch == \A s \in Sid : NoFrames[s] = <<>>
BY DEF NoFrames

(* A new session goes behind all others: nobody's share changes.           *)
LEMMA OpenKeepsShares ==
  ASSUME TypeOK, Unborn, BornBound, NEW s \in Sid, Open(s), NEW w \in Worker, NEW t \in Sid,
         Visits(w, t)
  PROVE  Visits(w, t)'
<1>1. t \in pool /\ s \notin pool /\ t # s /\ born \in [Sid -> Nat] /\ pool \subseteq Sid
  BY DEF Visits, Open, Opened, Unborn, TypeOK
<1>2. pool' = pool \cup {s}
  BY DEF Open
<1> DEFINE n == Cardinality({u \in Sid : Opened(u)})
<1>3. n \in Nat
  <2> DEFINE O == {u \in Sid : Opened(u)}
  <2>1. O \in SUBSET Sid
    OBVIOUS
  <2> HIDE DEF O
  <2>2. Cardinality(O) \in Nat
    BY <2>1, SubsetsCounted
  <2> QED
    BY <2>2 DEF O
<1>4. born' = [born EXCEPT ![s] = 1 + n]
  BY DEF Open
<1>5. born[t] <= n
  BY DEF BornBound
<1> HIDE DEF n
<1>6. {u \in pool' : born'[u] < born'[t]} = {u \in pool : born[u] < born[t]}
  BY <1>1, <1>2, <1>3, <1>4, <1>5
<1>7. Index(t)' = Index(t)
  BY <1>6 DEF Index
<1> QED
  BY <1>1, <1>2, <1>7 DEF Visits

LEMMA InitOrder == Init => OrderInv
<1> SUFFICES ASSUME Init PROVE OrderInv
  OBVIOUS
<1>1. \A s \in Sid : born[s] = 0
  BY DEF Init
<1>2. {t \in Sid : Opened(t)} = {}
  BY <1>1 DEF Opened
<1>3. BornBound
  BY <1>1, <1>2, FS_EmptySet DEF BornBound
<1> QED
  BY <1>3, EmptyBatch DEF Init, OrderInv, Unborn, AtPost, Owned, Timely, NewSession

(* What a drain and a dispatch leave alone.                                *)
LEMMA SeqKept ==
  ASSUME TypeOK, NEW w \in Worker, NEW s \in Sid
  PROVE  AfterDrain(w, s).seq = sess[s].seq
<1>1. sess[s] \in Session
  BY DEF TypeOK
<1>2. \A d \in Session, q \in Seq(Frame) : RollbackDrain(d, q).seq = d.seq
  BY DEF RollbackDrain, Session
<1> DEFINE n == batch_size[w[1]]
           d == DrainTx(sess[s], n)
<1>3. n \in Nat
  BY CarrierAssumption DEF TypeOK, Worker
<1>4. d \in Session /\ Snapshot(sess[s], n) \in Seq(Frame)
  BY <1>1, <1>3, DrainTxAccounted, DrainSplits
<1>5. d.seq = sess[s].seq
  BY <1>1 DEF DrainTx, Session
<1> HIDE DEF n, d
<1>6. AfterDrain(w, s) \in {sess[s], RollbackDrain(d, Snapshot(sess[s], n)), d}
  BY DEF AfterDrain, n, d
<1> QED
  BY <1>2, <1>4, <1>5, <1>6

LEMMA SameShares ==
  ASSUME pool' = pool, born' = born
  PROVE  /\ \A w \in Worker, s \in Sid : Visits(w, s)' <=> Visits(w, s)
         /\ BornBound' <=> BornBound
BY DEF Visits, Index, BornBound, Opened

LEMMA DrainOrder ==
  ASSUME TypeOK, OrderInv, NEW w \in Worker, NEW idlePc \in {"wait", "loop"},
         pc[w] # "post", DrainAndPost(w, idlePc)
  PROVE  OrderInv'
<1>1. /\ pool' = pool /\ born' = born /\ closed' = closed
      /\ orphan' = orphan /\ recvd' = recvd /\ faults \subseteq faults'
      /\ "moved" \in faults' => "moved" \in faults
      /\ "late" \in faults' => "late" \in faults
  BY DEF DrainAndPost
<1>2. /\ frames' = [frames EXCEPT ![w] = Drained(w)]
      /\ wire' = [wire EXCEPT ![w] = Drained(w)]
      /\ pc' = [pc EXCEPT ![w] = IF Drained(w) = NoFrames THEN idlePc ELSE "post"]
      /\ frames \in [Worker -> Batch] /\ wire \in [Worker -> Batch]
      /\ pc \in [Worker -> {"loop", "wait", "woken", "sleep", "post", "crashed", "stopped"}]
  BY DEF DrainAndPost, TypeOK
<1>3. \A s \in Sid : /\ sess'[s] = AfterDrain(w, s)
                     /\ ~Visits(w, s) => Drained(w)[s] = <<>> /\ sess'[s] = sess[s]
                     /\ sess'[s].seq = sess[s].seq
  BY DrainFacts, SeqKept DEF DrainAndPost
<1>4. Unborn'
  <2> SUFFICES ASSUME NEW s \in Sid, born[s] = 0
               PROVE  /\ s \notin pool /\ s \notin closed
                      /\ sess'[s].tx_q = <<>> /\ sess'[s].seq = 0
                      /\ recvd[s] = <<>>
                      /\ \A v \in Worker : frames'[v][s] = <<>> /\ orphan[v][s] = <<>>
    BY <1>1 DEF Unborn
  <2>1. s \notin pool /\ ~Visits(w, s)
    BY DEF OrderInv, Unborn, Visits
  <2> QED
    BY <1>2, <1>3, <2>1 DEF OrderInv, Unborn
<1>5. AtPost'
  BY <1>2 DEF OrderInv, AtPost
<1>6. Owned'
  <2> SUFFICES ASSUME "moved" \notin faults, NEW v \in Worker, NEW s \in Sid,
                      frames'[v][s] # <<>>
               PROVE  Visits(v, s)
    BY <1>1, SameShares DEF Owned
  <2> QED
    BY <1>2, <1>3 DEF OrderInv, Owned
<1> QED
  BY <1>1, <1>4, <1>5, <1>6, SameShares DEF OrderInv, Timely

LEMMA ConnOrder ==
  ASSUME TypeOK, OrderInv, NEW s \in Sid,
         Open(s) \/ Close(s) \/ ReadLoop(s) \/ \E len \in Payloads : Write(s, len)
  PROVE  OrderInv'
<1>1. CASE Open(s)
  <2>1. /\ frames' = frames /\ wire' = wire /\ orphan' = orphan
        /\ closed' = closed /\ recvd' = recvd /\ faults' = faults
        /\ pool' = pool \cup {s}
        /\ \A t \in Sid : t # s => born'[t] = born[t] /\ sess'[t] = sess[t]
    BY <1>1 DEF Open, TypeOK
  <2> DEFINE O == {t \in Sid : Opened(t)}
             n == Cardinality(O)
  <2>2. IsFiniteSet(O) /\ n \in Nat
    <3>1. O \in SUBSET Sid
      OBVIOUS
    <3> QED
      BY <3>1, SubsetsCounted
  <2>3. born' = [born EXCEPT ![s] = 1 + n] /\ born \in [Sid -> Nat] /\ s \notin O
    BY <1>1 DEF Open, TypeOK
  <2>4. {t \in Sid : Opened(t)}' = O \cup {s}
    BY <2>2, <2>3 DEF Opened
  <2>5. Cardinality(O \cup {s}) = n + 1
    BY <2>2, <2>3, FS_AddElement
  <2>6. BornBound'
    <3>1. \A t \in Sid : born[t] <= n
      BY DEF OrderInv, BornBound
    <3> HIDE DEF n, O
    <3>2. \A t \in Sid : born'[t] <= n + 1
      BY <2>2, <2>3, <3>1
    <3> QED
      BY <2>4, <2>5, <3>2 DEF BornBound
  <2>7. Unborn'
    <3>1. born'[s] # 0
      BY <2>2, <2>3
    <3> QED
      BY <2>1, <3>1 DEF OrderInv, Unborn
  <2>8. AtPost'
    BY <1>1, <2>1 DEF Open, OrderInv, AtPost, TypeOK
  <2>9. Owned'
    BY <1>1, <2>1, OpenKeepsShares DEF OrderInv, Owned
  <2> QED
    BY <2>1, <2>6, <2>7, <2>8, <2>9 DEF OrderInv, Timely
<1>2. ASSUME Close(s) \/ ReadLoop(s) \/ \E len \in Payloads : Write(s, len)
      PROVE  OrderInv'
  <2>1. /\ pool' = pool /\ born' = born /\ recvd' = recvd /\ faults' = faults
        /\ pc' = pc /\ frames' = frames /\ wire' = wire /\ orphan' = orphan
    BY <1>2 DEF Close, ReadLoop, Write, taskVars, history
  <2>2. \A t \in Sid : t # s => sess'[t] = sess[t] /\ (t \in closed' <=> t \in closed)
    BY <1>2 DEF Close, ReadLoop, Write, TypeOK
  <2>3. born[s] = 0 => /\ s \notin closed'
                       /\ sess'[s].tx_q = <<>> /\ sess'[s].seq = 0
    <3> SUFFICES ASSUME born[s] = 0
                 PROVE  /\ s \notin closed'
                        /\ sess'[s].tx_q = <<>> /\ sess'[s].seq = 0
      OBVIOUS
    <3>1. ReadLoop(s)
      BY <1>2 DEF Close, Write, Opened
    <3>2. /\ closed' = closed /\ sess[s] \in Session
          /\ sess'[s] = [sess[s] EXCEPT !.rx_q = <<>>, !.rx_event = FALSE]
      BY <3>1 DEF ReadLoop, TypeOK
    <3> QED
      BY <3>2 DEF OrderInv, Unborn, Session
  <2>4. Unborn'
    BY <2>1, <2>2, <2>3 DEF OrderInv, Unborn
  <2> QED
    BY <2>1, <2>4, SameShares DEF OrderInv, AtPost, Owned, Timely
<1> QED
  BY <1>1, <1>2

LEMMA ReplyOrder ==
  ASSUME TypeOK, OrderInv, NEW w \in Worker,
         \/ \E R \in SUBSET Sid : ReplyOk(w, R)
         \/ ReplyGarbled(w) \/ ReplyBlank(w) \/ ReplyThrottled(w) \/ ReplyError(w) \/ Cancel(w)
  PROVE  OrderInv'
<1>1. /\ frames' = [frames EXCEPT ![w] = NoFrames]
      /\ \/ wire' = wire /\ wire[w] = NoFrames
         \/ wire' = [wire EXCEPT ![w] = NoFrames]
      /\ pc' = [pc EXCEPT ![w] = pc'[w]] /\ pc'[w] # "post"
      /\ born' = born /\ closed' = closed /\ recvd' = recvd /\ faults \subseteq faults'
      /\ pool' = pool \/ "moved" \in faults'
      /\ pool' \subseteq pool
      /\ orphan' = orphan \/ "late" \in faults'
  BY DEF ReplyOk, ReplyGarbled, ReplyBlank, ReplyThrottled, ReplyError, Cancel, Forget, Goto,
         poolVars, history, TypeOK
<1>2. /\ frames \in [Worker -> Batch] /\ wire \in [Worker -> Batch]
      /\ orphan \in [Worker -> Batch]
      /\ pc \in [Worker -> {"loop", "wait", "woken", "sleep", "post", "crashed", "stopped"}]
  BY DEF TypeOK
<1>3. \A v \in Worker : orphan'[v] = orphan[v] \/ orphan'[v] = wire[v]
  BY <1>2 DEF ReplyOk, ReplyGarbled, ReplyBlank, ReplyThrottled, ReplyError, Cancel, poolVars, history
<1>4. \A s \in Sid \ pool : sess'[s] = sess[s]
  <2>1. ASSUME NEW R \in SUBSET Sid, ReplyOk(w, R)
        PROVE  \A s \in Sid \ pool : sess'[s] = sess[s]
    BY <2>1 DEF ReplyOk, Dispatched
  <2> QED
    BY <2>1 DEF ReplyGarbled, ReplyBlank, ReplyThrottled, ReplyError, Cancel, poolVars
<1>5. Unborn'
  <2> SUFFICES ASSUME NEW s \in Sid, born[s] = 0
               PROVE  /\ s \notin pool' /\ s \notin closed
                      /\ sess'[s].tx_q = <<>> /\ sess'[s].seq = 0
                      /\ recvd[s] = <<>>
                      /\ \A v \in Worker : frames'[v][s] = <<>> /\ orphan'[v][s] = <<>>
    BY <1>1 DEF Unborn
  <2>1. /\ s \notin pool /\ s \notin closed /\ recvd[s] = <<>>
        /\ sess[s].tx_q = <<>> /\ sess[s].seq = 0
        /\ \A v \in Worker : frames[v][s] = <<>> /\ orphan[v][s] = <<>>
    BY DEF OrderInv, Unborn
  <2>2. \A v \in Worker : wire[v][s] = <<>>
    BY <2>1, EmptyBatch DEF OrderInv, AtPost
  <2>3. \A v \in Worker : frames'[v][s] = <<>> /\ orphan'[v][s] = <<>>
    BY <1>1, <1>2, <1>3, <2>1, <2>2, EmptyBatch
  <2> QED
    BY <1>1, <1>4, <2>1, <2>3
<1>6. BornBound'
  BY <1>1 DEF OrderInv, BornBound, Opened
<1>7. AtPost'
  BY <1>1, <1>2 DEF OrderInv, AtPost
<1>8. Owned'
  <2> SUFFICES ASSUME "moved" \notin faults', NEW v \in Worker, NEW s \in Sid,
                      frames'[v][s] # <<>>
               PROVE  Visits(v, s)'
    BY DEF Owned
  <2>1. pool' = pool /\ "moved" \notin faults
    BY <1>1
  <2>2. frames[v][s] # <<>>
    BY <1>1, <1>2, EmptyBatch
  <2> QED
    BY <1>1, <2>1, <2>2, SameShares DEF OrderInv, Owned
<1>9. Timely'
  BY <1>1 DEF OrderInv, Timely
<1> QED
  BY <1>5, <1>6, <1>7, <1>8, <1>9 DEF OrderInv

LEMMA DeliverOrder ==
  ASSUME TypeOK, OrderInv, NEW w \in Worker, Deliver(w) \/ DeliverLate(w)
  PROVE  OrderInv'
<1>1. /\ pool' = pool /\ born' = born /\ closed' = closed /\ sess' = sess
      /\ pc' = pc /\ frames' = frames /\ faults' = faults
  BY DEF Deliver, DeliverLate, poolVars
<1>2. /\ \A v \in Worker : wire'[v] = wire[v] \/ wire'[v] = NoFrames
      /\ \A v \in Worker : orphan'[v] = orphan[v] \/ orphan'[v] = NoFrames
  BY DEF Deliver, DeliverLate, TypeOK
<1>3. \A s \in Sid : \/ recvd'[s] = recvd[s] \o wire[w][s]
                     \/ recvd'[s] = recvd[s] \o orphan[w][s]
  BY DEF Deliver, DeliverLate
<1>4. Unborn'
  <2> SUFFICES ASSUME NEW s \in Sid, born[s] = 0
               PROVE  /\ s \notin pool /\ s \notin closed
                      /\ sess[s].tx_q = <<>> /\ sess[s].seq = 0
                      /\ recvd'[s] = <<>>
                      /\ \A v \in Worker : frames[v][s] = <<>> /\ orphan'[v][s] = <<>>
    BY <1>1 DEF Unborn
  <2>1. /\ s \notin pool /\ s \notin closed /\ recvd[s] = <<>>
        /\ sess[s].tx_q = <<>> /\ sess[s].seq = 0
        /\ \A v \in Worker : frames[v][s] = <<>> /\ orphan[v][s] = <<>>
    BY DEF OrderInv, Unborn
  <2>2. \A v \in Worker : wire[v][s] = <<>>
    BY <2>1, EmptyBatch DEF OrderInv, AtPost
  <2>3. \A v \in Worker : orphan'[v][s] = <<>>
    BY <1>2, <2>1, EmptyBatch
  <2>4. <<>> \o <<>> = <<>>
    OBVIOUS
  <2> QED
    BY <1>3, <2>1, <2>2, <2>3, <2>4
<1>5. AtPost'
  BY <1>1, <1>2 DEF OrderInv, AtPost
<1> QED
  BY <1>1, <1>2, <1>4, <1>5, SameShares DEF OrderInv, Owned, Timely

LEMMA StepOrder == TypeOK /\ OrderInv /\ [Next]_vars => OrderInv'
<1> SUFFICES ASSUME TypeOK, OrderInv, [Next]_vars PROVE OrderInv'
  OBVIOUS
<1>1. ASSUME UNCHANGED <<poolVars, pc, frames, wire, orphan, history>>
      PROVE  OrderInv'
  BY <1>1, SameShares DEF OrderInv, Unborn, AtPost, Owned, Timely, poolVars, history
<1>2. CASE UNCHANGED vars
  BY <1>1, <1>2 DEF vars, taskVars
<1>3. ASSUME NEW w \in Worker, Poll(w) \/ Notified(w)
      PROVE  OrderInv'
  BY <1>3, DrainOrder DEF Poll, Notified
<1>4. ASSUME NEW w \in Worker, PollIdle(w) \/ SleepDead(w) \/ WakeUp(w)
      PROVE  OrderInv'
  <2>1. UNCHANGED <<poolVars, frames, wire, orphan, history>>
    BY <1>4 DEF PollIdle, SleepDead, WakeUp
  <2>2. /\ pc' = [pc EXCEPT ![w] = pc'[w]] /\ pc[w] # "post"
    BY <1>4 DEF PollIdle, SleepDead, WakeUp, Goto, TypeOK
  <2>3. AtPost'
    BY <2>1, <2>2 DEF OrderInv, AtPost, TypeOK
  <2> QED
    BY <2>1, <2>3, SameShares DEF OrderInv, Unborn, Owned, Timely, poolVars, history
<1>5. CASE HealthTick \/ Watchdog \/ Stop \/ \E ep \in Endpoint : Revive(ep)
  BY <1>1, <1>5 DEF HealthTick, Watchdog, Stop, Revive, taskVars
<1> QED
  BY <1>2, <1>3, <1>4, <1>5, NextSplits, ConnOrder, ReplyOrder, DeliverOrder

LEMMA OrderKept == Spec => []OrderInv
BY InitOrder, StepOrder, TypeCorrect, PTL DEF Spec

(* With one endpoint, the position of a session names its worker.          *)
LEMMA SoleCarrier ==
  ASSUME TypeOK, OrderInv, OneEndpoint, "moved" \notin faults,
         NEW s \in Sid, NEW v \in Worker, NEW w \in Worker,
         frames[v][s] # <<>>, frames[w][s] # <<>>
  PROVE  v = w
<1>1. Visits(v, s) /\ Visits(w, s)
  BY DEF OrderInv, Owned
<1>2. v[2] = w[2] /\ v[1] = w[1]
  BY <1>1 DEF Visits, OneEndpoint, Worker
<1> QED
  BY <1>2 DEF Worker

(* No two workers of an endpoint ever carry frames of the same session,    *)
(* as long as no session has left the pool (_drain_all).                   *)
THEOREM SharesDisjoint == Spec => []OneCarrierPerSession
<1>1. TypeOK /\ OrderInv => OneCarrierPerSession
  BY SoleCarrier DEF OneCarrierPerSession
<1> QED
  BY <1>1, OrderKept, TypeCorrect, PTL
----------------------------------------------------------------------------
(* A session's line: what the server has read, what is on its way, and     *)
(* what waits.  On its way are the frames of a POST and those of one that  *)
(* its worker has given up.                                                *)
CarriedBy(wr, s) ==
    IF \E w \in Worker : wr[w][s] # <<>>
    THEN wr[CHOOSE w \in Worker : wr[w][s] # <<>>][s]
    ELSE <<>>

Load == [w \in Worker |-> [s \in Sid |-> IF wire[w][s] # <<>> THEN wire[w][s]
                                           ELSE orphan[w][s]]]

Line(s) == (recvd[s] \o CarriedBy(Load, s)) \o sess[s].tx_q

(* The highest place in its stream that the session has enqueued.          *)
Top(s) == IF s \in closed THEN MaxWrites + 1 ELSE sess[s].seq

LEMMA CarriedIs ==
  ASSUME NEW wr, NEW s \in Sid,
         \A v, w \in Worker : wr[v][s] # <<>> /\ wr[w][s] # <<>> => v = w
  PROVE  /\ \A w \in Worker : wr[w][s] # <<>> => CarriedBy(wr, s) = wr[w][s]
         /\ (\A w \in Worker : wr[w][s] = <<>>) => CarriedBy(wr, s) = <<>>
BY DEF CarriedBy

LEMMA CarriedSame ==
  ASSUME NEW wr, NEW wp, NEW s \in Sid, \A w \in Worker : wp[w][s] = wr[w][s]
  PROVE  CarriedBy(wp, s) = CarriedBy(wr, s)
BY DEF CarriedBy

LEMMA CarriedTyped ==
  ASSUME NEW wr, NEW s \in Sid, \A w \in Worker : wr[w][s] \in Seq(Frame)
  PROVE  CarriedBy(wr, s) \in Seq(Frame)
<1>1. CASE \E w \in Worker : wr[w][s] # <<>>
  <2> DEFINE v == CHOOSE w \in Worker : wr[w][s] # <<>>
  <2>1. v \in Worker
    BY <1>1
  <2> HIDE DEF v
  <2>2. wr[v][s] \in Seq(Frame)
    BY <2>1
  <2> QED
    BY <1>1, <2>2 DEF CarriedBy, v
<1> QED
  BY <1>1, EmptySeq DEF CarriedBy

(* Only one request at a time carries frames of s.                         *)
Alone(s) ==
    /\ \A w \in Worker : wire[w][s] = <<>> \/ orphan[w][s] = <<>>
    /\ \A v, w \in Worker : Load[v][s] # <<>> /\ Load[w][s] # <<>> => v = w

LEMMA LoadIs ==
  ASSUME NEW w \in Worker, NEW s \in Sid
  PROVE  /\ wire[w][s] # <<>> => Load[w][s] = wire[w][s]
         /\ wire[w][s] = <<>> => Load[w][s] = orphan[w][s]
BY DEF Load

LEMMA LoadIsNext ==
  ASSUME NEW w \in Worker, NEW s \in Sid
  PROVE  /\ wire'[w][s] # <<>> => Load'[w][s] = wire'[w][s]
         /\ wire'[w][s] = <<>> => Load'[w][s] = orphan'[w][s]
BY DEF Load

(* A session that no request carries more of than before stays alone.      *)
LEMMA StaysAlone ==
  ASSUME NEW s \in Sid, Alone(s),
         \A w \in Worker : \/ wire'[w][s] = wire[w][s] /\ orphan'[w][s] \in {orphan[w][s], <<>>}
                           \/ wire'[w][s] = <<>> /\ orphan'[w][s] \in {orphan[w][s], <<>>}
                           \/ wire'[w][s] = <<>> /\ orphan'[w][s] = wire[w][s]
  PROVE  Alone(s)'
<1>1. \A w \in Worker : wire'[w][s] = <<>> \/ orphan'[w][s] = <<>>
  BY DEF Alone
<1>2. \A w \in Worker : Load'[w][s] # <<>> => Load[w][s] # <<>>
  BY LoadIs, LoadIsNext DEF Alone
<1> QED
  BY <1>1, <1>2 DEF Alone

LEMMA LineTyped ==
  ASSUME TypeOK, NEW s \in Sid
  PROVE  /\ recvd[s] \in Seq(Frame) /\ sess[s].tx_q \in Seq(Frame)
         /\ CarriedBy(Load, s) \in Seq(Frame) /\ Line(s) \in Seq(Frame)
<1>1. \A w \in Worker : Load[w][s] \in Seq(Frame)
  BY LoadIs DEF TypeOK, Batch
<1>2. CarriedBy(Load, s) \in Seq(Frame)
  BY <1>1, CarriedTyped
<1> QED
  BY <1>2, ConcatProperties DEF TypeOK, Session, Line

(* A drain moves frames along the line.                                    *)
LEMMA DrainLine ==
  ASSUME TypeOK, OrderInv, NEW s \in Sid, Alone(s), s \notin raced',
         NEW w \in Worker, NEW idlePc, pc[w] # "post", DrainAndPost(w, idlePc)
  PROVE  Alone(s)' /\ ("torn" \notin faults' => Line(s)' = Line(s))
<1> DEFINE n == batch_size[w[1]]
           q == sess[s].tx_q
           snap == Snapshot(sess[s], n)
           d == Drained(w)[s]
<1>1. /\ wire' = [wire EXCEPT ![w] = Drained(w)] /\ wire \in [Worker -> Batch]
      /\ orphan' = orphan /\ sess'[s] = AfterDrain(w, s) /\ recvd' = recvd
      /\ "torn" \notin faults' /\ Overflows(w, s) => d = <<>>
  BY DEF DrainAndPost, TypeOK, Torn
<1>2. wire[w] = NoFrames
  BY DEF OrderInv, AtPost
<1>3. Line(s)' = (recvd[s] \o CarriedBy(Load', s)) \o sess'[s].tx_q
  BY <1>1 DEF Line, CarriedBy
<1>4. ASSUME d = <<>>
      PROVE  Alone(s)' /\ CarriedBy(Load', s) = CarriedBy(Load, s)
  <2>1. \A v \in Worker : wire'[v][s] = wire[v][s] /\ orphan'[v][s] = orphan[v][s]
    BY <1>1, <1>2, <1>4, EmptyBatch
  <2>2. \A v \in Worker : Load'[v][s] = Load[v][s]
    BY <2>1, LoadIs, LoadIsNext
  <2> QED
    BY <2>1, <2>2, CarriedSame, StaysAlone
<1>5. ASSUME d # <<>>
      PROVE  /\ Alone(s)'
             /\ CarriedBy(Load, s) = <<>> /\ CarriedBy(Load', s) = d
  <2>1. ~Underway(s)
    BY <1>5 DEF DrainAndPost
  <2>2. \A v \in Worker : wire[v][s] = <<>> /\ orphan[v][s] = <<>>
    BY <2>1 DEF Underway
  <2>3. \A v \in Worker : Load[v][s] = <<>>
    BY <2>2, LoadIs
  <2>4. \A v \in Worker : /\ wire'[v][s] = IF v = w THEN d ELSE <<>>
                          /\ orphan'[v][s] = <<>>
    BY <1>1, <2>2
  <2>5. \A v \in Worker : Load'[v][s] = IF v = w THEN d ELSE <<>>
    BY <2>4, LoadIsNext
  <2> HIDE DEF d
  <2>6. CarriedBy(Load, s) = <<>> /\ CarriedBy(Load', s) = d
    BY <1>5, <2>3, <2>5, CarriedIs
  <2> QED
    BY <2>4, <2>5, <2>6 DEF Alone
<1>6. ASSUME "torn" \notin faults', sess'[s].tx_q = q, d = <<>>
      PROVE  Line(s)' = Line(s)
  BY <1>3, <1>4, <1>6 DEF Line
<1>7. ASSUME "torn" \notin faults', Visits(w, s), ~Overflows(w, s)
      PROVE  Line(s)' = Line(s)
  <2>1. d = snap /\ sess'[s].tx_q = Undrained(sess[s], n)
    BY <1>1, <1>7, DrainFacts
  <2>2. /\ snap \in Seq(Frame) /\ Undrained(sess[s], n) \in Seq(Frame)
        /\ snap \o Undrained(sess[s], n) = q
    <3>1. n \in Nat /\ sess[s] \in Session
      BY CarrierAssumption DEF TypeOK, Worker
    <3> QED
      BY <3>1, DrainSplits
  <2>3. CASE snap = <<>>
    <3>1. sess'[s].tx_q = q
      BY <2>1, <2>2, <2>3, ConcatEmptySeq
    <3> QED
      BY <1>6, <1>7, <2>1, <2>3, <3>1
  <2>4. CASE snap # <<>>
    <3>1. CarriedBy(Load, s) = <<>> /\ CarriedBy(Load', s) = snap
      BY <1>5, <2>1, <2>4
    <3> HIDE DEF n, q, snap, d
    <3>2. recvd[s] \in Seq(Frame) /\ recvd[s] \o <<>> = recvd[s]
      BY LineTyped, ConcatEmptySeq
    <3>3. (recvd[s] \o snap) \o Undrained(sess[s], n) = recvd[s] \o q
      BY <2>2, <3>2, Associative
    <3> QED
      BY <1>3, <2>1, <3>1, <3>2, <3>3 DEF Line, q
  <2> QED
    BY <2>3, <2>4
<1>8. "torn" \notin faults' => Line(s)' = Line(s)
  BY <1>1, <1>6, <1>7, DrainFacts
<1> QED
  BY <1>4, <1>5, <1>8

(* So does a delivery.                                                     *)
LEMMA DeliverLine ==
  ASSUME TypeOK, NEW s \in Sid, Alone(s), NEW w \in Worker, Deliver(w) \/ DeliverLate(w)
  PROVE  Alone(s)' /\ Line(s)' = Line(s)
<1>1. /\ sess' = sess /\ wire \in [Worker -> Batch] /\ orphan \in [Worker -> Batch]
      /\ \/ /\ wire' = [wire EXCEPT ![w] = NoFrames] /\ orphan' = orphan
            /\ recvd'[s] = recvd[s] \o wire[w][s]
         \/ /\ orphan' = [orphan EXCEPT ![w] = NoFrames] /\ wire' = wire
            /\ recvd'[s] = recvd[s] \o orphan[w][s]
  BY DEF Deliver, DeliverLate, TypeOK, poolVars
<1>2. Line(s)' = (recvd'[s] \o CarriedBy(Load', s)) \o sess[s].tx_q
  BY <1>1 DEF Line, CarriedBy
<1>3. PICK c : /\ recvd'[s] = recvd[s] \o c
               /\ \/ c = wire[w][s] /\ wire'[w][s] = <<>> /\ orphan'[w][s] = orphan[w][s]
                  \/ c = orphan[w][s] /\ orphan'[w][s] = <<>> /\ wire'[w][s] = wire[w][s]
  BY <1>1, EmptyBatch
<1>4. recvd[s] \in Seq(Frame) /\ c \in Seq(Frame)
  BY <1>3 DEF TypeOK, Batch
<1>5. \A v \in Worker : v # w => wire'[v][s] = wire[v][s] /\ orphan'[v][s] = orphan[v][s]
  BY <1>1
<1>6. Alone(s)'
  BY <1>3, <1>5, StaysAlone
<1>7. recvd[s] \o <<>> = recvd[s] /\ recvd'[s] \o <<>> = recvd'[s]
  BY <1>3, <1>4, ConcatEmptySeq, ConcatProperties
<1>8. CASE c = <<>>
  <2>1. \A v \in Worker : Load'[v][s] = Load[v][s]
    BY <1>3, <1>5, <1>8, LoadIs, LoadIsNext
  <2>2. CarriedBy(Load', s) = CarriedBy(Load, s)
    BY <2>1, CarriedSame
  <2>3. recvd'[s] = recvd[s]
    BY <1>3, <1>7, <1>8
  <2> QED
    BY <1>2, <1>6, <2>2, <2>3 DEF Line
<1>9. CASE c # <<>>
  <2>1. Load[w][s] = c /\ Load'[w][s] = <<>>
    BY <1>3, <1>9, LoadIs, LoadIsNext DEF Alone
  <2>2. \A v \in Worker : Load'[v][s] = <<>>
    BY <1>5, <1>9, <2>1, LoadIs, LoadIsNext DEF Alone
  <2>3. CarriedBy(Load', s) = <<>> /\ CarriedBy(Load, s) = c
    BY <1>9, <2>1, <2>2, CarriedIs DEF Alone
  <2> QED
    BY <1>2, <1>3, <1>6, <1>7, <2>3 DEF Line
<1> QED
  BY <1>8, <1>9

LEMMA Ranks ==
  ASSUME NEW s \in Sid
  PROVE  /\ Rank(Syn(s)) = 0 /\ Rank(Fin(s)) = MaxWrites + 1
         /\ \A n \in Nat, len \in Nat : Rank(Data(s, n, len)) = n + 1
BY DEF Rank, Syn, Fin, Data

LEMMA LineAppends ==
  ASSUME NEW r \in Seq(Frame), NEW c \in Seq(Frame), NEW q \in Seq(Frame), NEW f \in Frame
  PROVE  (r \o c) \o Append(q, f) = Append((r \o c) \o q, f)
<1>1. r \o c \in Seq(Frame) /\ (r \o c) \o q \in Seq(Frame) /\ <<f>> \in Seq(Frame)
  BY ConcatProperties
<1>2. Append(q, f) = q \o <<f>> /\ Append((r \o c) \o q, f) = ((r \o c) \o q) \o <<f>>
  BY <1>1, AppendIsConcat
<1>3. \A x \in Seq(Frame) : (x \o q) \o <<f>> = x \o (q \o <<f>>)
  BY <1>1, Associative
<1> QED
  BY <1>1, <1>2, <1>3

(* A frame joins the line at its end, above everything before it.          *)
Joins(s) ==
    \E f \in Frame : /\ Line(s)' = Append(Line(s), f)
                     /\ sent'[s] = Append(sent[s], f)
                     /\ Rank(f) <= Top(s)'
                     /\ Line(s) = <<>> \/ Top(s) < Rank(f)

SeqBound == \A s \in Sid : sess[s].seq <= MaxWrites

LEMMA ConnLine ==
  ASSUME TypeOK, OrderInv, SeqBound, NEW s \in Sid, NEW t \in Sid,
         Open(t) \/ Close(t) \/ ReadLoop(t) \/ \E len \in Payloads : Write(t, len)
  PROVE  \/ Line(s)' = Line(s) /\ sent'[s] = sent[s] /\ Top(s)' = Top(s)
         \/ Joins(s)
<1>1. wire' = wire /\ orphan' = orphan /\ recvd' = recvd
  BY DEF Open, Close, ReadLoop, Write, taskVars, history
<1>11. Load' = Load
  BY <1>1 DEF Load
<1>2. Line(s)' = (recvd[s] \o CarriedBy(Load, s)) \o sess'[s].tx_q
  BY <1>1, <1>11 DEF Line, CarriedBy
<1>3. ASSUME s # t
      PROVE  Line(s)' = Line(s) /\ sent'[s] = sent[s] /\ Top(s)' = Top(s)
  <2>1. sess'[s] = sess[s] /\ sent'[s] = sent[s] /\ (s \in closed' <=> s \in closed)
    BY <1>3 DEF Open, Close, ReadLoop, Write, history, TypeOK
  <2> QED
    BY <1>2, <2>1 DEF Line, Top
<1>4. /\ sess[s] \in Session /\ sess \in [Sid -> Session] /\ sent \in [Sid -> Seq(Frame)]
      /\ sess[s].tx_q \in Seq(Frame) /\ sess[s].seq \in Nat /\ sess[s].seq <= MaxWrites
      /\ MaxWrites \in Nat
  BY CarrierAssumption DEF TypeOK, Session, SeqBound
<1>5. ASSUME NEW f \in Frame, sess'[s].tx_q = Append(sess[s].tx_q, f)
      PROVE  Line(s)' = Append(Line(s), f)
  <2> DEFINE c == CarriedBy(Load, s)
             q == sess[s].tx_q
  <2>1. recvd[s] \in Seq(Frame) /\ c \in Seq(Frame) /\ q \in Seq(Frame)
    BY LineTyped
  <2>2. Line(s) = (recvd[s] \o c) \o q /\ Line(s)' = (recvd[s] \o c) \o Append(q, f)
    BY <1>2, <1>5 DEF Line
  <2> HIDE DEF c, q
  <2>3. (recvd[s] \o c) \o Append(q, f) = Append((recvd[s] \o c) \o q, f)
    BY <2>1, LineAppends
  <2> QED
    BY <2>2, <2>3
<1>6. CASE s = t /\ ReadLoop(t)
  <2>1. /\ sess'[s] = [sess[s] EXCEPT !.rx_q = <<>>, !.rx_event = FALSE]
        /\ sent' = sent /\ closed' = closed
    BY <1>4, <1>6 DEF ReadLoop, history
  <2>2. sess'[s].tx_q = sess[s].tx_q /\ sess'[s].seq = sess[s].seq
    BY <1>4, <2>1 DEF Session
  <2> QED
    BY <1>2, <2>1, <2>2 DEF Line, Top
<1>7. CASE s = t /\ Open(t)
  <2>1. /\ sess'[s] = EnqueueTx(NewSession, Syn(s)) /\ sent'[s] = Append(sent[s], Syn(s))
        /\ closed' = closed /\ born[s] = 0
    BY <1>4, <1>7 DEF Open, Opened
  <2>2. /\ sess[s].tx_q = <<>> /\ recvd[s] = <<>> /\ s \notin closed
        /\ \A w \in Worker : wire[w][s] = <<>> /\ orphan[w][s] = <<>>
    BY <2>1, EmptyBatch DEF OrderInv, Unborn, AtPost
  <2>3. CarriedBy(Load, s) = <<>>
    BY <2>2, LoadIs, CarriedIs
  <2>4. Line(s) = <<>>
    BY <2>2, <2>3 DEF Line
  <2>5. sess'[s].tx_q = Append(sess[s].tx_q, Syn(s)) /\ sess'[s].seq = 0
    BY <2>1, <2>2 DEF EnqueueTx, NewSession
  <2>6. Rank(Syn(s)) <= Top(s)'
    BY <2>1, <2>2, <2>5, Ranks DEF Top
  <2> QED
    BY <1>5, <2>1, <2>4, <2>5, <2>6, FramesTyped DEF Joins
<1>8. CASE s = t /\ Close(t)
  <2>1. /\ sent'[s] = Append(sent[s], Fin(s)) /\ s \notin closed /\ s \in closed'
        /\ sess'[s].tx_q = EnqueueTx(sess[s], Fin(s)).tx_q
    BY <1>4, <1>8, ClosedSession DEF Close
  <2>2. sess'[s].tx_q = Append(sess[s].tx_q, Fin(s))
    BY <1>4, <2>1, FramesTyped, EnqueueTxAccounted
  <2>3. Rank(Fin(s)) <= Top(s)' /\ Top(s) < Rank(Fin(s))
    <3>1. Rank(Fin(s)) = MaxWrites + 1
      BY Ranks
    <3>2. Top(s)' = MaxWrites + 1 /\ Top(s) = sess[s].seq
      BY <2>1 DEF Top
    <3> QED
      BY <1>4, <3>1, <3>2
  <2> QED
    BY <1>5, <2>1, <2>2, <2>3, FramesTyped DEF Joins
<1>9. ASSUME NEW len \in Payloads, s = t, Write(t, len)
      PROVE  Joins(s)
  <2> DEFINE f == Data(s, sess[s].seq, len)
  <2>1. /\ sess'[s] = [EnqueueTx(sess[s], f) EXCEPT !.seq = sess[s].seq + 1]
        /\ sent'[s] = Append(sent[s], f) /\ closed' = closed /\ s \notin closed
    BY <1>4, <1>9 DEF Write
  <2>2. len \in 0..MaxPayload /\ f \in Frame
    BY <1>4, FramesTyped, CarrierAssumption
  <2>3. Rank(f) = sess[s].seq + 1
    <3>1. sess[s].seq \in Nat /\ len \in Nat
      BY <1>4, <2>2, SizesAssumption
    <3> QED
      BY <3>1, Ranks, Zenon
  <2> HIDE DEF f
  <2>4. sess'[s].tx_q = Append(sess[s].tx_q, f) /\ sess'[s].seq = sess[s].seq + 1
    BY <1>4, <2>1 DEF EnqueueTx, Session
  <2>5. Rank(f) <= Top(s)' /\ Top(s) < Rank(f)
    BY <1>4, <2>1, <2>3, <2>4 DEF Top
  <2> QED
    BY <1>5, <2>1, <2>2, <2>4, <2>5 DEF Joins
<1> QED
  BY <1>3, <1>6, <1>7, <1>8, <1>9

(* The batch that carried s is lost: the line closes up behind it.         *)
Loses(s) == /\ "lost" \in faults'
            /\ Line(s)' = recvd[s] \o sess[s].tx_q
            /\ sent'[s] = sent[s] /\ Top(s)' = Top(s)

Keeps(s) == Line(s)' = Line(s) /\ sent'[s] = sent[s] /\ Top(s)' = Top(s)

(* A request that is given up on its way stays on the line.                *)
LEMMA ReplyLine ==
  ASSUME TypeOK, NEW s \in Sid, Alone(s), NEW w \in Worker,
         \/ \E R \in SUBSET Sid : ReplyOk(w, R)
         \/ ReplyGarbled(w) \/ ReplyBlank(w) \/ ReplyThrottled(w) \/ ReplyError(w) \/ Cancel(w)
  PROVE  Alone(s)' /\ (Keeps(s) \/ Loses(s))
<1>1. sess'[s].tx_q = sess[s].tx_q /\ sess'[s].seq = sess[s].seq
  <2>1. sess[s] \in Session
    BY DEF TypeOK
  <2>2. ASSUME NEW R \in SUBSET Sid, ReplyOk(w, R)
        PROVE  sess'[s].tx_q = sess[s].tx_q /\ sess'[s].seq = sess[s].seq
    BY <2>1, <2>2 DEF ReplyOk, Dispatched, EnqueueRx, Session
  <2> QED
    BY <2>2 DEF ReplyGarbled, ReplyBlank, ReplyThrottled, ReplyError, Cancel, poolVars
<1>2. sent' = sent /\ recvd' = recvd /\ closed' = closed
  BY DEF ReplyOk, ReplyGarbled, ReplyBlank, ReplyThrottled, ReplyError, Cancel, poolVars, history
<1>3. Top(s)' = Top(s)
  BY <1>1, <1>2 DEF Top
<1>4. Line(s)' = (recvd[s] \o CarriedBy(Load', s)) \o sess[s].tx_q
  BY <1>1, <1>2 DEF Line, CarriedBy
<1>5. \/ wire' = wire /\ orphan' = orphan
      \/ /\ wire' = [wire EXCEPT ![w] = NoFrames]
         /\ \/ orphan' = orphan /\ (wire[w] = NoFrames \/ "lost" \in faults')
            \/ orphan' = [orphan EXCEPT ![w] = wire[w]] /\ orphan[w] = NoFrames
  BY DEF ReplyOk, ReplyGarbled, ReplyBlank, ReplyThrottled, ReplyError, Cancel, Forget, LossOf
<1>6. wire \in [Worker -> Batch] /\ orphan \in [Worker -> Batch]
  BY DEF TypeOK
<1>7. \A v \in Worker : v # w => wire'[v][s] = wire[v][s] /\ orphan'[v][s] = orphan[v][s]
  BY <1>5, <1>6
<1>8. \/ wire'[w][s] = wire[w][s] /\ orphan'[w][s] = orphan[w][s]
      \/ /\ wire'[w][s] = <<>> /\ orphan'[w][s] = orphan[w][s]
         /\ wire[w][s] # <<>> /\ "lost" \in faults'
      \/ wire'[w][s] = <<>> /\ orphan'[w][s] = wire[w][s] /\ orphan[w][s] = <<>>
  BY <1>5, <1>6, EmptyBatch
<1>9. Alone(s)'
  BY <1>7, <1>8, StaysAlone
<1>10. CASE Load'[w][s] = Load[w][s]
  <2>1. \A v \in Worker : Load'[v][s] = Load[v][s]
    BY <1>7, <1>10, LoadIs, LoadIsNext
  <2> QED
    BY <1>2, <1>3, <1>4, <1>9, <2>1, CarriedSame DEF Keeps, Line
<1>11. CASE Load'[w][s] # Load[w][s]
  <2>1. wire[w][s] # <<>> /\ wire'[w][s] = <<>> /\ orphan'[w][s] = orphan[w][s] /\ "lost" \in faults'
    BY <1>8, <1>11, LoadIs, LoadIsNext
  <2>2. Load[w][s] # <<>> /\ Load'[w][s] = <<>>
    BY <2>1, LoadIs, LoadIsNext DEF Alone
  <2>3. \A v \in Worker : Load'[v][s] = <<>>
    BY <1>7, <2>2, LoadIs, LoadIsNext DEF Alone
  <2>4. CarriedBy(Load', s) = <<>>
    BY <2>3, CarriedIs
  <2>5. recvd[s] \o <<>> = recvd[s]
    BY LineTyped, ConcatEmptySeq
  <2> QED
    BY <1>2, <1>3, <1>4, <1>9, <2>1, <2>4, <2>5 DEF Loses
<1> QED
  BY <1>10, <1>11

LEMMA LineStep ==
  ASSUME TypeOK, OrderInv, SeqBound, NEW s \in Sid, Alone(s), s \notin raced', [Next]_vars
  PROVE  Alone(s)' /\ ("torn" \notin faults' => Keeps(s) \/ Joins(s) \/ Loses(s))
<1>1. ASSUME wire' = wire, orphan' = orphan
      PROVE  Alone(s)' /\ Load' = Load
  BY <1>1 DEF Alone, Load
<1>2. ASSUME wire' = wire, orphan' = orphan, recvd' = recvd, sess' = sess, sent' = sent,
             closed' = closed
      PROVE  Alone(s)' /\ Keeps(s)
  BY <1>1, <1>2 DEF Keeps, Line, CarriedBy, Top
<1>3. CASE UNCHANGED vars
  BY <1>2, <1>3 DEF vars, poolVars, taskVars, history
<1>4. ASSUME NEW t \in Sid,
             Open(t) \/ Close(t) \/ ReadLoop(t) \/ \E len \in Payloads : Write(t, len)
      PROVE  Alone(s)' /\ (Keeps(s) \/ Joins(s))
  <2>1. wire' = wire /\ orphan' = orphan
    BY <1>4 DEF Open, Close, ReadLoop, Write, taskVars
  <2> QED
    BY <1>1, <1>4, <2>1, ConnLine DEF Keeps
<1>5. ASSUME NEW w \in Worker, NEW idlePc \in {"wait", "loop"}, pc[w] # "post",
             DrainAndPost(w, idlePc)
      PROVE  Alone(s)' /\ ("torn" \notin faults' => Keeps(s))
  <2>1. Alone(s)' /\ ("torn" \notin faults' => Line(s)' = Line(s))
    BY <1>5, DrainLine
  <2>2. sent' = sent /\ closed' = closed /\ sess'[s].seq = sess[s].seq
    BY <1>5, SeqKept DEF DrainAndPost
  <2> QED
    BY <2>1, <2>2 DEF Keeps, Top
<1>6. ASSUME NEW w \in Worker, Poll(w) \/ Notified(w)
      PROVE  Alone(s)' /\ ("torn" \notin faults' => Keeps(s))
  BY <1>5, <1>6 DEF Poll, Notified
<1>7. ASSUME NEW w \in Worker, PollIdle(w) \/ SleepDead(w) \/ WakeUp(w)
      PROVE  Alone(s)' /\ Keeps(s)
  BY <1>2, <1>7 DEF PollIdle, SleepDead, WakeUp, poolVars, history
<1>8. ASSUME NEW w \in Worker, Deliver(w) \/ DeliverLate(w)
      PROVE  Alone(s)' /\ Keeps(s)
  <2>1. sent' = sent /\ closed' = closed /\ sess' = sess
    BY <1>8 DEF Deliver, DeliverLate, poolVars
  <2> QED
    BY <1>8, <2>1, DeliverLine DEF Keeps, Top
<1>9. CASE HealthTick \/ Watchdog \/ Stop \/ \E ep \in Endpoint : Revive(ep)
  BY <1>2, <1>9 DEF HealthTick, Watchdog, Stop, Revive, poolVars, taskVars, history
<1>10. ASSUME NEW w \in Worker,
              \/ \E R \in SUBSET Sid : ReplyOk(w, R)
              \/ ReplyGarbled(w) \/ ReplyBlank(w) \/ ReplyThrottled(w) \/ ReplyError(w)
              \/ Cancel(w)
       PROVE  Alone(s)' /\ (Keeps(s) \/ Loses(s))
  BY <1>10, ReplyLine
<1> QED
  BY <1>3, <1>4, <1>6, <1>7, <1>8, <1>9, <1>10, NextSplits

LEMMA HistoryGrows == [Next]_vars => faults \subseteq faults' /\ raced \subseteq raced'
<1> SUFFICES ASSUME [Next]_vars PROVE faults \subseteq faults' /\ raced \subseteq raced'
  OBVIOUS
<1>1. ASSUME NEW w \in Worker, NEW idlePc, DrainAndPost(w, idlePc)
      PROVE  faults \subseteq faults' /\ raced \subseteq raced'
  BY <1>1 DEF DrainAndPost
<1>2. CASE UNCHANGED vars
  BY <1>2 DEF vars, history
<1> QED
  BY <1>1, <1>2, NextSplits
  DEF Open, Close, ReadLoop, Write, Poll, Notified, PollIdle, SleepDead, WakeUp, ReplyOk,
      ReplyGarbled, ReplyBlank, ReplyThrottled, ReplyError, Cancel, Deliver, DeliverLate, Revive,
      HealthTick, Watchdog, Stop, history

LEMMA SeqOfEnqueued ==
  ASSUME NEW d \in Session, NEW f \in Frame
  PROVE  /\ EnqueueTx(d, f).seq = d.seq /\ EnqueueRx(d, f).seq = d.seq
         /\ EnqueueTx(d, f) \in Session
         /\ [EnqueueTx(d, f) EXCEPT !.rx_event = TRUE].seq = d.seq
         /\ [d EXCEPT !.rx_q = <<>>, !.rx_event = FALSE].seq = d.seq
<1>1. EnqueueTx(d, f) \in Session
  BY EnqueueTxAccounted
<1>2. EnqueueTx(d, f).seq = d.seq /\ EnqueueRx(d, f).seq = d.seq
  BY DEF EnqueueTx, EnqueueRx, Session
<1> QED
  BY <1>1, <1>2 DEF Session

LEMMA SeqBounded == Spec => []SeqBound
<1>1. Init => SeqBound
  BY CarrierAssumption DEF Init, SeqBound, NewSession
<1>2. ASSUME TypeOK, SeqBound, [Next]_vars
      PROVE  SeqBound'
  <2> SUFFICES ASSUME NEW s \in Sid
               PROVE  sess'[s].seq <= MaxWrites
    BY DEF SeqBound
  <2>1. /\ sess[s] \in Session /\ sess \in [Sid -> Session]
        /\ sess[s].seq \in Nat /\ sess[s].seq <= MaxWrites /\ MaxWrites \in Nat
    BY <1>2, CarrierAssumption DEF TypeOK, Session, SeqBound
  <2>2. CASE sess' = sess
    BY <2>1, <2>2
  <2>3. ASSUME NEW t \in Sid, Open(t)
        PROVE  sess'[s].seq <= MaxWrites
    <3>1. sess'[s] = sess[s] \/ sess'[s] = EnqueueTx(NewSession, Syn(t))
      BY <2>1, <2>3 DEF Open
    <3>2. EnqueueTx(NewSession, Syn(t)).seq = 0
      <4>1. NewSession \in Session /\ Syn(t) \in Frame
        BY NewSessionAccounted, FramesTyped
      <4>2. EnqueueTx(NewSession, Syn(t)).seq = NewSession.seq
        BY <4>1, SeqOfEnqueued
      <4> QED
        BY <4>2 DEF NewSession
    <3> QED
      BY <2>1, <3>1, <3>2
  <2>4. ASSUME NEW t \in Sid, ReadLoop(t)
        PROVE  sess'[s].seq <= MaxWrites
    <3>1. \/ sess'[s] = sess[s]
          \/ sess'[s] = [sess[s] EXCEPT !.rx_q = <<>>, !.rx_event = FALSE]
      BY <2>1, <2>4 DEF ReadLoop
    <3>2. [sess[s] EXCEPT !.rx_q = <<>>, !.rx_event = FALSE].seq = sess[s].seq
      BY <2>1, FramesTyped, SeqOfEnqueued
    <3> QED
      BY <2>1, <3>1, <3>2
  <2>5. ASSUME NEW t \in Sid, NEW len \in Payloads, Write(t, len)
        PROVE  sess'[s].seq <= MaxWrites
    <3> DEFINE e == EnqueueTx(sess[s], Data(s, sess[s].seq, len))
    <3>1. \/ sess'[s] = sess[s]
          \/ sess'[s] = [e EXCEPT !.seq = sess[s].seq + 1] /\ sess[s].seq < MaxWrites
      BY <2>1, <2>5 DEF Write
    <3>2. Data(s, sess[s].seq, len) \in Frame
      BY <2>1, FramesTyped, CarrierAssumption
    <3>3. e \in Session
      BY <2>1, <3>2, SeqOfEnqueued
    <3> HIDE DEF e
    <3>4. CASE sess'[s] = [e EXCEPT !.seq = sess[s].seq + 1] /\ sess[s].seq < MaxWrites
      <4>1. sess'[s].seq = sess[s].seq + 1
        BY <3>3, <3>4 DEF Session
      <4> QED
        BY <2>1, <3>4, <4>1
    <3> QED
      BY <2>1, <3>1, <3>4
  <2>6. ASSUME NEW w \in Worker, NEW idlePc, DrainAndPost(w, idlePc)
        PROVE  sess'[s].seq <= MaxWrites
    BY <1>2, <2>1, <2>6, SeqKept DEF DrainAndPost
  <2>7. ASSUME NEW w \in Worker, NEW R \in SUBSET Sid, ReplyOk(w, R)
        PROVE  sess'[s].seq <= MaxWrites
    BY <2>1, <2>7 DEF ReplyOk, Dispatched, EnqueueRx, Session
  <2>8. CASE UNCHANGED vars
    BY <2>2, <2>8 DEF vars, poolVars
  <2>10. ASSUME NEW t \in Sid, Close(t)
        PROVE  sess'[s].seq <= MaxWrites
    <3>1. TypeOK
      BY <1>2
    <3>2. sess'[t].seq = EnqueueTx(sess[t], Fin(t)).seq
      BY <2>10, <3>1, ClosedSession
    <3>3. sess[t] \in Session /\ Fin(t) \in Frame
      BY <2>1, FramesTyped
    <3>4. EnqueueTx(sess[t], Fin(t)).seq = sess[t].seq
      BY <3>3, SeqOfEnqueued
    <3>5. CASE s = t
      BY <2>1, <3>2, <3>4, <3>5
    <3>6. CASE s # t
      BY <2>1, <2>10, <3>6 DEF Close
    <3> QED
      BY <3>5, <3>6
  <2>9. CASE Next
    <3>1. CASE \E w \in Worker :
                  \/ PollIdle(w) \/ SleepDead(w) \/ WakeUp(w)
                  \/ ReplyGarbled(w) \/ ReplyBlank(w) \/ ReplyThrottled(w) \/ ReplyError(w)
                  \/ Cancel(w) \/ Deliver(w) \/ DeliverLate(w)
      BY <2>2, <3>1 DEF PollIdle, SleepDead, WakeUp, ReplyGarbled, ReplyBlank, ReplyThrottled,
                        ReplyError, Cancel, Deliver, DeliverLate, poolVars
    <3>2. CASE HealthTick \/ Watchdog \/ Stop \/ \E ep \in Endpoint : Revive(ep)
      BY <2>2, <3>2 DEF HealthTick, Watchdog, Stop, Revive, poolVars
    <3>3. ASSUME NEW w \in Worker, Poll(w) \/ Notified(w)
          PROVE  sess'[s].seq <= MaxWrites
      BY <2>6, <3>3 DEF Poll, Notified
    <3> QED
      BY <2>3, <2>4, <2>5, <2>10, <2>7, <2>9, <3>1, <3>2, <3>3, NextSplits
  <2> QED
    BY <1>2, <2>8, <2>9
<1> QED
  BY <1>1, <1>2, TypeCorrect, PTL DEF Spec
----------------------------------------------------------------------------
(* With losses, the line is still in order: what is lost leaves a gap, and *)
(* what joins it is above all of it.                                       *)
Ranked(q, top) ==
    /\ \A i, j \in 1..Len(q) : i < j => Rank(q[i]) < Rank(q[j])
    /\ \A i \in 1..Len(q) : Rank(q[i]) <= top

LEMMA RankType == \A f \in Frame : Rank(f) \in Nat
BY CarrierAssumption DEF Rank, Frame

LEMMA RankedAppend ==
  ASSUME NEW q \in Seq(Frame), NEW f \in Frame, NEW top \in Nat, NEW up \in Nat,
         Ranked(q, top), Rank(f) <= up, q = <<>> \/ top < Rank(f)
  PROVE  Ranked(Append(q, f), up)
<1> DEFINE a == Append(q, f)
           n == Len(q)
<1>1. /\ Len(a) = n + 1 /\ a[n + 1] = f /\ n \in Nat
      /\ \A i \in 1..n : a[i] = q[i] /\ q[i] \in Frame
      /\ q = <<>> => n = 0
  BY AppendProperties
<1>2. /\ \A i, j \in 1..n : i < j => Rank(q[i]) < Rank(q[j])
      /\ \A i \in 1..n : Rank(q[i]) <= top /\ Rank(q[i]) \in Nat
      /\ Rank(f) \in Nat
  BY <1>1, RankType DEF Ranked
<1> HIDE DEF a, n
<1>3. \A i \in 1..n : Rank(a[i]) < Rank(f) /\ Rank(a[i]) <= up
  BY <1>1, <1>2
<1>4. \A i, j \in 1..(n + 1) : i < j => Rank(a[i]) < Rank(a[j])
  BY <1>1, <1>2, <1>3
<1>5. \A i \in 1..(n + 1) : Rank(a[i]) <= up
  BY <1>1, <1>3
<1>6. Ranked(a, up)
  BY <1>1, <1>4, <1>5 DEF Ranked
<1> QED
  BY <1>6 DEF a

LEMMA RankedWithout ==
  ASSUME NEW r \in Seq(Frame), NEW c \in Seq(Frame), NEW q \in Seq(Frame), NEW top \in Nat,
         Ranked((r \o c) \o q, top)
  PROVE  Ranked(r \o q, top)
<1> DEFINE x == (r \o c) \o q
           y == r \o q
           k == Len(r)
           m == Len(c)
           n == Len(q)
<1>1. k \in Nat /\ m \in Nat /\ n \in Nat
  OBVIOUS
<1>2. Len(x) = (k + m) + n /\ Len(y) = k + n
  BY ConcatProperties
<1>3. \A i \in 1..k : x[i] = y[i]
  <2>1. \A i \in 1..k : (r \o c)[i] = r[i] /\ y[i] = r[i]
    BY ConcatProperties
  <2>2. \A i \in 1..(k + m) : x[i] = (r \o c)[i]
    BY ConcatProperties
  <2> HIDE DEF x, y, k, m, n
  <2>3. \A i \in 1..k : i \in 1..(k + m)
    BY <1>1
  <2> QED
    BY <2>1, <2>2, <2>3
<1>4. \A i \in 1..n : x[(k + m) + i] = y[k + i]
  <2>1. \A i \in 1..n : y[k + i] = q[i]
    BY ConcatProperties
  <2>2. r \o c \in Seq(Frame) /\ Len(r \o c) = k + m
    BY ConcatProperties
  <2>3. \A i \in 1..n : x[(k + m) + i] = q[i]
    BY <2>2, ConcatProperties
  <2> QED
    BY <2>1, <2>3
<1> HIDE DEF x, y, k, m, n
<1> DEFINE at(i) == IF i <= k THEN i ELSE i + m
<1>5. \A i \in 1..(k + n) : at(i) \in 1..((k + m) + n) /\ y[i] = x[at(i)]
  <2> SUFFICES ASSUME NEW i \in 1..(k + n)
               PROVE  at(i) \in 1..((k + m) + n) /\ y[i] = x[at(i)]
    OBVIOUS
  <2>1. CASE i <= k
    BY <1>1, <1>3, <2>1
  <2>2. CASE i > k
    <3>1. i - k \in 1..n /\ (k + m) + (i - k) = i + m /\ k + (i - k) = i
      BY <1>1, <2>2
    <3>2. x[i + m] = y[i]
      BY <1>4, <3>1
    <3> QED
      BY <1>1, <2>2, <3>2
  <2> QED
    BY <1>1, <2>1, <2>2
<1>6. \A i, j \in 1..(k + n) : i < j => at(i) < at(j)
  BY <1>1
<1> HIDE DEF at
<1>7. /\ \A i, j \in 1..((k + m) + n) : i < j => Rank(x[i]) < Rank(x[j])
      /\ \A i \in 1..((k + m) + n) : Rank(x[i]) <= top
  BY <1>2 DEF Ranked, x
<1>8. Ranked(y, top)
  BY <1>2, <1>5, <1>6, <1>7 DEF Ranked
<1> QED
  BY <1>8 DEF y

LEMMA RankedLine ==
  ASSUME TypeOK, TypeOK', NEW s \in Sid, Ranked(Line(s), Top(s)),
         Keeps(s) \/ Joins(s) \/ Loses(s)
  PROVE  Ranked(Line(s)', Top(s)')
<1>3. Top(s) \in Nat /\ Top(s)' \in Nat
  <2>1. sess[s] \in Session /\ sess'[s] \in Session
    BY DEF TypeOK
  <2> QED
    BY <2>1, CarrierAssumption DEF Top, Session
<1>4. CASE Keeps(s)
  BY <1>4 DEF Keeps
<1>5. CASE Joins(s)
  <2>1. PICK f \in Frame : /\ Line(s)' = Append(Line(s), f)
                           /\ Rank(f) <= Top(s)'
                           /\ Line(s) = <<>> \/ Top(s) < Rank(f)
    BY <1>5 DEF Joins
  <2>2. Line(s) \in Seq(Frame)
    BY LineTyped
  <2> DEFINE q == Line(s)
             top == Top(s)
             up == Top(s)'
  <2>3. /\ q \in Seq(Frame) /\ top \in Nat /\ up \in Nat /\ Ranked(q, top)
        /\ Rank(f) <= up /\ (q = <<>> \/ top < Rank(f))
    BY <1>3, <2>1, <2>2
  <2> HIDE DEF q, top, up
  <2>4. Ranked(Append(q, f), up)
    BY <2>3, RankedAppend
  <2> QED
    BY <2>1, <2>4 DEF q, up
<1>6. CASE Loses(s)
  <2> DEFINE c == CarriedBy(Load, s)
             q == sess[s].tx_q
             top == Top(s)
  <2>1. recvd[s] \in Seq(Frame) /\ c \in Seq(Frame) /\ q \in Seq(Frame) /\ top \in Nat
    BY <1>3, LineTyped
  <2>2. Ranked((recvd[s] \o c) \o q, top)
    BY DEF Line
  <2>3. Line(s)' = recvd[s] \o q /\ Top(s)' = top
    BY <1>6 DEF Loses
  <2> HIDE DEF c, q, top
  <2>4. Ranked(recvd[s] \o q, top)
    BY <2>1, <2>2, RankedWithout
  <2> QED
    BY <2>3, <2>4
<1> QED
  BY <1>4, <1>5, <1>6

(* The lines of the sessions that no two requests ever carried at once: in *)
(* order as long as no rollback was torn, and without a gap as long as no  *)
(* request was lost.                                                       *)
Lines ==
    \A s \in Sid : s \notin raced =>
        /\ Alone(s)
        /\ "torn" \notin faults =>
              /\ Ranked(Line(s), Top(s))
              /\ "lost" \notin faults => Line(s) = sent[s]

LEMMA InitLines == Init => Lines
<1> SUFFICES ASSUME Init, NEW s \in Sid
             PROVE  Alone(s) /\ Ranked(Line(s), Top(s)) /\ Line(s) = sent[s]
  BY DEF Lines
<1>1. \A w \in Worker : wire[w][s] = <<>> /\ orphan[w][s] = <<>>
  BY EmptyBatch DEF Init
<1>2. \A w \in Worker : Load[w][s] = <<>>
  BY <1>1, LoadIs
<1>3. CarriedBy(Load, s) = <<>>
  BY <1>2, CarriedIs
<1>4. recvd[s] = <<>> /\ sess[s].tx_q = <<>> /\ sent[s] = <<>>
  BY DEF Init, NewSession
<1>5. Line(s) = <<>>
  BY <1>3, <1>4 DEF Line
<1> QED
  BY <1>1, <1>2, <1>4, <1>5 DEF Alone, Ranked

LEMMA LinesStep ==
  ASSUME TypeOK, TypeOK', OrderInv, SeqBound, Lines, [Next]_vars
  PROVE  Lines'
<1> SUFFICES ASSUME NEW s \in Sid, s \notin raced'
             PROVE  /\ Alone(s)'
                    /\ "torn" \notin faults' =>
                          /\ Ranked(Line(s)', Top(s)')
                          /\ "lost" \notin faults' => Line(s)' = sent'[s]
  BY DEF Lines, Ranked
<1>1. s \notin raced /\ faults \subseteq faults'
  BY HistoryGrows
<1>2. Alone(s)
  BY <1>1 DEF Lines
<1>3. Alone(s)' /\ ("torn" \notin faults' => Keeps(s) \/ Joins(s) \/ Loses(s))
  BY <1>2, LineStep
<1>4. ASSUME "torn" \notin faults'
      PROVE  /\ Ranked(Line(s)', Top(s)')
             /\ "lost" \notin faults' => Line(s)' = sent'[s]
  <2>1. Ranked(Line(s), Top(s)) /\ ("lost" \notin faults => Line(s) = sent[s])
    BY <1>1, <1>4 DEF Lines
  <2>2. Keeps(s) \/ Joins(s) \/ Loses(s)
    BY <1>3, <1>4
  <2>3. Ranked(Line(s)', Top(s)')
    BY <2>1, <2>2, RankedLine
  <2>4. "lost" \notin faults' => Line(s)' = sent'[s]
    BY <1>1, <2>1, <2>2 DEF Keeps, Joins, Loses
  <2> QED
    BY <2>3, <2>4
<1> QED
  BY <1>3, <1>4

LEMMA LinesKept == Spec => [](TypeOK /\ OrderInv /\ SeqBound /\ Lines)
BY InitLines, LinesStep, OrderKept, TypeCorrect, SeqBounded, PTL DEF Spec

(* An endpoint's workers share out the sessions, and so it races with      *)
(* itself only when one of them has moved or a request is late.            *)
NoRace == OneEndpoint /\ faults \cap {"moved", "late"} = {} => raced = {}

LEMMA RaceStep ==
  ASSUME TypeOK, OrderInv, OrderInv', NoRace, [Next]_vars
  PROVE  NoRace'
<1> SUFFICES ASSUME OneEndpoint, faults' \cap {"moved", "late"} = {}
             PROVE  raced' = {}
  BY DEF NoRace, OneEndpoint
<1>1. faults \cap {"moved", "late"} = {} /\ raced = {}
  BY HistoryGrows DEF NoRace
<1>2. ASSUME NEW w \in Worker, NEW idlePc, pc[w] # "post", DrainAndPost(w, idlePc)
      PROVE  raced' = {}
  <2> SUFFICES ASSUME NEW s \in Sid, Drained(w)[s] # <<>>, Underway(s)
               PROVE  FALSE
    BY <1>1, <1>2 DEF DrainAndPost
  <2>1. TypeOK /\ wire[w] = NoFrames /\ Visits(w, s)
    BY <1>2, DrainFacts DEF OrderInv, AtPost
  <2>2. \A v \in Worker : orphan[v][s] = <<>>
    BY <1>1, EmptyBatch DEF OrderInv, Timely
  <2>3. PICK v \in Worker : wire[v][s] # <<>>
    BY <2>2 DEF Underway
  <2>4. Visits(v, s)
    BY <1>1, <2>3, EmptyBatch DEF OrderInv, AtPost, Owned
  <2>5. v[2] = w[2] /\ v[1] = w[1]
    BY <2>1, <2>4 DEF Visits, OneEndpoint, Worker
  <2>6. v = w
    BY <2>5 DEF Worker
  <2> QED
    BY <2>1, <2>3, <2>6, EmptyBatch
<1>3. CASE UNCHANGED vars
  BY <1>1, <1>3 DEF vars, history
<1> QED
  BY <1>1, <1>2, <1>3, NextSplits
  DEF Open, Close, ReadLoop, Write, Poll, Notified, PollIdle, SleepDead, WakeUp, ReplyOk,
      ReplyGarbled, ReplyBlank, ReplyThrottled, ReplyError, Cancel, Deliver, DeliverLate,
      Revive, HealthTick, Watchdog, Stop, history

LEMMA NoRaceKept == Spec => []NoRace
<1>1. Init => NoRace
  BY DEF Init, NoRace
<1> QED
  BY <1>1, RaceStep, OrderKept, TypeCorrect, PTL DEF Spec

(* Lost frames, requests or workers never make the server read a session   *)
(* out of order or twice, and neither do sessions that change worker or    *)
(* requests that come late, as long as no second request with frames of    *)
(* the session sets out meanwhile (_worker_loop, _drain_all).              *)
THEOREM ReadsInOrder == Spec => []InOrder
<1>1. ASSUME TypeOK, Lines, "torn" \notin faults, NEW s \in Sid \ raced
      PROVE  Ascending(recvd[s])
  <2> DEFINE r == recvd[s]
             c == CarriedBy(Load, s)
             q == sess[s].tx_q
  <2>1. r \in Seq(Frame) /\ c \in Seq(Frame) /\ q \in Seq(Frame)
    BY <1>1, LineTyped
  <2>2. Ranked((r \o c) \o q, Top(s))
    BY <1>1 DEF Lines, Line
  <2> HIDE DEF r, c, q
  <2>3. /\ Len(r) \in Nat /\ Len(c) \in Nat /\ Len(q) \in Nat
        /\ Len((r \o c) \o q) = (Len(r) + Len(c)) + Len(q)
        /\ \A k \in 1..Len(r) : ((r \o c) \o q)[k] = r[k]
    <3>1. r \o c \in Seq(Frame) /\ Len(r \o c) = Len(r) + Len(c)
      BY <2>1, ConcatProperties
    <3>2. \A k \in 1..Len(r) : (r \o c)[k] = r[k]
      BY <2>1, ConcatProperties
    <3>3. \A k \in 1..Len(r \o c) : ((r \o c) \o q)[k] = (r \o c)[k]
      BY <2>1, <3>1, ConcatProperties
    <3>4. Len((r \o c) \o q) = Len(r \o c) + Len(q)
      BY <2>1, <3>1, ConcatProperties
    <3> QED
      BY <2>1, <3>1, <3>2, <3>3, <3>4
  <2> SUFFICES ASSUME NEW i \in 1..Len(r), NEW j \in 1..Len(r), i < j
               PROVE  Rank(r[i]) < Rank(r[j])
    BY <2>1 DEF Ascending, r
  <2>4. i \in 1..Len((r \o c) \o q) /\ j \in 1..Len((r \o c) \o q)
    BY <2>3
  <2>5. Rank(((r \o c) \o q)[i]) < Rank(((r \o c) \o q)[j])
    BY <2>2, <2>4 DEF Ranked
  <2> QED
    BY <2>3, <2>5
<1>2. TypeOK /\ Lines /\ NoRace => InOrder
  BY <1>1 DEF InOrder, NoRace
<1> QED
  BY <1>2, LinesKept, NoRaceKept, PTL
----------------------------------------------------------------------------
(* Undisturbed, the line of a session is its stream.                       *)
LineIsStream == OneEndpoint /\ faults = {} => \A s \in Sid : Alone(s) /\ Line(s) = sent[s]

LEMMA LineKept == Spec => [](LineIsStream /\ TypeOK /\ OrderInv)
<1>1. Lines /\ NoRace => LineIsStream
  BY DEF Lines, NoRace, LineIsStream
<1> QED
  BY <1>1, LinesKept, NoRaceKept, PTL

(* With one endpoint and no mishap every session is a FIFO channel.        *)
THEOREM FifoChannel == Spec => []Fifo
<1>1. TypeOK /\ OrderInv /\ LineIsStream => Fifo
  <2> SUFFICES ASSUME TypeOK, OrderInv, LineIsStream, OneEndpoint, faults = {}, NEW s \in Sid
               PROVE  \/ InFlight(s) = {} /\ recvd[s] \o sess[s].tx_q = sent[s]
                      \/ \E w \in InFlight(s) :
                            (recvd[s] \o wire[w][s]) \o sess[s].tx_q = sent[s]
    BY DEF Fifo
  <2>1. Alone(s) /\ (recvd[s] \o CarriedBy(Load, s)) \o sess[s].tx_q = sent[s]
    BY DEF LineIsStream, Line
  <2>2. \A w \in Worker : orphan[w][s] = <<>> /\ Load[w][s] = wire[w][s]
    BY EmptyBatch, LoadIs DEF OrderInv, Timely
  <2>3. CASE InFlight(s) = {}
    <3>1. \A w \in Worker : Load[w][s] = <<>>
      BY <2>2, <2>3 DEF InFlight
    <3>2. CarriedBy(Load, s) = <<>>
      BY <3>1, CarriedIs
    <3>3. recvd[s] \o <<>> = recvd[s]
      BY LineTyped, ConcatEmptySeq
    <3> QED
      BY <2>1, <2>3, <3>2, <3>3
  <2>4. CASE InFlight(s) # {}
    <3>1. PICK w \in Worker : wire[w][s] # <<>>
      BY <2>4 DEF InFlight
    <3>2. CarriedBy(Load, s) = wire[w][s]
      BY <2>1, <2>2, <3>1, CarriedIs DEF Alone
    <3> QED
      BY <2>1, <3>1, <3>2 DEF InFlight
  <2> QED
    BY <2>3, <2>4
<1> QED
  BY <1>1, LineKept, PTL

(* Without a mishap, every step of the carrier is a step of Stream.        *)
LEMMA StepImplements ==
  ASSUME TypeOK, TypeOK', OrderInv, LineIsStream, LineIsStream', OrderInv', OneEndpoint,
         faults = {}, faults' = {}, [Next]_vars
  PROVE  [Channel!Next]_<<sent, recvd>>
<1>1. ASSUME sent' = sent, recvd' = recvd
      PROVE  [Channel!Next]_<<sent, recvd>>
  BY <1>1
<1>2. ASSUME NEW s \in Sid, NEW f \in Frame, recvd' = recvd,
             sent' = [sent EXCEPT ![s] = Append(@, f)]
      PROVE  Channel!Next
  <2>1. sent[s] \in Seq(Frame) /\ sent'[s] = Append(sent[s], f)
    BY <1>2 DEF TypeOK
  <2>2. Len(sent'[s]) = Len(sent[s]) + 1 /\ sent'[s][Len(sent'[s])] = f
    BY <2>1
  <2>3. Channel!Send(s)
    BY <1>2, <2>2 DEF Channel!Send
  <2> QED
    BY <2>3 DEF Channel!Next
<1>3. ASSUME NEW s \in Sid,
             Open(s) \/ Close(s) \/ ReadLoop(s) \/ \E len \in Payloads : Write(s, len)
      PROVE  [Channel!Next]_<<sent, recvd>>
  <2>1. sess[s].seq \in Nat
    BY DEF TypeOK, Session
  <2>2. CASE ReadLoop(s)
    BY <1>1, <2>2 DEF ReadLoop, history
  <2>3. CASE Open(s)
    BY <1>2, <2>3, FramesTyped DEF Open
  <2>4. CASE Close(s)
    BY <1>2, <2>4, FramesTyped DEF Close
  <2>5. ASSUME NEW len \in Payloads, Write(s, len)
        PROVE  Channel!Next
    <3>1. Data(s, sess[s].seq, len) \in Frame
      BY <2>1, FramesTyped, CarrierAssumption
    <3> DEFINE f == Data(s, sess[s].seq, len)
    <3>2. recvd' = recvd /\ sent' = [sent EXCEPT ![s] = Append(@, f)]
      BY <2>5 DEF Write
    <3>3. f \in Frame
      BY <3>1
    <3> HIDE DEF f
    <3> QED
      BY <1>2, <3>2, <3>3, Zenon
  <2> QED
    BY <1>3, <2>2, <2>3, <2>4, <2>5
<1>4. ASSUME NEW w \in Worker, Deliver(w)
      PROVE  Channel!Next
  <2>1. sent' = sent /\ DOMAIN recvd' = Sid
    BY <1>4 DEF Deliver
  <2>2. ASSUME NEW s \in Sid
        PROVE  \E n \in Len(recvd[s])..Len(sent[s]) : recvd'[s] = SubSeq(sent[s], 1, n)
    <3> DEFINE c == CarriedBy(Load', s)
               q == sess'[s].tx_q
    <3>1. /\ recvd'[s] \in Seq(Frame) /\ recvd[s] \in Seq(Frame) /\ q \in Seq(Frame)
          /\ wire[w][s] \in Seq(Frame) /\ recvd'[s] = recvd[s] \o wire[w][s]
      <4>1. recvd[s] \in Seq(Frame) /\ wire[w][s] \in Seq(Frame)
        BY DEF TypeOK, Batch
      <4>2. recvd'[s] \in Seq(Frame)
        BY DEF TypeOK
      <4>3. sess'[s] \in Session
        BY DEF TypeOK
      <4>4. q \in Seq(Frame)
        BY <4>3 DEF Session
      <4>5. recvd'[s] = recvd[s] \o wire[w][s]
        BY <1>4 DEF Deliver
      <4> QED
        BY <4>1, <4>2, <4>4, <4>5
    <3>2. c \in Seq(Frame)
      <4>1. \A v \in Worker : Load'[v][s] \in Seq(Frame)
        BY LoadIsNext DEF TypeOK, Batch
      <4> QED
        BY <4>1, CarriedTyped
    <3>3. (recvd'[s] \o c) \o q = sent[s]
      BY <2>1 DEF LineIsStream, Line, CarriedBy
    <3> HIDE DEF c, q
    <3>4. recvd'[s] \o (c \o q) = sent[s] /\ c \o q \in Seq(Frame)
      BY <3>1, <3>2, <3>3, Associative, ConcatProperties
    <3>5. /\ Len(recvd'[s]) \in 0..Len(sent[s])
          /\ recvd'[s] = SubSeq(sent[s], 1, Len(recvd'[s]))
      BY <3>1, <3>4, SequencePrefix
    <3>6. Len(recvd[s]) <= Len(recvd'[s]) /\ Len(recvd[s]) \in Nat
      <4> DEFINE k == Len(recvd[s])
                 m == Len(wire[w][s])
                 n == Len(recvd'[s])
      <4>1. n = k + m
        BY <3>1, ConcatProperties
      <4>2. k \in Nat /\ m \in Nat
        BY <3>1
      <4> HIDE DEF k, m, n
      <4>3. k <= n /\ k \in Nat
        BY <4>1, <4>2
      <4> QED
        BY <4>3 DEF k, n
    <3> QED
      BY <3>5, <3>6
  <2>3. Channel!Receive
    BY <2>1, <2>2 DEF Channel!Receive
  <2> QED
    BY <2>3 DEF Channel!Next
<1>5. ASSUME NEW w \in Worker, DeliverLate(w)
      PROVE  FALSE
  BY <1>5 DEF DeliverLate, OrderInv, Timely
<1>6. ASSUME NEW w \in Worker, Poll(w) \/ Notified(w)
      PROVE  sent' = sent /\ recvd' = recvd
  BY <1>6 DEF Poll, Notified, DrainAndPost
<1>7. ASSUME NEW w \in Worker,
             \/ PollIdle(w) \/ SleepDead(w) \/ WakeUp(w)
             \/ (\E R \in SUBSET Sid : ReplyOk(w, R))
             \/ ReplyGarbled(w) \/ ReplyBlank(w) \/ ReplyThrottled(w) \/ ReplyError(w) \/ Cancel(w)
      PROVE  sent' = sent /\ recvd' = recvd
  BY <1>7 DEF PollIdle, SleepDead, WakeUp, ReplyOk, ReplyGarbled, ReplyBlank, ReplyThrottled,
              ReplyError, Cancel, history
<1>8. CASE HealthTick \/ Watchdog \/ Stop \/ \E ep \in Endpoint : Revive(ep)
  BY <1>1, <1>8 DEF HealthTick, Watchdog, Stop, Revive, history
<1>9. CASE UNCHANGED vars
  BY <1>1, <1>9 DEF vars, history
<1> QED
  BY <1>1, <1>3, <1>4, <1>5, <1>6, <1>7, <1>8, <1>9, NextSplits

(* With one endpoint, and as long as no mishap occurs, the carrier is a    *)
(* FIFO channel for each session: it implements Stream.                    *)
THEOREM CarrierImplementsStream ==
  OneEndpoint /\ Spec /\ [](faults = {}) => ImplementsStream
<1>1. Init => Channel!Init
  BY DEF Init, Channel!Init
<1>2. ASSUME OneEndpoint
      PROVE  /\ TypeOK /\ OrderInv /\ LineIsStream /\ faults = {}
             /\ (TypeOK /\ OrderInv /\ LineIsStream /\ faults = {})' /\ [Next]_vars
             => [Channel!Next]_<<sent, recvd>>
  BY <1>2, StepImplements
<1>3. CASE OneEndpoint
  BY <1>1, <1>2, <1>3, LineKept, PTL DEF Spec, ImplementsStream, Channel!Spec
<1>4. CASE ~OneEndpoint
  BY <1>4
<1> QED
  BY <1>3, <1>4
----------------------------------------------------------------------------
(* What a step does to the stream of a session, to its number and to its   *)
(* end: nothing, unless its VirtualConn opens, writes or closes.           *)
Quiet(s) == /\ sent'[s] = sent[s] /\ sess'[s].seq = sess[s].seq
            /\ (s \in closed' <=> s \in closed)
            /\ born'[s] = born[s]

LEMMA StreamStep ==
  ASSUME TypeOK, [Next]_vars, NEW s \in Sid
  PROVE  Quiet(s) \/ Open(s) \/ Close(s) \/ \E len \in Payloads : Write(s, len)
<1>1. /\ sess \in [Sid -> Session] /\ sess[s] \in Session
      /\ sent \in [Sid -> Seq(Frame)] /\ born \in [Sid -> Nat]
  BY DEF TypeOK
<1>2. CASE UNCHANGED vars
  BY <1>2 DEF Quiet, vars, poolVars, history
<1>3. ASSUME NEW t \in Sid, t # s,
             Open(t) \/ Close(t) \/ \E len \in Payloads : Write(t, len)
      PROVE  Quiet(s)
  BY <1>1, <1>3 DEF Open, Close, Write, Quiet
<1>4. ASSUME NEW t \in Sid, ReadLoop(t)
      PROVE  Quiet(s)
  <2>1. [sess[s] EXCEPT !.rx_q = <<>>, !.rx_event = FALSE].seq = sess[s].seq
    BY <1>1, FramesTyped, SeqOfEnqueued
  <2> QED
    BY <1>1, <1>4, <2>1 DEF ReadLoop, Quiet, history
<1>5. ASSUME NEW w \in Worker, Poll(w) \/ Notified(w)
      PROVE  Quiet(s)
  BY <1>5, SeqKept DEF Poll, Notified, DrainAndPost, Quiet
<1>6. ASSUME NEW w \in Worker, NEW R \in SUBSET Sid, ReplyOk(w, R)
      PROVE  Quiet(s)
  BY <1>1, <1>6 DEF ReplyOk, Dispatched, EnqueueRx, Session, Quiet, history
<1>7. ASSUME NEW w \in Worker,
             \/ PollIdle(w) \/ SleepDead(w) \/ WakeUp(w)
             \/ ReplyGarbled(w) \/ ReplyBlank(w) \/ ReplyThrottled(w) \/ ReplyError(w)
             \/ Cancel(w) \/ Deliver(w) \/ DeliverLate(w)
      PROVE  Quiet(s)
  BY <1>7 DEF PollIdle, SleepDead, WakeUp, ReplyGarbled, ReplyBlank, ReplyThrottled, ReplyError,
              Cancel, Deliver, DeliverLate, poolVars, history, Quiet
<1>8. CASE HealthTick \/ Watchdog \/ Stop \/ \E ep \in Endpoint : Revive(ep)
  BY <1>8 DEF HealthTick, Watchdog, Stop, Revive, poolVars, history, Quiet
<1> QED
  BY <1>2, <1>3, <1>4, <1>5, <1>6, <1>7, <1>8, NextSplits

(* The stream of a session: its SYN, its data in the order of their        *)
(* numbers, and its FIN once its VirtualConn has closed.                   *)
Placed(s, i, f, seq) ==
    IF i = 1 THEN f = Syn(s)
    ELSE IF i = seq + 2 THEN f = Fin(s)
    ELSE \E len \in Payloads : f = Data(s, i - 2, len)

StreamLen(s) == IF born[s] = 0 THEN 0
                ELSE IF s \in closed THEN sess[s].seq + 2 ELSE sess[s].seq + 1

StreamShape ==
    \A s \in Sid : /\ Len(sent[s]) = StreamLen(s)
                   /\ \A i \in 1..Len(sent[s]) : Placed(s, i, sent[s][i], sess[s].seq)

LEMMA ShapeStep ==
  ASSUME TypeOK, Unborn, StreamShape, [Next]_vars
  PROVE  StreamShape'
<1> SUFFICES ASSUME NEW s \in Sid
             PROVE  /\ Len(sent'[s]) = StreamLen(s)'
                    /\ \A i \in 1..Len(sent'[s]) : Placed(s, i, sent'[s][i], sess'[s].seq)
  BY DEF StreamShape
<1>1. /\ sess \in [Sid -> Session] /\ sess[s] \in Session /\ sess[s].seq \in Nat
      /\ sent \in [Sid -> Seq(Frame)] /\ sent[s] \in Seq(Frame)
      /\ born \in [Sid -> Nat] /\ born[s] \in Nat
  BY DEF TypeOK, Session
<1>2. /\ Len(sent[s]) = StreamLen(s)
      /\ \A i \in 1..Len(sent[s]) : Placed(s, i, sent[s][i], sess[s].seq)
  BY DEF StreamShape
<1>3. CASE Quiet(s)
  BY <1>2, <1>3 DEF Quiet, StreamLen, Placed
<1> DEFINE n == Len(sent[s])
           m == sess[s].seq
<1>4. ASSUME NEW f \in Frame, sent'[s] = Append(sent[s], f)
      PROVE  /\ Len(sent'[s]) = n + 1 /\ sent'[s][n + 1] = f /\ n \in Nat
             /\ \A i \in 1..n : sent'[s][i] = sent[s][i]
  BY <1>1, <1>4
<1>5. CASE Open(s)
  <2>1. /\ n = 0 /\ s \notin closed /\ closed' = closed
        /\ sent'[s] = Append(sent[s], Syn(s)) /\ Syn(s) \in Frame
    BY <1>1, <1>2, <1>5, FramesTyped DEF Open, Opened, StreamLen, Unborn
  <2>2. sess'[s].seq = 0
    BY <1>1, <1>5 DEF Open, EnqueueTx, NewSession
  <2>3. born'[s] # 0
    <3> DEFINE U == {t \in Sid : Opened(t)}
    <3>1. U \in SUBSET Sid
      OBVIOUS
    <3> HIDE DEF U
    <3>2. Cardinality(U) \in Nat
      BY <3>1, SubsetsCounted
    <3>3. born'[s] = 1 + Cardinality(U)
      BY <1>1, <1>5 DEF Open, U
    <3> QED
      BY <3>2, <3>3
  <2>4. Len(sent'[s]) = 1 /\ sent'[s][1] = Syn(s)
    BY <1>4, <2>1
  <2> QED
    BY <2>1, <2>2, <2>3, <2>4 DEF StreamLen, Placed
<1>6. CASE Close(s)
  <2>1. /\ n = m + 1 /\ born' = born /\ born[s] # 0 /\ s \notin closed /\ s \in closed'
        /\ sent'[s] = Append(sent[s], Fin(s)) /\ Fin(s) \in Frame
    BY <1>1, <1>2, <1>6, FramesTyped DEF Close, Opened, StreamLen
  <2>2. sess'[s].seq = m
    <3>1. sess'[s].seq = EnqueueTx(sess[s], Fin(s)).seq
      BY <1>6, ClosedSession
    <3> QED
      BY <1>1, <2>1, <3>1, SeqOfEnqueued
  <2>3. Len(sent'[s]) = n + 1 /\ sent'[s][n + 1] = Fin(s)
        /\ \A i \in 1..n : sent'[s][i] = sent[s][i]
    BY <1>4, <2>1
  <2>4. StreamLen(s)' = m + 2
    BY <2>1, <2>2 DEF StreamLen
  <2> HIDE DEF n
  <2>5. \A i \in 1..(m + 2) : Placed(s, i, sent'[s][i], sess'[s].seq)
    <3> SUFFICES ASSUME NEW i \in 1..(m + 2)
                 PROVE  Placed(s, i, sent'[s][i], sess'[s].seq)
      OBVIOUS
    <3>1. CASE i = m + 2
      BY <1>1, <2>1, <2>2, <2>3, <3>1 DEF Placed
    <3>2. CASE i # m + 2
      <4>1. i \in 1..n
        BY <1>1, <2>1, <3>2
      <4>2. Placed(s, i, sent[s][i], sess[s].seq)
        BY <1>2, <4>1 DEF n
      <4> QED
        BY <2>2, <2>3, <4>1, <4>2 DEF Placed
    <3> QED
      BY <3>1, <3>2
  <2>6. Len(sent'[s]) = m + 2
    BY <1>1, <2>1, <2>3
  <2> QED
    BY <2>4, <2>5, <2>6
<1>7. ASSUME NEW len \in Payloads, Write(s, len)
      PROVE  /\ Len(sent'[s]) = StreamLen(s)'
             /\ \A i \in 1..Len(sent'[s]) : Placed(s, i, sent'[s][i], sess'[s].seq)
  <2> DEFINE f == Data(s, m, len)
  <2>1. /\ n = m + 1 /\ born' = born /\ born[s] # 0 /\ s \notin closed /\ closed' = closed
        /\ sent'[s] = Append(sent[s], f)
        /\ sess'[s] = [EnqueueTx(sess[s], f) EXCEPT !.seq = m + 1]
    BY <1>1, <1>2, <1>7 DEF Write, Opened, StreamLen
  <2>2. f \in Frame
    BY <1>1, FramesTyped, CarrierAssumption
  <2>3. sess'[s].seq = m + 1
    BY <1>1, <2>1, <2>2, SeqOfEnqueued DEF Session
  <2>4. Len(sent'[s]) = n + 1 /\ sent'[s][n + 1] = f
        /\ \A i \in 1..n : sent'[s][i] = sent[s][i]
    BY <1>4, <2>1, <2>2
  <2>5. StreamLen(s)' = m + 2
    BY <1>1, <2>1, <2>3 DEF StreamLen
  <2> HIDE DEF n
  <2>6. \A i \in 1..(m + 2) : Placed(s, i, sent'[s][i], sess'[s].seq)
    <3> SUFFICES ASSUME NEW i \in 1..(m + 2)
                 PROVE  Placed(s, i, sent'[s][i], sess'[s].seq)
      OBVIOUS
    <3>1. CASE i = m + 2
      <4>1. i # 1 /\ i # (m + 1) + 2 /\ i - 2 = m
        BY <1>1, <3>1
      <4>2. sent'[s][i] = Data(s, i - 2, len)
        BY <1>1, <2>1, <2>4, <3>1, <4>1
      <4> QED
        BY <2>3, <4>1, <4>2 DEF Placed
    <3>2. CASE i # m + 2
      <4>1. i \in 1..n /\ i # (m + 1) + 2
        BY <1>1, <2>1, <3>2
      <4>2. Placed(s, i, sent[s][i], sess[s].seq)
        BY <1>2, <4>1 DEF n
      <4> QED
        BY <2>3, <2>4, <3>2, <4>1, <4>2 DEF Placed
    <3> QED
      BY <3>1, <3>2
  <2>7. Len(sent'[s]) = m + 2
    BY <1>1, <2>1, <2>4
  <2> QED
    BY <2>5, <2>6, <2>7
<1> QED
  BY <1>3, <1>5, <1>6, <1>7, StreamStep

LEMMA ShapeKept == Spec => []StreamShape
<1>1. Init => StreamShape
  BY DEF Init, StreamShape, StreamLen
<1>2. TypeOK /\ OrderInv /\ StreamShape /\ [Next]_vars => StreamShape'
  BY ShapeStep DEF OrderInv
<1> QED
  BY <1>1, <1>2, OrderKept, TypeCorrect, PTL DEF Spec

(* A batch holds, of each session, frames that follow each other in its    *)
(* stream, and so does one that was given up.                              *)
Part(c, s) == \E x, y \in Seq(Frame) : (x \o c) \o y = sent[s]

WireOfStream == \A w \in Worker, s \in Sid : Part(wire[w][s], s) /\ Part(orphan[w][s], s)

LEMMA WireStep ==
  ASSUME TypeOK, [Next]_vars, NEW v \in Worker, NEW s \in Sid
  PROVE  /\ orphan'[v][s] \in {orphan[v][s], wire[v][s], <<>>}
         /\ \/ wire'[v][s] = wire[v][s]
            \/ wire'[v][s] = <<>>
            \/ wire'[v][s] = Drained(v)[s] /\ sent' = sent
<1> DEFINE Goal == /\ orphan'[v][s] \in {orphan[v][s], wire[v][s], <<>>}
                   /\ \/ wire'[v][s] = wire[v][s]
                      \/ wire'[v][s] = <<>>
                      \/ wire'[v][s] = Drained(v)[s] /\ sent' = sent
<1>1. wire \in [Worker -> Batch] /\ orphan \in [Worker -> Batch]
  BY DEF TypeOK
<1>2. CASE wire' = wire /\ orphan' = orphan
  BY <1>2
<1>3. ASSUME NEW w \in Worker, wire' = [wire EXCEPT ![w] = NoFrames],
             orphan' = orphan \/ orphan' = [orphan EXCEPT ![w] = wire[w]]
      PROVE  Goal
  BY <1>1, <1>3, EmptyBatch
<1>4. ASSUME NEW w \in Worker, Poll(w) \/ Notified(w)
      PROVE  Goal
  BY <1>1, <1>4 DEF Poll, Notified, DrainAndPost
<1>5. ASSUME NEW w \in Worker,
             \/ ReplyGarbled(w) \/ ReplyBlank(w) \/ ReplyThrottled(w) \/ ReplyError(w)
             \/ Cancel(w) \/ Deliver(w)
      PROVE  Goal
  BY <1>3, <1>5 DEF ReplyGarbled, ReplyBlank, ReplyThrottled, ReplyError, Cancel, Deliver, Forget
<1>6. ASSUME NEW w \in Worker,
             \/ PollIdle(w) \/ SleepDead(w) \/ WakeUp(w)
             \/ \E R \in SUBSET Sid : ReplyOk(w, R)
      PROVE  wire' = wire /\ orphan' = orphan
  BY <1>6 DEF PollIdle, SleepDead, WakeUp, ReplyOk
<1>7. ASSUME NEW t \in Sid,
             Open(t) \/ Close(t) \/ ReadLoop(t) \/ \E len \in Payloads : Write(t, len)
      PROVE  wire' = wire /\ orphan' = orphan
  BY <1>7 DEF Open, Close, ReadLoop, Write, taskVars
<1>8. CASE HealthTick \/ Watchdog \/ Stop \/ \E ep \in Endpoint : Revive(ep)
  BY <1>2, <1>8 DEF HealthTick, Watchdog, Stop, Revive, taskVars
<1>9. CASE UNCHANGED vars
  BY <1>2, <1>9 DEF vars, taskVars
<1>10. ASSUME NEW w \in Worker, DeliverLate(w)
       PROVE  Goal
  BY <1>1, <1>10, EmptyBatch DEF DeliverLate
<1> QED
  BY <1>2, <1>4, <1>5, <1>6, <1>7, <1>8, <1>9, <1>10, NextSplits

LEMMA WireKept == Spec => []WireOfStream
<1>1. \A t \in Seq(Frame) : (t \o <<>>) \o <<>> = t
  BY ConcatEmptySeq
<1>2. Init => WireOfStream
  <2>1. (<<>> \o <<>>) \o <<>> = <<>> /\ <<>> \in Seq(Frame)
    BY EmptySeq, ConcatEmptySeq
  <2> QED
    BY <2>1, EmptyBatch DEF Init, WireOfStream, Part
<1>3. TypeOK /\ TypeOK' /\ TailOfStream /\ WireOfStream /\ [Next]_vars => WireOfStream'
  <2> SUFFICES ASSUME TypeOK, TypeOK', TailOfStream, WireOfStream, [Next]_vars,
                      NEW w \in Worker, NEW s \in Sid
               PROVE  Part(wire[w][s], s)' /\ Part(orphan[w][s], s)'
    BY DEF WireOfStream
  <2>1. /\ sent[s] \in Seq(Frame) /\ sent'[s] \in Seq(Frame)
        /\ wire[w][s] \in Seq(Frame) /\ orphan[w][s] \in Seq(Frame)
    BY DEF TypeOK, Batch
  <2> DEFINE IsPart(c) == \E x, y \in Seq(Frame) : (x \o c) \o y = sent'[s]
  <2>2. IsPart(<<>>)
    BY <1>1, <2>1, EmptySeq
  <2>3. ASSUME NEW c \in Seq(Frame), Part(c, s)
        PROVE  IsPart(c)
    <3>1. PICK x, y \in Seq(Frame) : (x \o c) \o y = sent[s]
      BY <2>3 DEF Part
    <3>2. sent'[s] = sent[s] \/ \E f \in Frame : sent'[s] = Append(sent[s], f)
      BY SessionStep
    <3>3. ASSUME NEW f \in Frame, sent'[s] = Append(sent[s], f)
          PROVE  (x \o c) \o Append(y, f) = sent'[s] /\ Append(y, f) \in Seq(Frame)
      <4>1. Append(y, f) \in Seq(Frame)
        BY AppendProperties
      <4>2. (x \o c) \o Append(y, f) = Append((x \o c) \o y, f)
        BY LineAppends
      <4> QED
        BY <3>1, <3>3, <4>1, <4>2
    <3> QED
      BY <3>1, <3>2, <3>3
  <2>4. ASSUME wire'[w][s] = Drained(w)[s], sent' = sent
        PROVE  IsPart(wire'[w][s])
    <3> DEFINE d == Drained(w)[s]
               q == sess[s].tx_q
    <3>1. d \in Seq(Frame) /\ \E r \in Seq(Frame) : d \o r = q
      BY DrainFacts
    <3>2. \E p \in Seq(Frame) : p \o q = sent[s]
      BY DEF TailOfStream
    <3> HIDE DEF d, q
    <3>3. PICK r \in Seq(Frame) : d \o r = q
      BY <3>1
    <3>4. PICK p \in Seq(Frame) : p \o q = sent[s]
      BY <3>2
    <3>5. (p \o d) \o r = sent[s]
      BY <3>1, <3>3, <3>4, Associative
    <3> QED
      BY <2>4, <3>1, <3>3, <3>4, <3>5 DEF d
  <2>5. IsPart(wire[w][s]) /\ IsPart(orphan[w][s])
    BY <2>1, <2>3 DEF WireOfStream
  <2> HIDE DEF IsPart
  <2>6. IsPart(wire'[w][s]) /\ IsPart(orphan'[w][s])
    <3>1. CASE wire'[w][s] = Drained(w)[s] /\ sent' = sent
      BY <2>2, <2>4, <2>5, <3>1, WireStep
    <3>2. CASE wire'[w][s] \in {wire[w][s], <<>>}
      BY <2>2, <2>5, <3>2, WireStep
    <3> QED
      BY <3>1, <3>2, WireStep
  <2> QED
    BY <2>6 DEF Part, IsPart
<1> QED
  BY <1>2, <1>3, TailInv, TypeCorrect, PTL DEF Spec
=============================================================================
