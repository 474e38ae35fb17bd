-------------------------- MODULE SessionPoolProofs --------------------------
(***************************************************************************)
(* Facts about the queue operations of SessionPool, for every queue: what  *)
(* the byte counts add up to, and that a rollback undoes a drain.          *)
(***************************************************************************)
EXTENDS SessionPool, SequenceTheorems, FiniteSetTheorems, TLAPS

(* The set of bytes PayloadBytes counts.                                   *)
BytesOf(q) == {x \in (1..Len(q)) \X (1..MaxPayload) : x[2] <= q[x[1]].payload}

(* A queue holds finitely many bytes.                                      *)
LEMMA BytesFinite ==
  ASSUME NEW q \in Seq(Frame)
  PROVE  /\ IsFiniteSet(BytesOf(q))
         /\ PayloadBytes(q) = Cardinality(BytesOf(q))
         /\ PayloadBytes(q) \in Nat
<1>1. Len(q) \in Nat /\ MaxPayload \in Nat
  BY SizesAssumption
<1>2. IsFiniteSet((1..Len(q)) \X (1..MaxPayload))
  <2>1. IsFiniteSet(1..Len(q)) /\ IsFiniteSet(1..MaxPayload)
    BY <1>1, FS_Interval
  <2> QED
    BY <2>1, FS_Product, Zenon
<1>3. BytesOf(q) \in SUBSET ((1..Len(q)) \X (1..MaxPayload))
  BY DEF BytesOf
<1>4. IsFiniteSet(BytesOf(q))
  BY <1>2, <1>3, FS_Subset
<1>5. PayloadBytes(q) = Cardinality(BytesOf(q))
  BY DEF PayloadBytes, BytesOf
<1> QED
  BY <1>4, <1>5, FS_CardinalityType

(* An empty queue holds none.                                              *)
LEMMA BytesEmpty == PayloadBytes(<<>>) = 0
<1>1. <<>> \in Seq(Frame)
  BY EmptySeq
<1>2. BytesOf(<<>>) = {}
  BY EmptySeq DEF BytesOf
<1> QED
  BY <1>1, <1>2, BytesFinite, FS_EmptySet

(* One frame holds its payload.                                            *)
LEMMA BytesSingle ==
  ASSUME NEW f \in Frame
  PROVE  PayloadBytes(<<f>>) = f.payload
<1> DEFINE pair == [b \in 1..f.payload |-> <<1, b>>]
<1>1. <<f>> \in Seq(Frame) /\ Len(<<f>>) = 1 /\ <<f>>[1] = f
  OBVIOUS
<1>2. f.payload \in 0..MaxPayload /\ MaxPayload \in Nat
  BY SizesAssumption DEF Frame
<1>3. pair \in Bijection(1..f.payload, BytesOf(<<f>>))
  <2>1. \A b \in 1..f.payload : pair[b] \in BytesOf(<<f>>)
    BY <1>1, <1>2 DEF BytesOf
  <2>2. \A b, c \in 1..f.payload : pair[b] = pair[c] => b = c
    OBVIOUS
  <2>3. \A x \in BytesOf(<<f>>) : \E b \in 1..f.payload : pair[b] = x
    BY <1>1, <1>2 DEF BytesOf
  <2> QED
    BY <2>1, <2>2, <2>3 DEF Bijection, Injection, Surjection, IsInjective
<1>4. IsFiniteSet(1..f.payload) /\ Cardinality(1..f.payload) = f.payload
  <2>1. \A k \in Nat : IsFiniteSet(1..k) /\ Cardinality(1..k) = k
    BY FS_Interval
  <2> QED
    BY <1>2, <2>1
<1> QED
  BY <1>1, <1>3, <1>4, FS_Bijection, BytesFinite DEF ExistsBijection

(* The bytes of a concatenation are those of its parts.                    *)
LEMMA BytesConcat ==
  ASSUME NEW p \in Seq(Frame), NEW q \in Seq(Frame)
  PROVE  PayloadBytes(p \o q) = PayloadBytes(p) + PayloadBytes(q)
<1> DEFINE A == BytesOf(p)
           B == BytesOf(q)
           C == {x \in ((Len(p) + 1)..(Len(p) + Len(q))) \X (1..MaxPayload) :
                    x[2] <= q[x[1] - Len(p)].payload}
           shift == [x \in B |-> <<x[1] + Len(p), x[2]>>]
<1>1. Len(p) \in Nat /\ Len(q) \in Nat /\ MaxPayload \in Nat
  BY SizesAssumption
<1>2. p \o q \in Seq(Frame) /\ Len(p \o q) = Len(p) + Len(q)
  BY ConcatProperties
<1>3. \A i \in 1..(Len(p) + Len(q)) :
         (p \o q)[i] = IF i <= Len(p) THEN p[i] ELSE q[i - Len(p)]
  BY ConcatProperties
<1>4. BytesOf(p \o q) = A \cup C
  <2>1. ASSUME NEW x \in BytesOf(p \o q)
        PROVE  x \in A \cup C
    <3>1. PICK i \in 1..(Len(p) + Len(q)), b \in 1..MaxPayload : x = <<i, b>>
      BY <1>2 DEF BytesOf
    <3>2. b <= (p \o q)[i].payload
      BY <3>1 DEF BytesOf
    <3>3. CASE i <= Len(p)
      BY <3>1, <3>2, <3>3, <1>1, <1>3 DEF BytesOf
    <3>4. CASE ~(i <= Len(p))
      BY <3>1, <3>2, <3>4, <1>1, <1>3
    <3> QED
      BY <3>3, <3>4
  <2>2. ASSUME NEW x \in A
        PROVE  x \in BytesOf(p \o q)
    <3>1. PICK i \in 1..Len(p), b \in 1..MaxPayload : x = <<i, b>>
      BY DEF BytesOf
    <3>2. i \in 1..Len(p \o q) /\ (p \o q)[i] = p[i]
      BY <1>1, <1>2, <1>3
    <3> QED
      BY <3>1, <3>2 DEF BytesOf
  <2>3. ASSUME NEW x \in C
        PROVE  x \in BytesOf(p \o q)
    <3>1. PICK i \in (Len(p) + 1)..(Len(p) + Len(q)), b \in 1..MaxPayload : x = <<i, b>>
      OBVIOUS
    <3>2. i \in 1..Len(p \o q) /\ (p \o q)[i] = q[i - Len(p)]
      BY <1>1, <1>2, <1>3
    <3>3. b <= q[i - Len(p)].payload
      BY <3>1
    <3> QED
      BY <3>1, <3>2, <3>3 DEF BytesOf
  <2> QED
    BY <2>1, <2>2, <2>3
<1>5. A \cap C = {}
  BY <1>1 DEF BytesOf
<1>6. shift \in Bijection(B, C)
  <2>1. ASSUME NEW x \in B
        PROVE  shift[x] \in C
    <3>1. PICK i \in 1..Len(q), b \in 1..MaxPayload : x = <<i, b>>
      BY DEF BytesOf
    <3>2. shift[x] = <<i + Len(p), b>> /\ b <= q[i].payload
      BY <3>1 DEF BytesOf
    <3>3. i + Len(p) \in (Len(p) + 1)..(Len(p) + Len(q)) /\ (i + Len(p)) - Len(p) = i
      BY <1>1
    <3> QED
      BY <3>2, <3>3
  <2>2. ASSUME NEW x \in B, NEW y \in B, shift[x] = shift[y]
        PROVE  x = y
    <3>1. PICK i \in 1..Len(q), b \in 1..MaxPayload : x = <<i, b>>
      BY DEF BytesOf
    <3>2. PICK j \in 1..Len(q), c \in 1..MaxPayload : y = <<j, c>>
      BY DEF BytesOf
    <3> QED
      BY <3>1, <3>2, <2>2, <1>1
  <2>3. ASSUME NEW y \in C
        PROVE  \E x \in B : shift[x] = y
    <3>1. PICK i \in (Len(p) + 1)..(Len(p) + Len(q)), b \in 1..MaxPayload : y = <<i, b>>
      OBVIOUS
    <3>2. i - Len(p) \in 1..Len(q) /\ (i - Len(p)) + Len(p) = i
      BY <1>1
    <3>3. <<i - Len(p), b>> \in B
      BY <3>1, <3>2 DEF BytesOf
    <3> QED
      BY <3>1, <3>2, <3>3
  <2> HIDE DEF C
  <2>4. shift \in [B -> C]
    BY <2>1
  <2> QED
    BY <2>2, <2>3, <2>4 DEF Bijection, Injection, Surjection, IsInjective
<1>7. IsFiniteSet(C) /\ Cardinality(C) = Cardinality(B)
  BY <1>6, BytesFinite, FS_Bijection DEF ExistsBijection
<1>8. Cardinality(A \cup C) = Cardinality(A) + Cardinality(C) - Cardinality(A \cap C)
  BY <1>7, BytesFinite, FS_Union
<1>9. /\ PayloadBytes(p) = Cardinality(A)
      /\ PayloadBytes(q) = Cardinality(B)
      /\ PayloadBytes(p \o q) = Cardinality(A \cup C)
  BY <1>2, <1>4, BytesFinite
<1> HIDE DEF A, B, C
<1>10. Cardinality(A \cap C) = 0 /\ Cardinality(A) \in Nat /\ Cardinality(C) \in Nat
  BY <1>5, <1>7, BytesFinite, FS_EmptySet, FS_CardinalityType DEF A
<1> QED
  BY <1>7, <1>8, <1>9, <1>10

(* A sequence is its first k elements and the rest.                        *)
LEMMA SequenceSplits ==
  ASSUME NEW S, NEW q \in Seq(S), NEW k \in 0..Len(q)
  PROVE  /\ SubSeq(q, 1, k) \in Seq(S)
         /\ SubSeq(q, k + 1, Len(q)) \in Seq(S)
         /\ SubSeq(q, 1, k) \o SubSeq(q, k + 1, Len(q)) = q
<1>1. Len(q) \in Nat
  OBVIOUS
<1>2. 1 \in 1..(Len(q) + 1) /\ k \in (1 - 1)..Len(q) /\ Len(q) \in k..Len(q)
  BY <1>1
<1>3. SubSeq(q, 1, k) \o SubSeq(q, k + 1, Len(q)) = SubSeq(q, 1, Len(q))
  BY ONLY <1>2, ConcatAdjacentSubSeq, Zenon
<1>4. \A i \in 1..Len(q) : q[i] \in S
  OBVIOUS
<1>5. SubSeq(q, 1, k) \in Seq(S)
  BY <1>1, <1>4, SubSeqProperties
<1>6. SubSeq(q, k + 1, Len(q)) \in Seq(S)
  BY <1>1, <1>4, SubSeqProperties
<1>7. SubSeq(q, 1, Len(q)) = q
  BY SubSeqFull
<1> QED
  BY <1>3, <1>5, <1>6, <1>7

LEMMA SequenceSuffix ==
  ASSUME NEW S, NEW p \in Seq(S), NEW q \in Seq(S)
  PROVE  q = SubSeq(p \o q, Len(p) + 1, Len(p \o q))
<1>1. Len(p) \in Nat /\ Len(q) \in Nat /\ Len(p \o q) = Len(p) + Len(q)
  BY ConcatProperties
<1>2. CASE Len(q) = 0
  <2>1. q = <<>>
    BY <1>2, EmptySeq
  <2> QED
    BY <1>1, <1>2, <2>1, SubSeqEmpty
<1>3. CASE Len(q) # 0
  <2>1. /\ Len(p) + 1 \in (Len(p) + 1)..(Len(p) + Len(q))
        /\ Len(p) + Len(q) \in (Len(p) + 1)..(Len(p) + Len(q))
        /\ (Len(p) + 1) - Len(p) = 1 /\ (Len(p) + Len(q)) - Len(p) = Len(q)
    BY <1>1, <1>3
  <2>2. SubSeq(p \o q, Len(p) + 1, Len(p) + Len(q)) = SubSeq(q, 1, Len(q))
    BY <2>1, SubSeqOfConcat2
  <2> QED
    BY <1>1, <2>2, SubSeqFull
<1> QED
  BY <1>2, <1>3

(* A drain splits the queue in two.                                        *)
LEMMA DrainSplits ==
  ASSUME NEW s \in Session, NEW n \in Nat
  PROVE  /\ SnapshotLen(s, n) \in 0..Len(s.tx_q)
         /\ Snapshot(s, n) \in Seq(Frame)
         /\ Undrained(s, n) \in Seq(Frame)
         /\ Snapshot(s, n) \o Undrained(s, n) = s.tx_q
<1>1. s.tx_q \in Seq(Frame) /\ Len(s.tx_q) \in Nat
  BY DEF Session
<1>2. SnapshotLen(s, n) \in 0..Len(s.tx_q)
  BY <1>1 DEF SnapshotLen
<1>3. \A i \in 1..Len(s.tx_q) : s.tx_q[i] \in Frame
  BY <1>1, ElementOfSeq
<1>4. Snapshot(s, n) \in Seq(Frame) /\ Undrained(s, n) \in Seq(Frame)
  BY <1>1, <1>2, <1>3, SubSeqProperties DEF Snapshot, Undrained
<1>5. Snapshot(s, n) \o Undrained(s, n) = s.tx_q
  BY <1>1, <1>2, SequenceSplits DEF Snapshot, Undrained
<1> QED
  BY <1>2, <1>4, <1>5

(* What an operation leaves is a session, and its byte count and its event *)
(* agree with its queue if they did before.                                *)
LEMMA NewSessionAccounted == NewSession \in Session /\ Accounted(NewSession)
BY BytesEmpty, EmptySeq DEF NewSession, Session, Accounted

LEMMA EnqueueTxAccounted ==
  ASSUME NEW s \in Session, NEW f \in Frame
  PROVE  /\ EnqueueTx(s, f) \in Session
         /\ EnqueueTx(s, f).tx_q = Append(s.tx_q, f)
         /\ Accounted(s) => Accounted(EnqueueTx(s, f))
<1>1. s.tx_q \in Seq(Frame) /\ s.tx_bytes \in Nat /\ f.payload \in Nat
  BY SizesAssumption DEF Session, Frame
<1>2. EnqueueTx(s, f) \in Session
  <2>1. Append(s.tx_q, f) \in Seq(Frame) /\ s.tx_bytes + f.payload \in Nat
    BY <1>1, AppendProperties
  <2> QED
    BY <2>1 DEF EnqueueTx, Session
<1>3. /\ EnqueueTx(s, f).tx_q = Append(s.tx_q, f)
      /\ EnqueueTx(s, f).tx_bytes = s.tx_bytes + f.payload
      /\ EnqueueTx(s, f).tx_event = TRUE
      /\ EnqueueTx(s, f).rx_q = s.rx_q
      /\ EnqueueTx(s, f).rx_event = s.rx_event
  BY DEF EnqueueTx, Session
<1>4. Append(s.tx_q, f) = s.tx_q \o <<f>> /\ <<f>> \in Seq(Frame)
  BY <1>1, AppendIsConcat
<1>5. PayloadBytes(<<f>>) = f.payload
  BY <1>4, BytesSingle
<1>6. PayloadBytes(Append(s.tx_q, f)) = PayloadBytes(s.tx_q) + f.payload
  BY <1>1, <1>4, <1>5, BytesConcat
<1>7. Append(s.tx_q, f) # <<>>
  BY <1>1, AppendProperties
<1> QED
  BY <1>2, <1>3, <1>6, <1>7 DEF Accounted

LEMMA EnqueueRxAccounted ==
  ASSUME NEW s \in Session, NEW f \in Frame
  PROVE  /\ EnqueueRx(s, f) \in Session
         /\ EnqueueRx(s, f).tx_q = s.tx_q
         /\ Accounted(s) => Accounted(EnqueueRx(s, f))
BY AppendProperties DEF EnqueueRx, Session, Accounted

LEMMA DrainTxAccounted ==
  ASSUME NEW s \in Session, NEW n \in Nat
  PROVE  /\ DrainTx(s, n) \in Session
         /\ DrainTx(s, n).tx_q = Undrained(s, n)
         /\ Accounted(s) => /\ Accounted(DrainTx(s, n))
                            /\ DrainTx(s, n).tx_bytes + PayloadBytes(Snapshot(s, n)) = s.tx_bytes
<1> DEFINE snap == Snapshot(s, n)
           rest == Undrained(s, n)
           left == s.tx_bytes - PayloadBytes(snap)
<1>1. /\ s.tx_q \in Seq(Frame) /\ s.tx_bytes \in Nat
      /\ snap \in Seq(Frame) /\ rest \in Seq(Frame) /\ snap \o rest = s.tx_q
  BY DrainSplits DEF Session
<1>2. PayloadBytes(snap) \in Nat /\ PayloadBytes(rest) \in Nat
  BY <1>1, BytesFinite
<1>3. PayloadBytes(s.tx_q) = PayloadBytes(snap) + PayloadBytes(rest)
  BY <1>1, BytesConcat
<1>4. CASE s.tx_q = <<>>
  <2>1. snap = <<>> /\ rest = <<>>
    BY <1>1, <1>4, ConcatEqualIffEmpty
  <2> QED
    BY <1>4, <2>1, BytesEmpty DEF DrainTx, Session
<1>5. CASE s.tx_q # <<>>
  <2>1. DrainTx(s, n) = [s EXCEPT !.tx_q = rest,
                                  !.tx_bytes = IF left > 0 THEN left ELSE 0,
                                  !.tx_event = rest # <<>>]
    BY <1>5 DEF DrainTx
  <2>2. (IF left > 0 THEN left ELSE 0) \in Nat
    BY <1>1, <1>2
  <2> HIDE DEF rest, left
  <2>3. /\ DrainTx(s, n) \in Session
        /\ DrainTx(s, n).tx_q = rest
        /\ DrainTx(s, n).tx_bytes = IF left > 0 THEN left ELSE 0
        /\ DrainTx(s, n).rx_q = s.rx_q
        /\ DrainTx(s, n).rx_event = s.rx_event
    BY <1>1, <2>1, <2>2 DEF Session
  <2>4. DrainTx(s, n).tx_event <=> rest # <<>>
    BY <2>1 DEF Session
  <2>5. Accounted(s) => left = PayloadBytes(rest)
    BY <1>1, <1>2, <1>3 DEF Accounted, left
  <2> QED
    BY <1>1, <1>2, <2>3, <2>4, <2>5 DEF Accounted, rest, left
<1> QED
  BY <1>4, <1>5

(* A rolled back session is a session whose queue starts with the frames.  *)
LEMMA RollbackType ==
  ASSUME NEW s \in Session, NEW q \in Seq(Frame)
  PROVE  /\ RollbackDrain(s, q) \in Session
         /\ RollbackDrain(s, q).tx_q = q \o s.tx_q
<1>1. s.tx_q \in Seq(Frame) /\ s.tx_bytes \in Nat /\ PayloadBytes(q) \in Nat
  BY BytesFinite DEF Session
<1>2. q \o s.tx_q \in Seq(Frame) /\ s.tx_bytes + PayloadBytes(q) \in Nat
  BY <1>1, ConcatProperties
<1>3. (s.tx_event \/ q # <<>>) \in BOOLEAN
  OBVIOUS
<1> QED
  BY <1>2, <1>3 DEF RollbackDrain, Session

(* rollback_drain undoes drain_tx_limited_txn: queue, byte count and event *)
(* are what they were.                                                     *)
THEOREM RollbackUndoesDrain ==
  ASSUME NEW s \in Session, NEW n \in Nat, Accounted(s)
  PROVE  RollbackDrain(DrainTx(s, n), Snapshot(s, n)) = s
<1> DEFINE d == DrainTx(s, n)
           snap == Snapshot(s, n)
<1>1. /\ d \in Session /\ d.tx_q = Undrained(s, n)
      /\ d.tx_bytes + PayloadBytes(snap) = s.tx_bytes
  BY DrainTxAccounted
<1>2. d.seq = s.seq /\ d.rx_q = s.rx_q /\ d.rx_event = s.rx_event
  BY DEF DrainTx, Session
<1>3. snap \o Undrained(s, n) = s.tx_q /\ snap \in Seq(Frame) /\ Undrained(s, n) \in Seq(Frame)
  BY DrainSplits
<1>4. d.tx_event \/ snap # <<>> <=> s.tx_q # <<>>
  <2>1. d.tx_event <=> Undrained(s, n) # <<>>
    BY <1>1, DrainTxAccounted DEF Accounted
  <2>2. s.tx_q = <<>> <=> snap = <<>> /\ Undrained(s, n) = <<>>
    BY <1>3, ConcatEqualIffEmpty
  <2> QED
    BY <2>1, <2>2
<1>5. s.tx_event <=> s.tx_q # <<>>
  BY DEF Accounted
<1> HIDE DEF d, snap
<1>6. (d.tx_event \/ snap # <<>>) = s.tx_event
  BY <1>1, <1>4, <1>5 DEF Session
<1>7. RollbackDrain(d, snap) = [d EXCEPT !.tx_q = s.tx_q, !.tx_bytes = s.tx_bytes,
                                         !.tx_event = s.tx_event]
  BY <1>1, <1>3, <1>6 DEF RollbackDrain
<1> QED
  BY <1>1, <1>2, <1>7 DEF Session, d, snap

----------------------------------------------------------------------------
(* Facts about frames and sequences of them that both sides need.          *)
LEMMA FramesTyped ==
  /\ \A s \in Sid : Syn(s) \in Frame /\ Fin(s) \in Frame
  /\ \A s \in Sid, n \in Nat, len \in 0..MaxPayload : Data(s, n, len) \in Frame
BY SizesAssumption DEF Syn, Fin, Data, Frame

LEMMA Associative ==
  \A p, q, r \in Seq(Frame) : (p \o q) \o r = p \o (q \o r)
BY ConcatAssociative

(* The first part of a concatenation is a prefix of it.                    *)
LEMMA SequencePrefix ==
  ASSUME NEW a \in Seq(Frame), NEW b \in Seq(Frame)
  PROVE  /\ Len(a) \in 0..Len(a \o b)
         /\ SubSeq(a \o b, 1, Len(a)) = a
<1>1. a \o b \in Seq(Frame) /\ Len(a \o b) = Len(a) + Len(b)
  BY ConcatProperties
<1>2. Len(a) \in 0..Len(a \o b) /\ Len(a) \in Nat /\ Len(b) \in Nat
  BY <1>1
<1>3. \A i \in 1..Len(a) : (a \o b)[i] = a[i]
  BY <1>2, ConcatProperties
<1> DEFINE p == SubSeq(a \o b, 1, Len(a))
<1>4. /\ p \in Seq(Frame) /\ Len(p) = Len(a)
      /\ \A i \in 1..Len(a) : p[i] = (a \o b)[i]
  <2> DEFINE c == a \o b
             n == Len(a)
  <2>1. c \in Seq(Frame) /\ n \in 0..Len(c)
    BY <1>1, <1>2
  <2> HIDE DEF c, n
  <2>2. /\ SubSeq(c, 1, n) \in Seq(Frame) /\ Len(SubSeq(c, 1, n)) = n
        /\ \A i \in 1..n : SubSeq(c, 1, n)[i] = c[i]
    BY <2>1
  <2> QED
    BY <2>2 DEF c, n
<1> QED
  BY <1>2, <1>3, <1>4, SeqEqual
=============================================================================
