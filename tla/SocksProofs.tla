---------------------------- MODULE SocksProofs ----------------------------
(***************************************************************************)
(* Theorems about one connection of an application, for any application    *)
(* that follows RFC 1928 and 1929, any cut of its bytes into pieces and    *)
(* any response of the server.                                             *)
(*                                                                         *)
(* The module goes up in four steps: what it means to put sequences of     *)
(* bytes, the payloads of frames and the data of ready tasks one behind    *)
(* the other; types and the tasks that are ready; the handshake, of which  *)
(* a handler sees a beginning; and the data in both directions.            *)
(***************************************************************************)
EXTENDS SocksConn, TLAPS, SequenceTheorems, FiniteSetTheorems, WellFoundedInduction

(* Induction, from the well-foundedness of the natural numbers.            *)
LEMMA Least ==
    ASSUME NEW T, T \subseteq Nat, T # {}
    PROVE  \E m \in T : \A k \in T : m <= k
<1> DEFINE R == OpToRel(<, Nat)
<1>1. IsWellFoundedOn(R, Nat)
  BY NatLessThanWellFounded
<1>2. \A i, j \in Nat : i < j => <<i, j>> \in R
  BY DEF OpToRel
<1> HIDE DEF R
<1>3. PICK m \in T : \A k \in T : ~(<<k, m>> \in R)
  BY <1>1, WFMin
<1>4. SUFFICES ASSUME NEW k \in T PROVE m <= k
  OBVIOUS
<1>5. ~ (k < m)
  BY <1>2, <1>3
<1> QED
  BY <1>5

LEMMA Induct ==
    ASSUME NEW S, 0 \in S, \A n \in Nat : n \in S => n + 1 \in S
    PROVE  \A n \in Nat : n \in S
<1> DEFINE T == Nat \ S
<1> SUFFICES ASSUME T # {} PROVE FALSE
  OBVIOUS
<1>1. PICK m \in T : \A k \in T : m <= k
  BY Least
<1>2. m # 0 /\ m - 1 \in Nat /\ m - 1 \notin T
  BY <1>1
<1>3. (m - 1) + 1 = m
  BY <1>1
<1> QED
  BY <1>2, <1>3

(* FlattenSeq chooses the function of partial concatenations: it exists,   *)
(* and its last value is what one expects of Concat.                       *)
Sums(q, n, f) == f = [i \in 1..n |-> IF i = 1 THEN q[i] ELSE f[i - 1] \o q[i]]

LEMMA SumsExist ==
    ASSUME NEW q \in Seq(Seq(Byte))
    PROVE  \A n \in Nat : \E f : Sums(q, n, f)
<1> DEFINE I == {n \in Nat : \E f : Sums(q, n, f)}
<1>1. 0 \in I
  <2>1. Sums(q, 0, [i \in 1..0 |-> <<>>])
    BY DEF Sums
  <2> QED
    BY <2>1
<1>2. ASSUME NEW n \in Nat, n \in I  PROVE n + 1 \in I
  <2>1. PICK f : Sums(q, n, f)
    BY <1>2
  <2> DEFINE g == [i \in 1..(n + 1) |-> IF i = 1 THEN q[i] ELSE f[i - 1] \o q[i]]
  <2>a. ASSUME NEW i \in 1..n  PROVE f[i] = IF i = 1 THEN q[i] ELSE f[i - 1] \o q[i]
    <3> DEFINE F(j) == IF j = 1 THEN q[j] ELSE f[j - 1] \o q[j]
    <3>1. f = [j \in 1..n |-> F(j)]
      BY <2>1 DEF Sums
    <3> HIDE DEF F
    <3>2. f[i] = F(i)
      BY <3>1
    <3> QED
      BY <3>2 DEF F
  <2>b. n \in Nat /\ 1..n \subseteq 1..(n + 1)
    OBVIOUS
  <2>2. \A i \in 1..n : g[i] = f[i]
    BY <2>a, <2>b
  <2>3. \A i \in 1..(n + 1) : i # 1 => i - 1 \in 1..n
    OBVIOUS
  <2>4. Sums(q, n + 1, g)
    BY <2>2, <2>3 DEF Sums
  <2> QED
    BY <2>4
<1> HIDE DEF I
<1>3. \A n \in Nat : n \in I
  BY <1>1, <1>2, Induct
<1> QED
  BY <1>3 DEF I

LEMMA ConcatIsSum ==
    ASSUME NEW q \in Seq(Seq(Byte)), Len(q) # 0
    PROVE  \E f : Sums(q, Len(q), f) /\ Concat(q) = f[Len(q)]
<1> DEFINE f == CHOOSE g : Sums(q, Len(q), g)
<1>1. Len(q) \in Nat
  OBVIOUS
<1>2. Sums(q, Len(q), f)
  BY SumsExist, <1>1
<1>3. Concat(q) = f[Len(q)]
  BY DEF Concat, FlattenSeq, Sums
<1> QED
  BY <1>2, <1>3

LEMMA SumUnfold ==
    ASSUME NEW q, NEW n \in Nat, NEW f, Sums(q, n, f), NEW i \in 1..n
    PROVE  f[i] = IF i = 1 THEN q[i] ELSE f[i - 1] \o q[i]
<1> DEFINE F(j) == IF j = 1 THEN q[j] ELSE f[j - 1] \o q[j]
<1>1. f = [j \in 1..n |-> F(j)]
  BY DEF Sums
<1> HIDE DEF F
<1>2. f[i] = F(i)
  BY <1>1
<1> QED
  BY <1>2 DEF F

LEMMA ConcatNone == Concat(<<>>) = <<>>
BY DEF Concat, FlattenSeq

LEMMA ConcatTyped ==
    ASSUME NEW q \in Seq(Seq(Byte))
    PROVE  Concat(q) \in Seq(Byte)
<1>1. CASE Len(q) = 0
  BY <1>1 DEF Concat, FlattenSeq
<1>2. CASE Len(q) # 0
  <2> DEFINE n == Len(q)
  <2>1. n \in Nat /\ n \in 1..n
    BY <1>2
  <2>2. PICK f : Sums(q, n, f) /\ Concat(q) = f[n]
    BY <1>2, ConcatIsSum
  <2> DEFINE I == {k \in Nat : k \in 1..n => f[k] \in Seq(Byte)}
  <2>3. 0 \in I
    OBVIOUS
  <2>4. ASSUME NEW k \in Nat, k \in I  PROVE k + 1 \in I
    <3> SUFFICES ASSUME k + 1 \in 1..n PROVE f[k + 1] \in Seq(Byte)
      OBVIOUS
    <3>1. q[k + 1] \in Seq(Byte)
      OBVIOUS
    <3>2. f[k + 1] = IF k + 1 = 1 THEN q[k + 1] ELSE f[(k + 1) - 1] \o q[k + 1]
      BY <2>1, <2>2, SumUnfold
    <3>3. k + 1 # 1 => f[(k + 1) - 1] \in Seq(Byte)
      BY <2>4
    <3> QED
      BY <3>1, <3>2, <3>3
  <2> HIDE DEF I
  <2>5. n \in I
    BY <2>1, <2>3, <2>4, Induct
  <2> QED
    BY <2>1, <2>2, <2>5 DEF I
<1> QED
  BY <1>1, <1>2

LEMMA ConcatAppended ==
    ASSUME NEW q \in Seq(Seq(Byte)), NEW x \in Seq(Byte)
    PROVE  Concat(Append(q, x)) = Concat(q) \o x
<1> DEFINE p == Append(q, x)
           n == Len(q)
<1>1. p \in Seq(Seq(Byte)) /\ n \in Nat /\ Len(p) = n + 1 /\ p[n + 1] = x
        /\ \A i \in 1..n : p[i] = q[i]
  OBVIOUS
<1> HIDE DEF p
<1>a. Len(p) # 0 /\ n + 1 \in Nat
  BY <1>1
<1>2. PICK g : Sums(p, n + 1, g) /\ Concat(p) = g[n + 1]
  BY <1>1, <1>a, ConcatIsSum
<1>b. \A i \in 1..(n + 1) : g[i] = IF i = 1 THEN p[i] ELSE g[i - 1] \o p[i]
  BY <1>2, <1>a, SumUnfold
<1>3. CASE n = 0
  <2>1. g[1] = p[1]
    BY <1>2, <1>3, SumUnfold
  <2>2. Concat(q) = <<>>
    BY <1>3 DEF Concat, FlattenSeq
  <2> QED
    BY <2>1, <2>2, <1>1, <1>2, <1>3 DEF p
<1>4. CASE n # 0
  <2>1. PICK f : Sums(q, n, f) /\ Concat(q) = f[n]
    BY <1>4, ConcatIsSum
  <2> DEFINE I == {k \in Nat : k \in 1..n => g[k] = f[k]}
  <2>3. 0 \in I
    OBVIOUS
  <2>4. ASSUME NEW k \in Nat, k \in I  PROVE k + 1 \in I
    <3> SUFFICES ASSUME k + 1 \in 1..n PROVE g[k + 1] = f[k + 1]
      OBVIOUS
    <3>1. q[k + 1] = p[k + 1] /\ k + 1 \in 1..(n + 1)
      BY <1>1
    <3>2. f[k + 1] = IF k + 1 = 1 THEN q[k + 1] ELSE f[(k + 1) - 1] \o q[k + 1]
      BY <1>1, <2>1, SumUnfold, ZenonT(40)
    <3>3. g[k + 1] = IF k + 1 = 1 THEN p[k + 1] ELSE g[(k + 1) - 1] \o p[k + 1]
      BY <1>b, <3>1
    <3>4. k + 1 # 1 => g[(k + 1) - 1] = f[(k + 1) - 1]
      BY <2>4
    <3> QED
      BY <3>1, <3>2, <3>3, <3>4
  <2> HIDE DEF I
  <2>5. n \in I
    BY <1>1, <2>3, <2>4, Induct
  <2>6. g[n] = f[n]
    BY <2>5, <1>4, <1>1 DEF I
  <2>7. g[n + 1] = IF n + 1 = 1 THEN p[n + 1] ELSE g[(n + 1) - 1] \o p[n + 1]
    BY <1>1, <1>2, SumUnfold
  <2>8. (n + 1) - 1 = n /\ n + 1 # 1
    BY <1>1, <1>4
  <2>9. g[n + 1] = g[n] \o p[n + 1]
    BY <2>7, <2>8
  <2> QED
    BY <1>1, <1>2, <2>1, <2>6, <2>9 DEF p
<1> QED
  BY <1>3, <1>4

LEMMA Associative ==
    \A a, b, c \in Seq(Byte) : (a \o b) \o c = a \o (b \o c)
<1> TAKE a, b, c \in Seq(Byte)
<1> DEFINE l == (a \o b) \o c
           r == a \o (b \o c)
<1>1. l \in Seq(Byte) /\ r \in Seq(Byte) /\ Len(l) = Len(r) /\ DOMAIN l = 1..Len(l) /\ DOMAIN r = 1..Len(l)
  OBVIOUS
<1>2. \A i \in 1..Len(l) : l[i] = r[i]
  OBVIOUS
<1> HIDE DEF l, r
<1>3. l = r
  BY <1>1, <1>2, SMTT(30)
<1> QED
  BY <1>3 DEF l, r

LEMMA ConcatJoined ==
    ASSUME NEW s \in Seq(Seq(Byte)), NEW t \in Seq(Seq(Byte))
    PROVE  Concat(s \o t) = Concat(s) \o Concat(t)
<1> DEFINE P(u) == Concat(s \o u) = Concat(s) \o Concat(u)
           I == {k \in Nat : \A u \in Seq(Seq(Byte)) : Len(u) = k => P(u)}
<1>1. 0 \in I
  <2> SUFFICES ASSUME NEW u \in Seq(Seq(Byte)), Len(u) = 0 PROVE P(u)
    OBVIOUS
  <2>1. u = <<>>
    OBVIOUS
  <2>2. s \o u = s
    BY <2>1
  <2>3. Concat(s) \in Seq(Byte)
    BY ConcatTyped
  <2>4. Concat(s) \o <<>> = Concat(s)
    BY <2>3
  <2> QED
    BY <2>1, <2>2, <2>4, ConcatNone
<1>2. ASSUME NEW k \in Nat, k \in I  PROVE k + 1 \in I
  <2> SUFFICES ASSUME NEW u \in Seq(Seq(Byte)), Len(u) = k + 1 PROVE P(u)
    OBVIOUS
  <2> DEFINE v == SubSeq(u, 1, k)
             x == u[k + 1]
  <2>1. v \in Seq(Seq(Byte)) /\ x \in Seq(Byte) /\ Len(v) = k
    OBVIOUS
  <2>2. u = Append(v, x)
    OBVIOUS
  <2>4. P(v)
    BY <1>2, <2>1
  <2> HIDE DEF v, x
  <2>5. s \o v \in Seq(Seq(Byte))
    BY <2>1
  <2>3. s \o u = Append(s \o v, x)
    BY <2>1, <2>2, <2>5
  <2>6. Concat(s \o u) = Concat(s \o v) \o x
    BY <2>1, <2>3, <2>5, ConcatAppended
  <2>7. Concat(u) = Concat(v) \o x
    BY <2>1, <2>2, ConcatAppended
  <2>8. Concat(s) \in Seq(Byte) /\ Concat(v) \in Seq(Byte)
    BY <2>1, ConcatTyped
  <2>9. (Concat(s) \o Concat(v)) \o x = Concat(s) \o (Concat(v) \o x)
    <3> DEFINE a == Concat(s)
               b == Concat(v)
    <3>1. a \in Seq(Byte) /\ b \in Seq(Byte) /\ x \in Seq(Byte)
      BY <2>1, <2>8
    <3> HIDE DEF a, b
    <3>2. (a \o b) \o x = a \o (b \o x)
      BY <3>1, Associative
    <3> QED
      BY <3>2 DEF a, b
  <2> QED
    BY <2>4, <2>6, <2>7, <2>9
<1> HIDE DEF I
<1>3. \A n \in Nat : n \in I
  BY <1>1, <1>2, Induct
<1> QED
  BY <1>3 DEF I

(* What is appended comes last, what is first comes first.                 *)
LEMMA ConcatFirst ==
    ASSUME NEW q \in Seq(Seq(Byte)), q # <<>>
    PROVE  Concat(q) = Head(q) \o Concat(Tail(q))
<1> DEFINE h == <<Head(q)>>
<1>1. h \in Seq(Seq(Byte)) /\ Tail(q) \in Seq(Seq(Byte)) /\ Head(q) \in Seq(Byte)
  OBVIOUS
<1>2. q = h \o Tail(q)
  OBVIOUS
<1>3. h = Append(<<>>, Head(q)) /\ <<>> \in Seq(Seq(Byte))
  OBVIOUS
<1>4. Concat(h) = Concat(<<>>) \o Head(q)
  BY <1>1, <1>3, ConcatAppended
<1>6. <<>> \o Head(q) = Head(q)
  BY <1>1, ConcatEmptySeq
<1>5. Concat(h) = Head(q)
  BY <1>4, <1>6, ConcatNone
<1> HIDE DEF h
<1> QED
  BY <1>1, <1>2, <1>5, ConcatJoined

(* The payloads of frames, one after the other.                            *)
LEMMA PayloadList ==
    ASSUME NEW fs \in Seq(Frames)
    PROVE  [i \in DOMAIN fs |-> fs[i].payload] \in Seq(Seq(Byte))
<1>1. \A i \in 1..Len(fs) : fs[i].payload \in Seq(Byte)
  <2>1. \A f \in Frames : f.payload \in Seq(Byte)
    BY DEF Frames
  <2>2. \A i \in 1..Len(fs) : fs[i] \in Frames
    OBVIOUS
  <2> QED
    BY <2>1, <2>2
<1>2. DOMAIN fs = 1..Len(fs) /\ Len(fs) \in Nat
  OBVIOUS
<1>3. [i \in DOMAIN fs |-> fs[i].payload] \in [1..Len(fs) -> Seq(Byte)]
  BY <1>1, <1>2
<1> QED
  BY <1>2, <1>3

LEMMA PayloadsTyped ==
    ASSUME NEW fs \in Seq(Frames)
    PROVE  Payloads(fs) \in Seq(Byte)
BY PayloadList, ConcatTyped DEF Payloads

LEMMA PayloadsNone == Payloads(<<>>) = <<>>
<1>1. [i \in DOMAIN <<>> |-> <<>>[i].payload] = <<>>
  OBVIOUS
<1> QED
  BY <1>1, ConcatNone DEF Payloads

LEMMA PayloadsAppended ==
    ASSUME NEW fs \in Seq(Frames), NEW f \in Frames
    PROVE  Payloads(Append(fs, f)) = Payloads(fs) \o f.payload
<1> DEFINE a == [i \in DOMAIN fs |-> fs[i].payload]
           p == Append(fs, f)
           b == [i \in DOMAIN p |-> p[i].payload]
<1>1. a \in Seq(Seq(Byte)) /\ f.payload \in Seq(Byte)
  BY PayloadList DEF Frames
<1>2. b = Append(a, f.payload)
  <2>1. p \in Seq(Frames) /\ Len(p) = Len(fs) + 1 /\ p[Len(fs) + 1] = f
          /\ Len(fs) \in Nat /\ \A i \in 1..Len(fs) : p[i] = fs[i]
    OBVIOUS
  <2>2. DOMAIN p = 1..Len(p) /\ DOMAIN fs = 1..Len(fs)
    BY <2>1
  <2> HIDE DEF p
  <2>3. Len(a) = Len(fs) /\ \A i \in 1..Len(fs) : a[i] = fs[i].payload
    BY <1>1, <2>2
  <2>4. b \in Seq(Seq(Byte))
    BY <2>1, PayloadList
  <2>5. Len(b) = Len(fs) + 1 /\ \A i \in 1..(Len(fs) + 1) : b[i] = p[i].payload
    BY <2>1, <2>2, <2>4
  <2> HIDE DEF a, b
  <2>6. \A i \in 1..(Len(fs) + 1) : b[i] = Append(a, f.payload)[i]
    BY <1>1, <2>1, <2>3, <2>5
  <2> QED
    BY <1>1, <2>1, <2>3, <2>4, <2>5, <2>6
<1> HIDE DEF a
<1> QED
  BY <1>1, <1>2, ConcatAppended DEF Payloads, a

LEMMA PayloadsJoined ==
    ASSUME NEW fs \in Seq(Frames), NEW gs \in Seq(Frames)
    PROVE  Payloads(fs \o gs) = Payloads(fs) \o Payloads(gs)
<1> DEFINE a == [i \in DOMAIN fs |-> fs[i].payload]
           b == [i \in DOMAIN gs |-> gs[i].payload]
           p == fs \o gs
           c == [i \in DOMAIN p |-> p[i].payload]
<1>1. a \in Seq(Seq(Byte)) /\ b \in Seq(Seq(Byte))
  BY PayloadList
<1>2. c = a \o b
  <2>1. p \in Seq(Frames) /\ Len(p) = Len(fs) + Len(gs) /\ Len(fs) \in Nat /\ Len(gs) \in Nat
    OBVIOUS
  <2>2. \A i \in 1..Len(p) : p[i] = IF i <= Len(fs) THEN fs[i] ELSE gs[i - Len(fs)]
    OBVIOUS
  <2>3. DOMAIN p = 1..Len(p) /\ DOMAIN fs = 1..Len(fs) /\ DOMAIN gs = 1..Len(gs)
    BY <2>1
  <2> HIDE DEF p
  <2>4. Len(a) = Len(fs) /\ \A i \in 1..Len(fs) : a[i] = fs[i].payload
    BY <1>1, <2>3
  <2>5. Len(b) = Len(gs) /\ \A i \in 1..Len(gs) : b[i] = gs[i].payload
    BY <1>1, <2>3
  <2>6. c \in Seq(Seq(Byte))
    BY <2>1, PayloadList
  <2>7. Len(c) = Len(p) /\ \A i \in 1..Len(p) : c[i] = p[i].payload
    BY <2>1, <2>3, <2>6
  <2> HIDE DEF a, b, c
  <2>8. \A i \in 1..Len(p) : i > Len(fs) => i - Len(fs) \in 1..Len(gs)
    BY <2>1
  <2>9. ASSUME NEW i \in 1..Len(p)
        PROVE  c[i] = (a \o b)[i]
    <3>1. i \in 1..(Len(a) + Len(b))
      BY <2>1, <2>4, <2>5
    <3>2. (a \o b)[i] = IF i <= Len(a) THEN a[i] ELSE b[i - Len(a)]
      BY <1>1, <3>1
    <3>3. c[i] = p[i].payload /\ p[i] = IF i <= Len(fs) THEN fs[i] ELSE gs[i - Len(fs)]
      BY <2>2, <2>7
    <3>4. CASE i <= Len(fs)
      <4>1. i \in 1..Len(fs)
        BY <2>1, <3>4
      <4> QED
        BY <2>4, <3>2, <3>3, <3>4, <4>1
    <3>5. CASE ~ (i <= Len(fs))
      <4>1. i - Len(fs) \in 1..Len(gs)
        BY <2>1, <2>8, <3>5
      <4> QED
        BY <2>4, <2>5, <3>2, <3>3, <3>5, <4>1
    <3> QED
      BY <3>4, <3>5
  <2>10. a \o b \in Seq(Seq(Byte)) /\ Len(a \o b) = Len(p)
    BY <1>1, <2>1, <2>4, <2>5, ConcatProperties
  <2> QED
    BY <2>6, <2>7, <2>9, <2>10, SeqEqual
<1> HIDE DEF a, b
<1> QED
  BY <1>1, <1>2, ConcatJoined DEF Payloads, a, b

(* Frames made of chunks carry the chunks.                                 *)
LEMMA PayloadsOfChunks ==
    ASSUME NEW fs \in Seq(Frames), NEW q \in Seq(Seq(Byte)), Len(fs) = Len(q),
           \A i \in 1..Len(q) : fs[i].payload = q[i]
    PROVE  Payloads(fs) = Concat(q)
<1>1. [i \in DOMAIN fs |-> fs[i].payload] = q
  <2>1. [i \in DOMAIN fs |-> fs[i].payload] \in Seq(Seq(Byte))
    BY PayloadList
  <2>2. DOMAIN fs = 1..Len(q)
    OBVIOUS
  <2> QED
    BY <2>1, <2>2
<1> QED
  BY <1>1 DEF Payloads
-----------------------------------------------------------------------------
(* The queue of ready tasks.                                               *)
Task == {<<"open">>, <<"read">>, <<"drain">>, <<"close">>} \cup ({"write"} \X Seq(Byte))

Once(q, task)  == \E i \in DOMAIN q : \A j \in DOMAIN q : q[j][1] = task <=> j = i
Never(q, task) == \A i \in DOMAIN q : q[i][1] # task

(* Only the first task may be an open(); a close() comes behind the last   *)
(* turn of the drain loop.                                                 *)
OpenFirst(q) == \A i \in DOMAIN q : q[i][1] = "open" => i = 1
CloseLast(q) ==
    \A i, j \in DOMAIN q : q[i][1] = "close" /\ q[j][1] = "drain" => j < i

Chunk(t) == IF t[1] = "write" THEN t[2] ELSE <<>>
Held(q)  == Concat([i \in DOMAIN q |-> Chunk(q[i])])

LEMMA TaskFacts ==
    /\ \A t \in Task : t[1] \in {"open", "read", "drain", "close", "write"} /\ Chunk(t) \in Seq(Byte)
    /\ \A d \in Seq(Byte) : <<"write", d>> \in Task /\ Chunk(<<"write", d>>) = d
    /\ \A n \in {"open", "read", "drain", "close"} : <<n>> \in Task /\ Chunk(<<n>>) = <<>>
<1>1. ASSUME NEW t \in Task
      PROVE  t[1] \in {"open", "read", "drain", "close", "write"} /\ Chunk(t) \in Seq(Byte)
  <2>1. CASE t \in {<<"open">>, <<"read">>, <<"drain">>, <<"close">>}
    <3>1. t[1] \in {"open", "read", "drain", "close"} /\ <<>> \in Seq(Byte)
      BY <2>1
    <3> QED
      BY <3>1 DEF Chunk
  <2>2. CASE t \in {"write"} \X Seq(Byte)
    <3>1. t[1] = "write" /\ t[2] \in Seq(Byte)
      BY <2>2
    <3> QED
      BY <3>1 DEF Chunk
  <2> QED
    BY <2>1, <2>2 DEF Task
<1>2. ASSUME NEW d \in Seq(Byte)
      PROVE  <<"write", d>> \in Task /\ Chunk(<<"write", d>>) = d
  BY DEF Task, Chunk
<1>3. ASSUME NEW n \in {"open", "read", "drain", "close"}
      PROVE  <<n>> \in Task /\ Chunk(<<n>>) = <<>>
  BY DEF Task, Chunk
<1> QED
  BY <1>1, <1>2, <1>3

LEMMA NoTasks == \A task : Never(<<>>, task)
BY DEF Never

(* A turn takes the first task, whatever else is ready.                    *)
LEMMA TurnTaken ==
    ASSUME NEW q \in Seq(Task), q # <<>>, NEW task
    PROVE  /\ Tail(q) \in Seq(Task)
           /\ Never(q, task) => Never(Tail(q), task)
           /\ Once(q, task) /\ Head(q)[1] # task => Once(Tail(q), task)
           /\ Once(q, task) /\ Head(q)[1] = task => Never(Tail(q), task)
           /\ Never(q, task) => Head(q)[1] # task
<1> DEFINE t == Tail(q)
<1>1. t \in Seq(Task) /\ Len(q) = Len(t) + 1 /\ Len(t) \in Nat /\ Head(q) = q[1]
        /\ \A i \in 1..Len(t) : t[i] = q[i + 1]
  OBVIOUS
<1>2. DOMAIN q = 1..(Len(t) + 1) /\ DOMAIN t = 1..Len(t)
  BY <1>1
<1> HIDE DEF t
<1>3. Never(q, task) => Never(t, task)
  BY <1>1, <1>2 DEF Never
<1>4. Never(q, task) => Head(q)[1] # task
  BY <1>1, <1>2 DEF Never
<1>5. ASSUME Once(q, task)
      PROVE  IF Head(q)[1] = task THEN Never(t, task) ELSE Once(t, task)
  <2>1. PICK i \in 1..(Len(t) + 1) : \A j \in 1..(Len(t) + 1) : q[j][1] = task <=> j = i
    BY <1>2, <1>5, SMTT(30) DEF Once
  <2>2. \A j \in 1..Len(t) : t[j][1] = task <=> j + 1 = i
    BY <1>1, <2>1
  <2>3. Head(q)[1] = task <=> i = 1
    BY <1>1, <2>1
  <2>4. CASE i = 1
    <3>1. \A j \in 1..Len(t) : t[j][1] # task
      BY <1>1, <2>2, <2>4
    <3> QED
      BY <1>2, <2>3, <2>4, <3>1 DEF Never
  <2>5. CASE i # 1
    <3>1. i - 1 \in 1..Len(t) /\ \A j \in 1..Len(t) : j + 1 = i <=> j = i - 1
      BY <1>1, <2>1, <2>5
    <3>2. \A j \in 1..Len(t) : t[j][1] = task <=> j = i - 1
      BY <2>2, <3>1
    <3>3. \E k \in 1..Len(t) : \A j \in 1..Len(t) : t[j][1] = task <=> j = k
      BY <3>1, <3>2
    <3>4. Once(t, task)
      BY <1>2, <3>3 DEF Once
    <3> QED
      BY <2>3, <2>5, <3>4
  <2> QED
    BY <2>4, <2>5
<1> QED
  BY <1>1, <1>3, <1>4, <1>5 DEF t

LEMMA TaskAdded ==
    ASSUME NEW q \in Seq(Task), NEW t \in Task, NEW task
    PROVE  /\ Append(q, t) \in Seq(Task) /\ Append(q, t) # <<>>
           /\ Never(q, task) /\ t[1] # task => Never(Append(q, t), task)
           /\ Never(q, task) /\ t[1] = task => Once(Append(q, t), task)
           /\ Once(q, task) /\ t[1] # task => Once(Append(q, t), task)
<1> DEFINE p == Append(q, t)
           n == Len(q)
<1>1. p \in Seq(Task) /\ n \in Nat /\ Len(p) = n + 1 /\ p[n + 1] = t
        /\ \A i \in 1..n : p[i] = q[i]
  OBVIOUS
<1>2. DOMAIN p = 1..(n + 1) /\ DOMAIN q = 1..n /\ 1..(n + 1) = (1..n) \cup {n + 1}
        /\ n + 1 \notin 1..n
  BY <1>1
<1> HIDE DEF p, n
<1>3. Never(q, task) /\ t[1] # task => Never(p, task)
  BY <1>1, <1>2 DEF Never
<1>4. ASSUME Never(q, task), t[1] = task  PROVE Once(p, task)
  <2>1. \A j \in 1..(n + 1) : p[j][1] = task <=> j = n + 1
    BY <1>1, <1>2, <1>4 DEF Never
  <2> QED
    BY <1>2, <2>1 DEF Once
<1>5. ASSUME Once(q, task), t[1] # task  PROVE Once(p, task)
  <2>1. PICK i \in 1..n : \A j \in 1..n : q[j][1] = task <=> j = i
    BY <1>2, <1>5 DEF Once
  <2>2. \A j \in 1..(n + 1) : p[j][1] = task <=> j = i
    BY <1>1, <1>2, <1>5, <2>1
  <2> QED
    BY <1>2, <2>1, <2>2 DEF Once
<1>6. p # <<>>
  BY <1>1
<1> QED
  BY <1>1, <1>3, <1>4, <1>5, <1>6 DEF p

LEMMA OrderTaken ==
    ASSUME NEW q \in Seq(Task), q # <<>>
    PROVE  /\ OpenFirst(q) => Never(Tail(q), "open")
           /\ CloseLast(q) => CloseLast(Tail(q))
           /\ CloseLast(q) /\ Head(q)[1] = "close" => Never(q, "drain")
<1> DEFINE t == Tail(q)
<1>1. t \in Seq(Task) /\ Len(q) = Len(t) + 1 /\ Len(t) \in Nat /\ Head(q) = q[1]
        /\ \A i \in 1..Len(t) : t[i] = q[i + 1]
  OBVIOUS
<1>2. DOMAIN q = 1..(Len(t) + 1) /\ DOMAIN t = 1..Len(t)
  BY <1>1
<1> HIDE DEF t
<1>3. \A i \in 1..Len(t) : i + 1 \in 1..(Len(t) + 1) /\ i + 1 # 1
  BY <1>1
<1>4. OpenFirst(q) => Never(t, "open")
  BY <1>1, <1>2, <1>3 DEF OpenFirst, Never
<1>5. CloseLast(q) => CloseLast(t)
  <2> SUFFICES ASSUME CloseLast(q), NEW i \in 1..Len(t), NEW j \in 1..Len(t),
                      t[i][1] = "close", t[j][1] = "drain"
               PROVE  j < i
    BY <1>2 DEF CloseLast
  <2>1. q[i + 1][1] = "close" /\ q[j + 1][1] = "drain"
    BY <1>1
  <2>2. j + 1 < i + 1
    BY <1>2, <1>3, <2>1 DEF CloseLast
  <2> QED
    BY <1>1, <2>2
<1>6. CloseLast(q) /\ Head(q)[1] = "close" => Never(q, "drain")
  <2> SUFFICES ASSUME CloseLast(q), Head(q)[1] = "close", NEW j \in 1..(Len(t) + 1),
                      q[j][1] = "drain"
               PROVE  FALSE
    BY <1>2 DEF Never
  <2>1. 1 \in 1..(Len(t) + 1) /\ q[1][1] = "close"
    BY <1>1
  <2>2. j < 1
    BY <1>2, <2>1 DEF CloseLast
  <2> QED
    BY <1>1, <2>2
<1> QED
  BY <1>4, <1>5, <1>6 DEF t

LEMMA OrderAdded ==
    ASSUME NEW q \in Seq(Task), NEW t \in Task
    PROVE  /\ Never(q, "open") => OpenFirst(q)
           /\ OpenFirst(q) /\ t[1] # "open" => OpenFirst(Append(q, t))
           /\ CloseLast(q) /\ (t[1] # "drain" \/ Never(q, "close")) => CloseLast(Append(q, t))
<1> DEFINE p == Append(q, t)
           n == Len(q)
<1>1. p \in Seq(Task) /\ n \in Nat /\ Len(p) = n + 1 /\ p[n + 1] = t
        /\ \A i \in 1..n : p[i] = q[i]
  OBVIOUS
<1>2. DOMAIN p = 1..(n + 1) /\ DOMAIN q = 1..n /\ 1..(n + 1) = (1..n) \cup {n + 1}
        /\ n + 1 \notin 1..n
  BY <1>1
<1> HIDE DEF p, n
<1>3. Never(q, "open") => OpenFirst(q)
  BY DEF Never, OpenFirst
<1>4. OpenFirst(q) /\ t[1] # "open" => OpenFirst(p)
  BY <1>1, <1>2 DEF OpenFirst
<1>5. ASSUME CloseLast(q), t[1] # "drain" \/ Never(q, "close")
      PROVE  CloseLast(p)
  <2> SUFFICES ASSUME NEW i \in 1..(n + 1), NEW j \in 1..(n + 1),
                      p[i][1] = "close", p[j][1] = "drain"
               PROVE  j < i
    BY <1>2 DEF CloseLast
  <2>1. CASE i \in 1..n /\ j \in 1..n
    BY <1>1, <1>2, <1>5, <2>1 DEF CloseLast
  <2>2. CASE i = n + 1 /\ j \in 1..n
    BY <1>1, <2>2
  <2>3. CASE j = n + 1
    <3>1. t[1] = "drain"
      BY <1>1, <2>3
    <3>2. i \in 1..n
      BY <1>1, <1>2, <3>1
    <3>3. q[i][1] = "close"
      BY <1>1, <3>2
    <3> QED
      BY <1>2, <1>5, <3>1, <3>2, <3>3 DEF Never
  <2> QED
    BY <1>2, <2>1, <2>2, <2>3
<1> QED
  BY <1>3, <1>4, <1>5 DEF p

(* The same counted, as TypeOK has it.                                     *)
LEMMA Counted ==
    ASSUME NEW task
    PROVE  /\ Once(ready, task) => Scheduled(task) = 1
           /\ Never(ready, task) => Scheduled(task) = 0
<1>1. ASSUME Once(ready, task)  PROVE Scheduled(task) = 1
  <2>1. PICK i \in DOMAIN ready : \A j \in DOMAIN ready : ready[j][1] = task <=> j = i
    BY <1>1 DEF Once
  <2>2. {j \in DOMAIN ready : ready[j][1] = task} = {i}
    BY <2>1
  <2> QED
    BY <2>2, FS_Singleton DEF Scheduled
<1>2. ASSUME Never(ready, task)  PROVE Scheduled(task) = 0
  <2>2. {j \in DOMAIN ready : ready[j][1] = task} = {}
    BY <1>2 DEF Never
  <2> QED
    BY <2>2, FS_EmptySet DEF Scheduled
<1> QED
  BY <1>1, <1>2

(* The data held by the writes that are ready.                             *)
LEMMA ChunkList ==
    ASSUME NEW q \in Seq(Task)
    PROVE  [i \in DOMAIN q |-> Chunk(q[i])] \in Seq(Seq(Byte))
<1>1. \A i \in 1..Len(q) : Chunk(q[i]) \in Seq(Byte)
  BY TaskFacts
<1>2. DOMAIN q = 1..Len(q) /\ Len(q) \in Nat
  OBVIOUS
<1>3. [i \in DOMAIN q |-> Chunk(q[i])] \in [1..Len(q) -> Seq(Byte)]
  BY <1>1, <1>2
<1> QED
  BY <1>2, <1>3

LEMMA HeldTyped ==
    ASSUME NEW q \in Seq(Task)
    PROVE  Held(q) \in Seq(Byte)
BY ChunkList, ConcatTyped DEF Held

LEMMA HeldNone == Held(<<>>) = <<>>
<1>1. [i \in DOMAIN <<>> |-> Chunk(<<>>[i])] = <<>>
  OBVIOUS
<1> QED
  BY <1>1, ConcatNone DEF Held

LEMMA HeldAdded ==
    ASSUME NEW q \in Seq(Task), NEW t \in Task
    PROVE  Held(Append(q, t)) = Held(q) \o Chunk(t)
<1> DEFINE p == Append(q, t)
           a == [i \in DOMAIN q |-> Chunk(q[i])]
           b == [i \in DOMAIN p |-> Chunk(p[i])]
<1>1. p \in Seq(Task) /\ Len(p) = Len(q) + 1 /\ p[Len(q) + 1] = t
          /\ Len(q) \in Nat /\ \A i \in 1..Len(q) : p[i] = q[i]
  OBVIOUS
<1>2. DOMAIN p = 1..Len(p) /\ DOMAIN q = 1..Len(q)
  BY <1>1
<1> HIDE DEF p
<1>3. a \in Seq(Seq(Byte)) /\ b \in Seq(Seq(Byte)) /\ Chunk(t) \in Seq(Byte)
  BY <1>1, ChunkList, TaskFacts
<1>4. Len(a) = Len(q) /\ \A i \in 1..Len(q) : a[i] = Chunk(q[i])
  BY <1>2, <1>3
<1>5. Len(b) = Len(q) + 1 /\ \A i \in 1..(Len(q) + 1) : b[i] = Chunk(p[i])
  BY <1>1, <1>2, <1>3
<1> HIDE DEF a, b
<1>6. \A i \in 1..(Len(q) + 1) : b[i] = Append(a, Chunk(t))[i]
  BY <1>1, <1>3, <1>4, <1>5
<1>7. b = Append(a, Chunk(t))
  BY <1>1, <1>3, <1>4, <1>5, <1>6
<1> QED
  BY <1>3, <1>7, ConcatAppended DEF Held, a, b, p

LEMMA HeldTaken ==
    ASSUME NEW q \in Seq(Task), q # <<>>
    PROVE  Held(q) = Chunk(Head(q)) \o Held(Tail(q))
<1> DEFINE p == Tail(q)
           a == [i \in DOMAIN q |-> Chunk(q[i])]
           b == [i \in DOMAIN p |-> Chunk(p[i])]
<1>1. p \in Seq(Task) /\ Len(q) = Len(p) + 1 /\ Head(q) = q[1]
          /\ Len(p) \in Nat /\ \A i \in 1..Len(p) : p[i] = q[i + 1]
  OBVIOUS
<1>2. DOMAIN p = 1..Len(p) /\ DOMAIN q = 1..Len(q)
  BY <1>1
<1> HIDE DEF p
<1>3. a \in Seq(Seq(Byte)) /\ b \in Seq(Seq(Byte))
  BY <1>1, ChunkList
<1>4. Len(a) = Len(q) /\ \A i \in 1..Len(q) : a[i] = Chunk(q[i])
  BY <1>2, <1>3
<1>5. Len(b) = Len(p) /\ \A i \in 1..Len(p) : b[i] = Chunk(p[i])
  BY <1>2, <1>3
<1> HIDE DEF a, b
<1>6. a # <<>> /\ Head(a) = Chunk(Head(q))
  BY <1>1, <1>3, <1>4
<1>7. Tail(a) = b
  <2>1. Tail(a) \in Seq(Seq(Byte)) /\ Len(Tail(a)) = Len(b)
          /\ \A i \in 1..Len(b) : Tail(a)[i] = a[i + 1]
    BY <1>1, <1>3, <1>4, <1>5, <1>6
  <2>2. \A i \in 1..Len(b) : Tail(a)[i] = b[i]
    BY <1>1, <1>4, <1>5, <2>1
  <2> QED
    BY <1>3, <2>1, <2>2, SeqEqual
<1> QED
  BY <1>3, <1>6, <1>7, ConcatFirst DEF Held, a, b, p
-----------------------------------------------------------------------------
(* Types, and how the tasks, the connection and its session fit together.  *)
Reply == {"bad_version", "no_acceptable", "user_pass", "no_auth", "auth_failed", "auth_ok",
          "unsupported", "success"}

Typed ==
    /\ app \in Apps /\ auth_required \in BOOLEAN /\ response \in Responses
    /\ stage \in {"new", "greeted", "authenticated", "asked"}
    /\ to_send \in Seq(Seq(Byte)) /\ inflight \in Seq(Byte) /\ buffer \in Seq(Byte)
    /\ transport \in {"open", "closing", "lost"}
    /\ state \in 0..3
    /\ replies \in Seq(Reply)
    /\ target \in [host : Seq(Byte), port : Port]
    /\ closed \in BOOLEAN /\ rx_event \in BOOLEAN
    /\ session \in {None, "open"}
    /\ reader \in {None, "new", "waiting", "woken", "closing", "ended"}
    /\ drain \in {None, "new", "waiting", "woken", "ended"}
    /\ tx_queue \in Seq(Seq(Byte)) /\ tx_q \in Seq(Frames) /\ rx_q \in Seq(Frames)
    /\ dispatched \in 0..Len(response)
    /\ delivered \in Seq(Byte) /\ received \in Seq(Byte)
    /\ ready \in Seq(Task)

Tasks ==
    /\ IF reader \in {"new", "woken"} THEN Once(ready, "read") ELSE Never(ready, "read")
    /\ IF drain \in {"new", "woken"} THEN Once(ready, "drain") ELSE Never(ready, "drain")
    /\ IF reader = "closing" THEN Once(ready, "close") ELSE Never(ready, "close")
    /\ OpenFirst(ready)

Opening == ready # <<>> /\ Head(ready)[1] = "open"

Fits ==
    /\ state # 3 => ready = <<>> /\ received = <<>> /\ session = None
    /\ Opening => session = None
    /\ session = None <=> reader = None
    /\ session = None <=> drain = None
    /\ session = None => /\ tx_q = <<>> /\ tx_queue = <<>> /\ rx_q = <<>>
                         /\ dispatched = 0 /\ delivered = <<>>
    /\ closed <=> reader \in {"closing", "ended"}
    /\ drain = "ended" => closed
    /\ drain = "woken" => tx_queue # <<>>
    /\ tx_queue # <<>> /\ ~closed => drain \in {"new", "woken"}
    /\ CloseLast(ready)
    /\ reader = "ended" => drain \notin {"new", "woken"} /\ transport # "open"
    /\ reader = "waiting" => rx_q = <<>>

LEMMA PortFacts ==
    /\ \A p \in Port : p \in Nat /\ p < 65536
    /\ \A p \in Nat : p < 65536 => p \in Port
<1>1. MaxPort \in Nat
  BY DEF MaxPort
<1>2. \A p \in Nat : p <= MaxPort <=> p < 65536
  BY DEF MaxPort
<1> QED
  BY <1>1, <1>2 DEF Port

LEMMA PortSplit ==
    ASSUME NEW p \in Port
    PROVE  /\ p \div 256 \in Byte /\ p % 256 \in Byte
           /\ 256 * (p \div 256) + (p % 256) = p
<1>1. p \in Nat /\ p < 65536
  BY PortFacts
<1>2. p \div 256 \in Nat /\ p \div 256 < 256 /\ p % 256 \in Nat /\ p % 256 < 256
  BY <1>1
<1>3. 256 * (p \div 256) + (p % 256) = p
  BY <1>1
<1>4. \A x \in Nat : x < 256 => x \in Byte
  BY DEF Byte
<1> QED
  BY <1>2, <1>3, <1>4

LEMMA PortJoined ==
    ASSUME NEW x \in Byte, NEW y \in Byte
    PROVE  256 * x + y \in Port
<1>1. x \in Nat /\ x <= 255 /\ y \in Nat /\ y <= 255
  BY DEF Byte
<1>2. 256 * x + y \in Nat /\ 256 * x + y < 65536
  BY <1>1
<1> QED
  BY <1>2, PortFacts

LEMMA AppFacts ==
    ASSUME Typed
    PROVE  /\ app \in Application /\ WellFormed(app) /\ response \in Seq(Frames)
           /\ app.data \in Seq(Seq(Byte)) /\ Greeting(app) \in Seq(Byte)
           /\ Credentials(app) \in Seq(Byte) /\ Request(app) \in Seq(Byte)
<1>1. app \in Application /\ WellFormed(app) /\ response \in Seq(Frames)
  BY SocksAssumption DEF Typed
<1>2. /\ app.ver \in Byte /\ app.methods \in Seq(Byte) /\ app.user \in Seq(Byte)
      /\ app.pass \in Seq(Byte) /\ app.cmd \in Byte /\ app.atyp \in Byte
      /\ app.addr \in Seq(Byte) /\ app.port \in Port /\ app.data \in Seq(Seq(Byte))
  BY <1>1 DEF Application
<1>3. Len(app.methods) \in Byte /\ Len(app.user) \in Byte /\ Len(app.pass) \in Byte
  BY <1>1 DEF WellFormed
<1>4. app.atyp = DOMAINNAME => Len(app.addr) \in Byte
  BY <1>1 DEF WellFormed, DOMAINNAME, IPV4, IPV6
<1>5. 0 \in Byte /\ 1 \in Byte
  BY DEF Byte
<1>6. app.port \div 256 \in Byte /\ app.port % 256 \in Byte
  BY <1>2, PortSplit
<1>7. Greeting(app) \in Seq(Byte)
  BY <1>2, <1>3 DEF Greeting
<1>8. Credentials(app) \in Seq(Byte)
  BY <1>2, <1>3, <1>5 DEF Credentials
<1>9. Request(app) \in Seq(Byte)
  <2>1. CASE app.atyp = DOMAINNAME
    BY <1>2, <1>4, <1>5, <1>6, <2>1 DEF Request
  <2>2. CASE app.atyp # DOMAINNAME
    BY <1>2, <1>5, <1>6, <2>2 DEF Request
  <2> QED
    BY <2>1, <2>2
<1> QED
  BY <1>1, <1>2, <1>7, <1>8, <1>9
LEMMA ApartFacts ==
    ASSUME Typed, transport = "open", inflight # <<>>, NEW n \in 1..Len(inflight)
    PROVE  /\ SubSeq(inflight, 1, n) \in Seq(Byte)
           /\ SubSeq(inflight, n + 1, Len(inflight)) \in Seq(Byte)
           /\ buffer \o SubSeq(inflight, 1, n) \in Seq(Byte)
           /\ SubSeq(inflight, 1, n) \o SubSeq(inflight, n + 1, Len(inflight)) = inflight
<1>1. inflight \in Seq(Byte) /\ buffer \in Seq(Byte)
  BY DEF Typed
<1> QED
  BY <1>1

LEMMA HeaderFacts ==
    ASSUME NEW buf \in Seq(Byte), RequestWhole(buf)
    PROVE  /\ HeaderLen(buf) \in Nat /\ HeaderLen(buf) >= 4
           /\ HeaderLen(buf) + 1 \in 1..Len(buf) /\ HeaderLen(buf) + 2 \in 1..Len(buf)
           /\ AddrFrom(buf) \in Nat
<1>1. Len(buf) \in Nat /\ Len(buf) >= 4
  BY DEF RequestWhole
<1>2. AddrLen(buf) \in Nat
  <2>1. Len(buf) >= 5 => buf[5] \in Byte
    BY <1>1
  <2>2. \A x \in Byte : x \in Nat
    BY DEF Byte
  <2> QED
    BY <1>1, <2>1, <2>2 DEF AddrLen
<1>3. AddrFrom(buf) \in {5, 6}
  BY DEF AddrFrom
<1>4. HeaderLen(buf) \in Nat /\ HeaderLen(buf) >= 4
  BY <1>2, <1>3 DEF HeaderLen
<1> QED
  BY <1>1, <1>3, <1>4 DEF RequestWhole

(* The first turns of the loops, the first FIN or RST of what waits.       *)
LEMMA EndFacts ==
    ASSUME NEW fs \in Seq(Frames)
    PROVE  LET k == SelectInSeq(fs, IsEnd)
               n == IF k = 0 THEN Len(fs) ELSE k - 1
           IN  /\ k \in 0..Len(fs) /\ n \in 0..Len(fs)
               /\ k # 0 => IsEnd(fs[k])
               /\ \A i \in 1..n : ~IsEnd(fs[i])
               /\ BeforeEnd(fs) = SubSeq(fs, 1, n) /\ BeforeEnd(fs) \in Seq(Frames)
               /\ k = 0 => BeforeEnd(fs) = fs
<1> DEFINE k == SelectInSeq(fs, IsEnd)
           n == IF k = 0 THEN Len(fs) ELSE k - 1
           I == {i \in 1..Len(fs) : IsEnd(fs[i])}
<1>1. Len(fs) \in Nat
  OBVIOUS
<1>2. k = IF I # {} THEN Min(I) ELSE 0
  BY DEF SelectInSeq
<1>3. CASE I # {}
  <2>1. I \subseteq Nat
    BY <1>1
  <2>2. \E m \in I : \A i \in I : m <= i
    BY <1>3, <2>1, Least
  <2>3. Min(I) \in I /\ \A i \in I : Min(I) <= i
    BY <2>2 DEF Min
  <2> HIDE DEF k
  <2>4. k \in 1..Len(fs) /\ IsEnd(fs[k]) /\ \A i \in 1..Len(fs) : IsEnd(fs[i]) => k <= i
    BY <1>2, <1>3, <2>3
  <2>5. n = k - 1 /\ n \in 0..Len(fs)
    BY <1>1, <2>4
  <2>6. \A i \in 1..n : ~IsEnd(fs[i])
    BY <1>1, <2>4, <2>5
  <2>7. BeforeEnd(fs) = SubSeq(fs, 1, n)
    BY DEF BeforeEnd, k
  <2>8. SubSeq(fs, 1, n) \in Seq(Frames)
    BY <2>5
  <2>9. k # 0 /\ k \in 0..Len(fs)
    BY <1>1, <2>4
  <2> QED
    BY <2>4, <2>5, <2>6, <2>7, <2>8, <2>9 DEF k
<1>4. CASE I = {}
  <2>1. k = 0
    BY <1>2, <1>4
  <2> HIDE DEF k
  <2>2. n = Len(fs) /\ n \in 0..Len(fs)
    BY <1>1, <2>1
  <2>3. \A i \in 1..n : ~IsEnd(fs[i])
    BY <1>4, <2>2
  <2>4. BeforeEnd(fs) = SubSeq(fs, 1, n)
    BY DEF BeforeEnd, k
  <2>5. SubSeq(fs, 1, n) = fs
    BY <2>2
  <2> QED
    BY <1>1, <2>1, <2>2, <2>3, <2>4, <2>5 DEF k
<1> QED
  BY <1>3, <1>4

(* A turn of the drain loop moves the front of tx_queue to tx_q.           *)
DataFrames(q, n) == [i \in DOMAIN q |-> Frame("DATA", n + i - 1, q[i])]
DataCount == Cardinality({i \in DOMAIN tx_q : tx_q[i].flags = "DATA"})

LEMMA DataFramesTyped ==
    ASSUME NEW q \in Seq(Seq(Byte)), NEW n \in Nat
    PROVE  /\ DataFrames(q, n) \in Seq(Frames) /\ Len(DataFrames(q, n)) = Len(q)
           /\ \A i \in 1..Len(q) : DataFrames(q, n)[i] = Frame("DATA", n + i - 1, q[i])
           /\ Payloads(DataFrames(q, n)) = Concat(q)
<1> DEFINE d == DataFrames(q, n)
<1>1. DOMAIN q = 1..Len(q) /\ Len(q) \in Nat
  OBVIOUS
<1>2. ASSUME NEW i \in 1..Len(q)
      PROVE  Frame("DATA", n + i - 1, q[i]) \in Frames
  <2>1. n + i - 1 \in Nat /\ q[i] \in Seq(Byte)
    BY <1>1
  <2> QED
    BY <2>1 DEF Frame, Frames
<1>3. d \in [1..Len(q) -> Frames] /\ \A i \in 1..Len(q) : d[i] = Frame("DATA", n + i - 1, q[i])
  BY <1>1, <1>2 DEF DataFrames
<1> HIDE DEF d
<1>4. d \in Seq(Frames) /\ Len(d) = Len(q)
  BY <1>1, <1>3, SMTT(30)
<1>5. \A i \in 1..Len(q) : d[i].payload = q[i]
  BY <1>3 DEF Frame
<1>6. Payloads(d) = Concat(q)
  BY <1>4, <1>5, PayloadsOfChunks
<1> QED
  BY <1>3, <1>4, <1>6 DEF d

LEMMA DrainEffect ==
    ASSUME Typed, Tasks, Fits, Drain
    PROVE  /\ DataCount \in Nat
           /\ \E taken, rest \in Seq(Seq(Byte)) :
                 /\ tx_queue = taken \o rest /\ tx_queue' = rest
                 /\ tx_q' = tx_q \o DataFrames(taken, DataCount)
                 /\ ~closed => rest = <<>>
<1>1. tx_queue \in Seq(Seq(Byte)) /\ tx_q \in Seq(Frames)
  BY DEF Typed
<1>2. DataCount \in Nat
  <2>1. IsFiniteSet(1..Len(tx_q))
    BY <1>1, FS_Interval
  <2>2. {i \in DOMAIN tx_q : tx_q[i].flags = "DATA"} \in SUBSET (1..Len(tx_q))
    BY <1>1
  <2> QED
    BY <2>1, <2>2, FS_Subset, FS_CardinalityType DEF DataCount
<1> DEFINE taken == IF ~closed THEN tx_queue
                    ELSE IF drain = "woken" THEN <<Head(tx_queue)>> ELSE <<>>
           rest  == SubSeq(tx_queue, Len(taken) + 1, Len(tx_queue))
<1>3. tx_queue' = rest /\ tx_q' = tx_q \o DataFrames(taken, DataCount)
  BY DEF Drain, DataFrames, DataCount
<1>4. CASE ~closed
  <2>1. taken = tx_queue
    BY <1>4
  <2> HIDE DEF taken
  <2>2. rest = <<>> /\ tx_queue = taken \o <<>> /\ <<>> \in Seq(Seq(Byte))
    BY <1>1, <2>1
  <2> QED
    BY <1>1, <1>2, <1>3, <2>1, <2>2
<1>5. CASE closed /\ drain = "woken"
  <2>1. tx_queue # <<>>
    BY <1>5 DEF Fits
  <2>2. taken = <<Head(tx_queue)>>
    BY <1>5
  <2> HIDE DEF taken
  <2>3. taken \in Seq(Seq(Byte)) /\ Len(taken) = 1
    BY <1>1, <2>1, <2>2
  <2>4. rest = Tail(tx_queue) /\ rest \in Seq(Seq(Byte))
    BY <1>1, <2>1, <2>3
  <2>5. tx_queue = taken \o rest
    BY <1>1, <2>1, <2>2, <2>4
  <2> QED
    BY <1>2, <1>3, <1>5, <2>3, <2>4, <2>5
<1>6. CASE closed /\ drain # "woken"
  <2>1. taken = <<>>
    BY <1>6
  <2> HIDE DEF taken
  <2>2. rest = tx_queue /\ taken \in Seq(Seq(Byte))
    BY <1>1, <2>1
  <2>3. tx_queue = taken \o rest
    BY <1>1, <2>1, <2>2
  <2> QED
    BY <1>1, <1>2, <1>3, <1>6, <2>2, <2>3
<1> QED
  BY <1>4, <1>5, <1>6 DEF Typed
-----------------------------------------------------------------------------
LEMMA TypedSays ==
    ASSUME Typed, AppSends
    PROVE  Typed'
<1>1. ASSUME NEW b \in Seq(Byte), NEW n \in {"new", "greeted", "authenticated", "asked"},
             Says(b, n), to_send' \in Seq(Seq(Byte))
      PROVE  Typed'
  <2>1. inflight' \in Seq(Byte)
    <3>1. inflight \in Seq(Byte)
      BY DEF Typed
    <3> QED
      BY <1>1, <3>1 DEF Says
  <2> QED
    BY <1>1, <2>1 DEF Typed, Says, config, socks, vconn, queues
<1>2. CASE Greet \/ Authenticate \/ Ask
  <2>1. to_send' \in Seq(Seq(Byte))
    BY <1>2 DEF Greet, Authenticate, Ask, Typed
  <2> QED
    BY <1>1, <1>2, <2>1, AppFacts DEF Greet, Authenticate, Ask
<1>3. CASE SendData
  <2>1. to_send \in Seq(Seq(Byte)) /\ to_send # <<>>
    BY <1>3 DEF SendData, Typed
  <2>2. Head(to_send) \in Seq(Byte) /\ Tail(to_send) \in Seq(Seq(Byte))
    BY <2>1
  <2> QED
    BY <1>1, <1>3, <2>2 DEF SendData
<1> QED
  BY <1>2, <1>3 DEF AppSends

LEMMA TypedReceives ==
    ASSUME Typed, DataReceived
    PROVE  Typed'
<1>1. PICK n \in 1..Len(inflight) :
         LET data == SubSeq(inflight, 1, n)
             buf  == buffer \o data
         IN  /\ inflight' = SubSeq(inflight, n + 1, Len(inflight))
             /\ \/ state = 0 /\ HandleHandshake(buf)
                \/ state = 1 /\ HandleAuth(buf)
                \/ state = 2 /\ HandleCommand(buf)
                \/ state = 3 /\ HandleTunnelData(buf, data)
  BY DEF DataReceived
<1> DEFINE data == SubSeq(inflight, 1, n)
           buf  == buffer \o data
<1>2. data \in Seq(Byte) /\ buf \in Seq(Byte) /\ inflight' \in Seq(Byte)
  BY <1>1, ApartFacts DEF DataReceived
<1>3. \/ HandleHandshake(buf) \/ HandleAuth(buf)
      \/ HandleCommand(buf) \/ HandleTunnelData(buf, data)
  BY <1>1
<1> HIDE DEF data, buf
<1>4. \A r \in Reply : Append(replies, r) \in Seq(Reply)
  BY DEF Typed
<1>5. \A t \in Task : Append(ready, t) \in Seq(Task)
  BY DEF Typed
<1>6. <<>> \in Seq(Byte)
  OBVIOUS
<1>7. UNCHANGED <<config, peer, vconn, queues, delivered>>
  BY DEF DataReceived
<1>8. ASSUME /\ buffer' \in Seq(Byte) /\ transport' \in {"open", "closing", "lost"}
             /\ state' \in 0..3 /\ replies' \in Seq(Reply)
             /\ target' \in [host : Seq(Byte), port : Port]
             /\ ready' \in Seq(Task) /\ received' \in Seq(Byte)
      PROVE  Typed'
  BY <1>2, <1>7, <1>8 DEF Typed, config, peer, vconn, queues
<1>9. ASSUME /\ buffer' = buf \/ buffer' = <<>>
             /\ transport' = transport \/ transport' = "closing"
             /\ state' = state \/ state' \in {1, 2}
             /\ \/ replies' = replies
                \/ \E r \in Reply : replies' = Append(replies, r)
             /\ UNCHANGED <<target, ready, received>>
      PROVE  Typed'
  <2>1. replies' \in Seq(Reply)
    BY <1>4, <1>9 DEF Typed
  <2>2. buffer' \in Seq(Byte)
    BY <1>2, <1>6, <1>9
  <2>3. transport' \in {"open", "closing", "lost"} /\ state' \in 0..3
          /\ target' \in [host : Seq(Byte), port : Port]
          /\ ready' \in Seq(Task) /\ received' \in Seq(Byte)
    BY <1>9, SMTT(30) DEF Typed
  <2> QED
    BY <1>8, <2>1, <2>2, <2>3
<1>12. CASE HandleHandshake(buf)
  <2>1. "bad_version" \in Reply /\ "no_acceptable" \in Reply /\ "user_pass" \in Reply
          /\ "no_auth" \in Reply
    BY DEF Reply
  <2> QED
    BY <1>9, <1>12, <2>1 DEF HandleHandshake, Refuse, Accept, NeedMore
<1>13. CASE HandleAuth(buf)
  <2>1. "auth_failed" \in Reply /\ "auth_ok" \in Reply
    BY DEF Reply
  <2> QED
    BY <1>9, <1>13, <2>1 DEF HandleAuth, Refuse, Accept, NeedMore
<1>14. CASE HandleCommand(buf)
  <2>4. "unsupported" \in Reply /\ "success" \in Reply
    BY DEF Reply
  <2>1. CASE Refuse(buf, "unsupported")
    BY <1>9, <2>1, <2>4 DEF Refuse
  <2>2. CASE NeedMore(buf)
    BY <1>9, <2>2 DEF NeedMore
  <2>3. CASE /\ RequestWhole(buf) /\ buffer' = <<>> /\ state' = 3
             /\ target' = [host |-> SubSeq(buf, AddrFrom(buf), HeaderLen(buf)),
                           port |-> 256 * buf[HeaderLen(buf) + 1] + buf[HeaderLen(buf) + 2]]
             /\ replies' = Append(replies, "success") /\ ready' = Append(ready, <<"open">>)
             /\ UNCHANGED <<transport, received>>
    <3> DEFINE h == HeaderLen(buf)
    <3>1. h \in Nat /\ h + 1 \in 1..Len(buf) /\ h + 2 \in 1..Len(buf) /\ AddrFrom(buf) \in Nat
            /\ AddrFrom(buf) >= 1
      BY <1>2, <2>3, HeaderFacts DEF AddrFrom
    <3> HIDE DEF h
    <3>2. buf[h + 1] \in Byte /\ buf[h + 2] \in Byte
      BY <1>2, <3>1
    <3>3. 256 * buf[h + 1] + buf[h + 2] \in Port
      BY <3>2, PortJoined
    <3>4. SubSeq(buf, AddrFrom(buf), h) \in Seq(Byte)
      <4>1. h <= Len(buf)
        BY <1>2, <3>1
      <4> QED
        BY <1>2, <3>1, <4>1, SubSeqProperties
    <3>5. target' \in [host : Seq(Byte), port : Port]
      BY <2>3, <3>3, <3>4 DEF h
    <3>6. <<"open">> \in Task
      BY TaskFacts
    <3>7. ready' \in Seq(Task) /\ replies' \in Seq(Reply)
      BY <1>4, <1>5, <2>3, <2>4, <3>6
    <3>8. received' \in Seq(Byte) /\ transport' \in {"open", "closing", "lost"}
      BY <2>3 DEF Typed
    <3> QED
      BY <1>6, <1>8, <2>3, <3>5, <3>7, <3>8
  <2> QED
    BY <1>14, <2>1, <2>2, <2>3 DEF HandleCommand
<1>15. CASE HandleTunnelData(buf, data)
  <2>1. <<"write", data>> \in Task /\ received \o data \in Seq(Byte)
    BY <1>2, TaskFacts DEF Typed
  <2> QED
    BY <1>2, <1>5, <1>8, <1>15, <2>1 DEF HandleTunnelData, Typed
<1> QED
  BY <1>3, <1>12, <1>13, <1>14, <1>15

LEMMA TurnFacts ==
    ASSUME Typed, NEW task, Turn(task)
    PROVE  /\ ready # <<>> /\ Head(ready) \in Task /\ Head(ready)[1] = task
           /\ Tail(ready) \in Seq(Task)
           /\ task = "write" => Head(ready)[2] = Chunk(Head(ready)) /\ Head(ready)[2] \in Seq(Byte)
           /\ task # "write" => Chunk(Head(ready)) = <<>>
<1>1. ready # <<>> /\ Head(ready)[1] = task /\ ready \in Seq(Task)
  BY DEF Turn, Typed
<1>2. Head(ready) \in Task /\ Tail(ready) \in Seq(Task)
  BY <1>1
<1>3. Chunk(Head(ready)) \in Seq(Byte)
  BY <1>2, TaskFacts
<1> QED
  BY <1>1, <1>2, <1>3 DEF Chunk

LEMMA TurnReady ==
    ASSUME ready \in Seq(Task), NEW task, Turn(task)
    PROVE  ~Never(ready, task)
<1>1. ready # <<>> /\ Head(ready)[1] = task
  BY DEF Turn
<1>2. 1 \in DOMAIN ready /\ Head(ready) = ready[1]
  BY <1>1
<1> QED
  BY <1>1, <1>2 DEF Never

(* Read() takes the frames up to the first FIN or RST, and that one too.   *)
LEMMA ReadEffect ==
    ASSUME Typed, Read
    PROVE  \E n \in 0..Len(rx_q) :
              /\ \A i \in 1..n : ~IsEnd(rx_q[i])
              /\ delivered' = IF transport = "open"
                              THEN delivered \o Payloads(SubSeq(rx_q, 1, n)) ELSE delivered
              /\ SubSeq(rx_q, 1, n) \in Seq(Frames) /\ delivered' \in Seq(Byte)
              /\ IF n = Len(rx_q)
                 THEN /\ rx_q' = <<>> /\ reader' = "waiting" /\ closed' = FALSE
                      /\ ready' = Tail(ready)
                 ELSE /\ IsEnd(rx_q[n + 1]) /\ rx_q' = SubSeq(rx_q, n + 2, Len(rx_q))
                      /\ reader' = "closing" /\ closed' = TRUE
                      /\ ready' = Append(Tail(ready), <<"close">>)
<1> DEFINE k == SelectInSeq(rx_q, IsEnd)
           n == IF k = 0 THEN Len(rx_q) ELSE k - 1
<1>1. rx_q \in Seq(Frames) /\ delivered \in Seq(Byte)
  BY DEF Typed
<1>2. /\ k \in 0..Len(rx_q) /\ n \in 0..Len(rx_q)
      /\ k # 0 => IsEnd(rx_q[k])
      /\ \A i \in 1..n : ~IsEnd(rx_q[i])
      /\ BeforeEnd(rx_q) = SubSeq(rx_q, 1, n) /\ BeforeEnd(rx_q) \in Seq(Frames)
  BY <1>1, EndFacts
<1>3. /\ ready' = IF k = 0 THEN Tail(ready) ELSE Append(Tail(ready), <<"close">>)
      /\ rx_q' = SubSeq(rx_q, IF k = 0 THEN Len(rx_q) + 1 ELSE k + 1, Len(rx_q))
      /\ reader' = IF k = 0 THEN "waiting" ELSE "closing"
      /\ closed' = (k # 0)
      /\ Deliver(BeforeEnd(rx_q))
  BY DEF Read
<1> HIDE DEF k
<1>4. delivered' = IF transport = "open"
                   THEN delivered \o Payloads(SubSeq(rx_q, 1, n)) ELSE delivered
  BY <1>2, <1>3 DEF Deliver
<1>5. delivered' \in Seq(Byte)
  <2>1. Payloads(SubSeq(rx_q, 1, n)) \in Seq(Byte)
    BY <1>2, PayloadsTyped
  <2> QED
    BY <1>1, <1>4, <2>1
<1>6. CASE k = 0
  <2>1. n = Len(rx_q)
    BY <1>6
  <2>2. SubSeq(rx_q, Len(rx_q) + 1, Len(rx_q)) = <<>>
    BY <1>1
  <2> QED
    BY <1>2, <1>3, <1>4, <1>5, <1>6, <2>1, <2>2
<1>7. CASE k # 0
  <2>1. n # Len(rx_q) /\ n + 1 = k /\ n + 2 = k + 1
    BY <1>1, <1>2, <1>7
  <2> QED
    BY <1>2, <1>3, <1>4, <1>5, <1>7, <2>1
<1> QED
  BY <1>6, <1>7

LEMMA TypedRuns ==
    ASSUME Typed, Tasks, Fits, RunTask \/ EnqueueRx \/ ConnectionLost
    PROVE  Typed'
<1>1. ASSUME NEW task, Turn(task)
      PROVE  Tail(ready) \in Seq(Task) /\ \A t \in Task : Append(Tail(ready), t) \in Seq(Task)
  BY <1>1, TurnFacts
<1>2. <<"read">> \in Task /\ <<"drain">> \in Task /\ <<"close">> \in Task
  BY TaskFacts
<1>3. CASE Open
  <2>1. ready' \in Seq(Task)
    <3>1. <<<<"read">>, <<"drain">>>> \in Seq(Task)
      BY <1>2
    <3>2. Tail(ready) \in Seq(Task)
      BY <1>1, <1>3 DEF Open
    <3>3. Tail(ready) \o <<<<"read">>, <<"drain">>>> \in Seq(Task)
      BY <3>1, <3>2, ConcatProperties
    <3>4. \/ ready' = Tail(ready)
          \/ ready' = Tail(ready) \o <<<<"read">>, <<"drain">>>>
      BY <1>3 DEF Open
    <3> QED
      BY <3>2, <3>3, <3>4
  <2>2. tx_q' \in Seq(Frames)
    <3>1. Frame("SYN", 0, <<>>) \in Frames
      BY DEF Frame, Frames
    <3>2. tx_q \in Seq(Frames)
      BY DEF Typed
    <3>3. \A f \in Frames : <<f>> \in Seq(Frames)
      OBVIOUS
    <3>4. tx_q' = tx_q \/ tx_q' = <<Frame("SYN", 0, <<>>)>>
      BY <1>3 DEF Open
    <3> QED
      BY <3>1, <3>2, <3>3, <3>4
  <2>3. session' \in {None, "open"}
        /\ reader' \in {None, "new", "waiting", "woken", "closing", "ended"}
        /\ drain' \in {None, "new", "waiting", "woken", "ended"}
    BY <1>3 DEF Open, Typed
  <2> QED
    BY <1>3, <2>1, <2>2, <2>3 DEF Open, Typed, config, peer, socks
<1>4. CASE Write
  <2>1. Head(ready)[2] \in Seq(Byte)
    BY <1>4, TurnFacts DEF Write
  <2>2. tx_queue' \in Seq(Seq(Byte))
    <3>1. tx_queue \in Seq(Seq(Byte))
      BY DEF Typed
    <3>2. \A d \in Seq(Byte) : Append(tx_queue, d) \in Seq(Seq(Byte))
      BY <3>1
    <3>3. tx_queue' = tx_queue \/ tx_queue' = Append(tx_queue, Head(ready)[2])
      BY <1>4 DEF Write
    <3> QED
      BY <2>1, <3>1, <3>2, <3>3
  <2>3. ready' \in Seq(Task)
    BY <1>1, <1>2, <1>4 DEF Write
  <2>4. drain' \in {None, "new", "waiting", "woken", "ended"}
    BY <1>4 DEF Write, Typed
  <2> QED
    BY <1>4, <2>2, <2>3, <2>4 DEF Write, Typed, config, peer, socks, queues
<1>5. CASE Drain
  <2>1. PICK taken, rest \in Seq(Seq(Byte)) :
            tx_queue' = rest /\ tx_q' = tx_q \o DataFrames(taken, DataCount)
    BY <1>5, DrainEffect
  <2>2. tx_queue' \in Seq(Seq(Byte)) /\ tx_q' \in Seq(Frames)
    <3>1. DataFrames(taken, DataCount) \in Seq(Frames)
      BY <1>5, DrainEffect, DataFramesTyped
    <3>2. tx_q \in Seq(Frames)
      BY DEF Typed
    <3> QED
      BY <2>1, <3>1, <3>2
  <2>3. ready' \in Seq(Task)
    BY <1>1, <1>5 DEF Drain
  <2>4. drain' \in {None, "new", "waiting", "woken", "ended"}
    BY <1>5 DEF Drain
  <2> QED
    BY <1>5, <2>2, <2>3, <2>4, SMTT(30) DEF Drain, Typed, config, peer, socks
<1>6. CASE Read
  <2>1. PICK n \in 0..Len(rx_q) :
           /\ delivered' \in Seq(Byte)
           /\ IF n = Len(rx_q)
              THEN /\ rx_q' = <<>> /\ reader' = "waiting" /\ closed' = FALSE
                   /\ ready' = Tail(ready)
              ELSE /\ rx_q' = SubSeq(rx_q, n + 2, Len(rx_q))
                   /\ reader' = "closing" /\ closed' = TRUE
                   /\ ready' = Append(Tail(ready), <<"close">>)
    BY <1>6, ReadEffect
  <2>2. rx_q' \in Seq(Frames)
    <3>1. rx_q \in Seq(Frames) /\ <<>> \in Seq(Frames)
      BY DEF Typed
    <3>2. SubSeq(rx_q, n + 2, Len(rx_q)) \in Seq(Frames)
      BY <3>1
    <3> QED
      BY <2>1, <3>1, <3>2
  <2>3. ready' \in Seq(Task)
    BY <1>1, <1>2, <1>6, <2>1 DEF Read
  <2>4. reader' \in {None, "new", "waiting", "woken", "closing", "ended"} /\ closed' \in BOOLEAN
    BY <2>1
  <2>5. rx_event' \in BOOLEAN
    BY <1>6 DEF Read
  <2>6. delivered' \in Seq(Byte)
    BY <2>1
  <2>7. UNCHANGED <<config, peer, inflight, transport, socks, session, tx_queue,
                    drain, tx_q, dispatched, received>>
    BY <1>6 DEF Read
  <2> QED
    BY <2>2, <2>3, <2>4, <2>5, <2>6, <2>7 DEF Typed, config, peer, socks
<1>7. CASE Close
  <2>1. tx_q' \in Seq(Frames)
    <3>1. Frame("FIN", 0, <<>>) \in Frames
      BY DEF Frame, Frames
    <3>2. tx_q \in Seq(Frames)
      BY DEF Typed
    <3> QED
      BY <1>7, <3>1, <3>2 DEF Close
  <2>2. ready' \in Seq(Task)
    BY <1>1, <1>7 DEF Close
  <2>3. transport' \in {"open", "closing", "lost"} /\ rx_event' \in BOOLEAN
        /\ reader' \in {None, "new", "waiting", "woken", "closing", "ended"}
    BY <1>7 DEF Close, Typed
  <2> QED
    BY <1>7, <2>1, <2>2, <2>3 DEF Close, Typed, config, peer, socks
<1>8. CASE EnqueueRx
  <2>1. response \in Seq(Frames) /\ dispatched \in 0..Len(response) /\ dispatched < Len(response)
    BY <1>8, AppFacts DEF EnqueueRx, Typed
  <2>2. dispatched' \in 0..Len(response) /\ response[dispatched + 1] \in Frames
    BY <1>8, <2>1 DEF EnqueueRx
  <2>3. rx_q' \in Seq(Frames)
    <3>1. rx_q \in Seq(Frames)
      BY DEF Typed
    <3> QED
      BY <1>8, <2>2, <3>1 DEF EnqueueRx
  <2>4. ready' \in Seq(Task)
    <3>1. ready \in Seq(Task) /\ Append(ready, <<"read">>) \in Seq(Task)
      BY <1>2 DEF Typed
    <3>2. ready' = ready \/ ready' = Append(ready, <<"read">>)
      BY <1>8 DEF EnqueueRx
    <3> QED
      BY <3>1, <3>2
  <2>5. reader' \in {None, "new", "waiting", "woken", "closing", "ended"} /\ rx_event' \in BOOLEAN
    BY <1>8 DEF EnqueueRx, Typed
  <2> QED
    BY <1>8, <2>2, <2>3, <2>4, <2>5 DEF EnqueueRx, Typed, config, peer, socks
<1>9. CASE ConnectionLost
  BY <1>9 DEF ConnectionLost, Typed, config, peer, socks, vconn, queues
<1> QED
  BY <1>3, <1>4, <1>5, <1>6, <1>7, <1>8, <1>9 DEF RunTask

LEMMA TypedKept ==
    ASSUME Typed, Tasks, Fits, [Next]_vars
    PROVE  Typed'
<1>1. CASE UNCHANGED vars
  BY <1>1 DEF vars, Typed, config, peer, socks, vconn, queues
<1> QED
  BY <1>1, TypedSays, TypedReceives, TypedRuns DEF Next
-----------------------------------------------------------------------------
(* Each task of the connection is ready once while it can run.             *)
LEMMA ReceiveReady ==
    ASSUME Typed, Fits, DataReceived
    PROVE  /\ \/ /\ UNCHANGED <<ready, received>>
                 /\ state' # 3 <=> state # 3
              \/ state = 2 /\ ready = <<>> /\ ready' = <<<<"open">>>> /\ state' = 3 /\ received' = received
              \/ /\ state = 3 /\ state' = 3 /\ ~closed
                 /\ \E d \in Seq(Byte) : /\ ready' = Append(ready, <<"write", d>>)
                                         /\ received' = received \o d
                                         /\ inflight = d \o inflight'
           /\ UNCHANGED <<config, to_send, vconn, queues, delivered>>
           /\ transport = "open" /\ transport' \in {"open", "closing"}
           /\ state = 3 => UNCHANGED transport
<1>1. PICK n \in 1..Len(inflight) :
         LET data == SubSeq(inflight, 1, n)
             buf  == buffer \o data
         IN  /\ inflight' = SubSeq(inflight, n + 1, Len(inflight))
             /\ \/ state = 0 /\ HandleHandshake(buf)
                \/ state = 1 /\ HandleAuth(buf)
                \/ state = 2 /\ HandleCommand(buf)
                \/ state = 3 /\ HandleTunnelData(buf, data)
  BY DEF DataReceived
<1> DEFINE data == SubSeq(inflight, 1, n)
           buf  == buffer \o data
<1>2. data \in Seq(Byte) /\ data \o inflight' = inflight
  BY <1>1, ApartFacts DEF DataReceived
<1>3. UNCHANGED <<config, to_send, vconn, queues, delivered>> /\ transport = "open"
  BY DEF DataReceived, peer
<1>4. \/ state = 0 /\ HandleHandshake(buf)
      \/ state = 1 /\ HandleAuth(buf)
      \/ state = 2 /\ HandleCommand(buf)
      \/ state = 3 /\ HandleTunnelData(buf, data)
  BY <1>1, Zenon
<1> HIDE DEF data, buf
<1>5. CASE state = 0 /\ HandleHandshake(buf)
  BY <1>3, <1>5 DEF HandleHandshake, Refuse, Accept, NeedMore
<1>6. CASE state = 1 /\ HandleAuth(buf)
  BY <1>3, <1>6 DEF HandleAuth, Refuse, Accept, NeedMore
<1>7. CASE state = 2 /\ HandleCommand(buf)
  <2>1. ready = <<>>
    BY <1>7 DEF Fits
  <2>2. Append(<<>>, <<"open">>) = <<<<"open">>>>
    OBVIOUS
  <2> QED
    BY <1>3, <1>7, <2>1, <2>2 DEF HandleCommand, Refuse, Accept, NeedMore
<1>8. CASE state = 3 /\ HandleTunnelData(buf, data)
  BY <1>2, <1>3, <1>8 DEF HandleTunnelData
<1> QED
  BY <1>4, <1>5, <1>6, <1>7, <1>8

LEMMA TasksSame ==
    ASSUME Tasks, UNCHANGED <<reader, drain, ready>>
    PROVE  Tasks'
BY DEF Tasks, Once, Never, OpenFirst

(* A write or an open() in front of the tasks that count, or none.         *)
LEMMA TasksTurn ==
    ASSUME Typed, Tasks, NEW task \in {"open", "write"}, Turn(task),
           ready' = Tail(ready), UNCHANGED <<reader, drain>>
    PROVE  Tasks'
<1>1. ready \in Seq(Task) /\ ready # <<>> /\ Head(ready)[1] = task
  BY TurnFacts DEF Typed
<1>2. task # "read" /\ task # "drain" /\ task # "close"
  OBVIOUS
<1>3. \A t \in {"read", "drain", "close"} :
         /\ Once(ready, t) => Once(ready', t)
         /\ Never(ready, t) => Never(ready', t)
  BY <1>1, <1>2, TurnTaken
<1>4. OpenFirst(ready')
  BY <1>1, TurnTaken, OrderTaken, OrderAdded, TaskFacts DEF Tasks
<1> QED
  BY <1>3, <1>4 DEF Tasks

LEMMA TasksReceived ==
    ASSUME Typed, Tasks, Fits, DataReceived
    PROVE  Tasks'
<1>1. UNCHANGED <<reader, drain>>
  BY DEF DataReceived, vconn
<1>2. CASE ready' = ready
  BY <1>1, <1>2, TasksSame
<1>3. ASSUME NEW d \in Seq(Byte), ready' = Append(ready, <<"write", d>>)
      PROVE  Tasks'
  <2>1. ready \in Seq(Task) /\ <<"write", d>> \in Task /\ <<"write", d>>[1] = "write"
    BY TaskFacts DEF Typed
  <2>2. \A t \in {"read", "drain", "close"} :
         /\ Once(ready, t) => Once(ready', t)
         /\ Never(ready, t) => Never(ready', t)
    BY <1>3, <2>1, TaskAdded
  <2>3. OpenFirst(ready')
    BY <1>3, <2>1, OrderAdded DEF Tasks
  <2> QED
    BY <1>1, <2>2, <2>3 DEF Tasks
<1>4. CASE state = 2 /\ ready = <<>> /\ ready' = <<<<"open">>>>
  <2>1. reader = None /\ drain = None
    BY <1>4 DEF Fits
  <2>2. \A t \in {"read", "drain", "close"} : Never(ready', t)
    BY <1>4 DEF Never
  <2>3. OpenFirst(ready')
    BY <1>4 DEF OpenFirst
  <2> QED
    BY <1>1, <2>1, <2>2, <2>3 DEF Tasks, None
<1> QED
  BY <1>2, <1>3, <1>4, ReceiveReady

LEMMA TasksRuns ==
    ASSUME Typed, Tasks, Fits, RunTask \/ EnqueueRx
    PROVE  Tasks'
<1>1. ready \in Seq(Task)
  BY DEF Typed
<1>2. /\ <<"read">> \in Task /\ <<"drain">> \in Task /\ <<"close">> \in Task
      /\ <<"read">>[1] = "read" /\ <<"drain">>[1] = "drain" /\ <<"close">>[1] = "close"
  BY TaskFacts
<1> DEFINE rest == Tail(ready)
<1>3. ASSUME NEW task, Turn(task)
      PROVE  /\ rest \in Seq(Task) /\ Never(rest, "open") /\ OpenFirst(rest)
             /\ \A t : Never(ready, t) => Never(rest, t)
             /\ \A t : Once(ready, t) /\ t # task => Once(rest, t)
             /\ Once(ready, task) => Never(rest, task)
             /\ ~Never(ready, task)
  <2>1. ready # <<>> /\ Head(ready)[1] = task /\ rest \in Seq(Task)
    BY <1>3, TurnFacts
  <2>2. Never(rest, "open") /\ OpenFirst(rest)
    BY <1>1, <1>2, <2>1, OrderTaken, OrderAdded DEF Tasks
  <2> HIDE DEF rest
  <2> QED
    BY <1>1, <2>1, <2>2, TurnTaken DEF rest
<1>4. ASSUME NEW q \in Seq(Task), NEW n \in {"read", "drain", "close"}
      PROVE  /\ \A t : Never(q, t) /\ t # n => Never(Append(q, <<n>>), t)
             /\ \A t : Once(q, t) /\ t # n => Once(Append(q, <<n>>), t)
             /\ Never(q, n) => Once(Append(q, <<n>>), n)
             /\ OpenFirst(q) => OpenFirst(Append(q, <<n>>))
             /\ Append(q, <<n>>) \in Seq(Task)
  <2>1. <<n>> \in Task /\ <<n>>[1] = n /\ n # "open"
    BY TaskFacts
  <2> QED
    BY <2>1, TaskAdded, OrderAdded
<1> HIDE DEF rest
<1>5. CASE Open
  <2>1. session = None /\ reader = None /\ drain = None
    BY <1>5 DEF Open, Turn, Fits, Opening
  <2>2. \A t \in {"read", "drain", "close"} : Never(ready, t)
    BY <2>1 DEF Tasks, None
  <2>3. rest \in Seq(Task) /\ OpenFirst(rest) /\ \A t \in {"read", "drain", "close"} : Never(rest, t)
    BY <1>3, <1>5, <2>2 DEF Open
  <2>4. CASE clock = "float"
    BY <1>5, <2>1, <2>3, <2>4 DEF Open, Tasks, None, rest
  <2>5. CASE clock # "float"
    <3> DEFINE p == Append(rest, <<"read">>)
               q == Append(p, <<"drain">>)
    <3>1. /\ p \in Seq(Task) /\ Once(p, "read") /\ Never(p, "drain") /\ Never(p, "close")
          /\ OpenFirst(p)
      BY <1>4, <2>3
    <3> HIDE DEF p
    <3>2. Once(q, "read") /\ Once(q, "drain") /\ Never(q, "close") /\ OpenFirst(q)
      BY <1>4, <3>1
    <3>3. ready' = q
      <4>1. rest \o <<<<"read">>, <<"drain">>>> = Append(Append(rest, <<"read">>), <<"drain">>)
        BY <1>2, <2>3
      <4> QED
        BY <1>5, <2>5, <4>1 DEF Open, p, rest
    <3> HIDE DEF q
    <3>4. reader' = "new" /\ drain' = "new"
      BY <1>5, <2>5 DEF Open
    <3> QED
      BY <3>2, <3>3, <3>4 DEF Tasks
  <2> QED
    BY <2>4, <2>5
<1>6. CASE Write
  <2>1. CASE ready' = rest /\ drain' = drain
    BY <1>6, <2>1, TasksTurn DEF Write, rest
  <2>2. CASE drain = "waiting" /\ drain' = "woken" /\ ready' = Append(rest, <<"drain">>)
    <3>1. rest \in Seq(Task) /\ OpenFirst(rest) /\ Never(rest, "drain")
          /\ \A t \in {"read", "close"} : (Never(ready, t) => Never(rest, t))
                                          /\ (Once(ready, t) => Once(rest, t))
      <4>1. Never(ready, "drain")
        BY <2>2 DEF Tasks
      <4> QED
        BY <1>3, <1>6, <4>1 DEF Write
    <3>2. OpenFirst(ready') /\ Once(ready', "drain")
          /\ \A t \in {"read", "close"} : (Never(ready, t) => Never(ready', t))
                                          /\ (Once(ready, t) => Once(ready', t))
      BY <1>4, <2>2, <3>1
    <3>3. reader' = reader
      BY <1>6 DEF Write
    <3> QED
      BY <2>2, <3>2, <3>3 DEF Tasks
  <2> QED
    BY <1>6, <2>1, <2>2 DEF Write, rest
<1>7. CASE Drain
  <2>1. Once(ready, "drain") /\ ready' = rest /\ drain' \in {"waiting", "ended"} /\ reader' = reader
    BY <1>3, <1>7 DEF Drain, Tasks, rest
  <2>2. OpenFirst(rest) /\ Never(rest, "drain")
          /\ \A t \in {"read", "close"} : (Never(ready, t) => Never(rest, t))
                                          /\ (Once(ready, t) => Once(rest, t))
    BY <1>3, <1>7, <2>1 DEF Drain
  <2> QED
    BY <2>1, <2>2 DEF Tasks
<1>8. CASE Read
  <2>1. Once(ready, "read") /\ drain' = drain
    BY <1>3, <1>8 DEF Read, Tasks
  <2>2. Never(ready, "close")
    <3>1. reader \in {"new", "woken"}
      BY <1>3, <1>8 DEF Read, Tasks
    <3> QED
      BY <3>1 DEF Tasks
  <2>3. rest \in Seq(Task) /\ OpenFirst(rest) /\ Never(rest, "read") /\ Never(rest, "close")
          /\ (Never(ready, "drain") => Never(rest, "drain"))
          /\ (Once(ready, "drain") => Once(rest, "drain"))
    BY <1>3, <1>8, <2>1, <2>2 DEF Read
  <2>4. CASE reader' = "waiting" /\ ready' = rest
    BY <2>1, <2>3, <2>4 DEF Tasks
  <2>5. CASE reader' = "closing" /\ ready' = Append(rest, <<"close">>)
    <3>1. OpenFirst(ready') /\ Never(ready', "read") /\ Once(ready', "close")
          /\ (Never(ready, "drain") => Never(ready', "drain"))
          /\ (Once(ready, "drain") => Once(ready', "drain"))
      BY <1>4, <2>3, <2>5
    <3> QED
      BY <2>1, <2>5, <3>1 DEF Tasks
  <2> QED
    BY <1>8, <2>4, <2>5, ReadEffect DEF rest
<1>9. CASE Close
  <2>1. Once(ready, "close") /\ ready' = rest /\ reader' = "ended" /\ drain' = drain
    BY <1>3, <1>9 DEF Close, Tasks, rest
  <2>2. reader = "closing" /\ Never(ready, "read")
    <3>1. reader = "closing"
      BY <1>3, <1>9 DEF Close, Tasks
    <3> QED
      BY <3>1 DEF Tasks
  <2>3. OpenFirst(rest) /\ Never(rest, "read") /\ Never(rest, "close")
          /\ (Never(ready, "drain") => Never(rest, "drain"))
          /\ (Once(ready, "drain") => Once(rest, "drain"))
    BY <1>3, <1>9, <2>1, <2>2 DEF Close
  <2> QED
    BY <2>1, <2>3 DEF Tasks
<1>10. CASE EnqueueRx
  <2>1. CASE reader = "waiting"
    <3>1. Never(ready, "read") /\ Never(ready, "close") /\ OpenFirst(ready)
      BY <2>1 DEF Tasks
    <3>2. ready' = Append(ready, <<"read">>) /\ reader' = "woken" /\ drain' = drain
      BY <1>10, <2>1 DEF EnqueueRx
    <3>3. OpenFirst(ready') /\ Once(ready', "read") /\ Never(ready', "close")
          /\ (Never(ready, "drain") => Never(ready', "drain"))
          /\ (Once(ready, "drain") => Once(ready', "drain"))
      BY <1>1, <1>4, <3>1, <3>2
    <3> QED
      BY <3>2, <3>3 DEF Tasks
  <2>2. CASE reader # "waiting"
    BY <1>10, <2>2, TasksSame DEF EnqueueRx
  <2> QED
    BY <2>1, <2>2
<1> QED
  BY <1>5, <1>6, <1>7, <1>8, <1>9, <1>10 DEF RunTask

LEMMA TasksKept ==
    ASSUME Typed, Tasks, Fits, [Next]_vars
    PROVE  Tasks'
<1>1. CASE UNCHANGED vars \/ AppSends \/ ConnectionLost
  BY <1>1, TasksSame
  DEF vars, AppSends, Greet, Authenticate, Ask, SendData, Says, ConnectionLost, vconn
<1> QED
  BY <1>1, TasksReceived, TasksRuns DEF Next
-----------------------------------------------------------------------------
LEMMA NotOpeningNext ==
    ASSUME ready' \in Seq(Task), Never(ready', "open")
    PROVE  ~Opening'
<1>1. ready' # <<>> => Head(ready') = ready'[1] /\ 1 \in DOMAIN ready'
  OBVIOUS
<1> QED
  BY <1>1 DEF Never, Opening

LEMMA OpeningAdded ==
    ASSUME ready \in Seq(Task), NEW t \in Task, t[1] # "open", ready' = Append(ready, t)
    PROVE  Opening' => Opening
<1>1. CASE ready = <<>>
  <2>1. Head(ready') = t
    BY <1>1
  <2> QED
    BY <2>1 DEF Opening
<1>2. CASE ready # <<>>
  <2>1. Head(ready') = Head(ready)
    BY <1>2
  <2> QED
    BY <1>2, <2>1 DEF Opening
<1> QED
  BY <1>1, <1>2

LEMMA FitsSame ==
    ASSUME Fits,
           UNCHANGED <<state, ready, received, vconn, tx_q, rx_q, dispatched, delivered>>,
           transport = "open" \/ transport' = transport \/ transport' # "open"
    PROVE  Fits'
<1>1. Opening' <=> Opening
  BY DEF Opening
<1>2. CloseLast(ready')
  BY DEF Fits
<1>3. reader = "ended" => transport' # "open"
  BY DEF Fits
<1> QED
  BY <1>1, <1>2, <1>3 DEF Fits, vconn

LEMMA FitsReceived ==
    ASSUME Typed, Tasks, Fits, DataReceived
    PROVE  Fits'
<1>1. /\ UNCHANGED <<config, to_send, vconn, queues, delivered>>
      /\ transport = "open" /\ transport' \in {"open", "closing"}
  BY ReceiveReady
<1>2. reader # "ended"
  BY <1>1 DEF Fits
<1>3. ready \in Seq(Task)
  BY DEF Typed
<1>4. ASSUME /\ state' # 3 => ready' = <<>> /\ received' = <<>> /\ session = None
             /\ Opening' => session = None
             /\ CloseLast(ready')
      PROVE  Fits'
  BY <1>1, <1>2, <1>4 DEF Fits, vconn, queues
<1>5. CASE UNCHANGED <<ready, received>> /\ (state' # 3 <=> state # 3)
  <2>1. Opening' <=> Opening
    BY <1>5 DEF Opening
  <2>2. CloseLast(ready')
    BY <1>5 DEF Fits
  <2> QED
    BY <1>4, <1>5, <2>1, <2>2 DEF Fits
<1>6. CASE state = 2 /\ ready = <<>> /\ ready' = <<<<"open">>>> /\ state' = 3 /\ received' = received
  <2>1. session = None
    BY <1>6 DEF Fits
  <2>2. CloseLast(ready')
    BY <1>6 DEF CloseLast
  <2> QED
    BY <1>4, <1>6, <2>1, <2>2
<1>7. ASSUME state' = 3, NEW d \in Seq(Byte), ready' = Append(ready, <<"write", d>>)
      PROVE  Fits'
  <2> DEFINE t == <<"write", d>>
  <2>1. t \in Task /\ t[1] = "write"
    BY TaskFacts
  <2> HIDE DEF t
  <2>2. CloseLast(ready')
    BY <1>3, <1>7, <2>1, OrderAdded DEF Fits, t
  <2>3. ready' = Append(ready, t)
    BY <1>7 DEF t
  <2>4. Opening' => Opening
    BY <1>3, <2>1, <2>3, OpeningAdded
  <2> QED
    BY <1>4, <1>7, <2>2, <2>4 DEF Fits
<1> QED
  BY <1>5, <1>6, <1>7, ReceiveReady

LEMMA FitsRuns ==
    ASSUME Typed, Tasks, Fits, RunTask \/ EnqueueRx
    PROVE  Fits'
<1>1. ready \in Seq(Task)
  BY DEF Typed
<1> DEFINE rest == Tail(ready)
<1>2. ASSUME NEW task, Turn(task)
      PROVE  /\ rest \in Seq(Task) /\ Never(rest, "open") /\ CloseLast(rest)
             /\ Head(ready)[1] = task /\ ready # <<>> /\ state = 3 /\ ~Never(ready, task)
             /\ \A t : Never(ready, t) => Never(rest, t)
  <2>1. ready # <<>> /\ Head(ready)[1] = task /\ rest \in Seq(Task)
    BY <1>2, TurnFacts
  <2>2. Never(rest, "open") /\ CloseLast(rest)
    BY <1>1, <2>1, OrderTaken DEF Tasks, Fits
  <2>3. state = 3
    BY <2>1 DEF Fits
  <2> HIDE DEF rest
  <2> QED
    BY <1>1, <2>1, <2>2, <2>3, TurnTaken DEF rest
<1>3. ASSUME NEW q \in Seq(Task), NEW n \in {"read", "drain", "close"}
      PROVE  /\ Append(q, <<n>>) \in Seq(Task)
             /\ Never(q, "open") => Never(Append(q, <<n>>), "open")
             /\ CloseLast(q) /\ (n # "drain" \/ Never(q, "close")) => CloseLast(Append(q, <<n>>))
             /\ n # "close" /\ Never(q, "close") => Never(Append(q, <<n>>), "close")
  <2>1. <<n>> \in Task /\ <<n>>[1] = n /\ n # "open"
    BY TaskFacts
  <2> QED
    BY <2>1, TaskAdded, OrderAdded
<1> HIDE DEF rest
<1>4. CASE Open
  <2>1. session = None /\ reader = None /\ drain = None /\ ~closed /\ state = 3
    BY <1>2, <1>4 DEF Open, Turn, Fits, Opening, None
  <2>2. rest \in Seq(Task) /\ Never(rest, "open") /\ CloseLast(rest) /\ Never(rest, "close")
    <3>1. Never(ready, "close")
      BY <2>1 DEF Tasks, None
    <3> QED
      BY <1>2, <1>4, <3>1 DEF Open
  <2>3. UNCHANGED <<state, transport, closed, tx_queue, rx_q, dispatched, delivered, received>>
    BY <1>4 DEF Open, socks
  <2>4. CASE clock = "float"
    <3>1. ready' = rest /\ UNCHANGED <<session, reader, drain, tx_q>>
      BY <1>4, <2>4 DEF Open, rest
    <3>2. ~Opening'
      BY <2>2, <3>1, NotOpeningNext
    <3>3. CloseLast(ready')
      BY <2>2, <3>1
    <3> QED
      BY <2>1, <2>3, <3>1, <3>2, <3>3 DEF Fits, None
  <2>5. CASE clock # "float"
    <3> DEFINE p == Append(rest, <<"read">>)
               q == Append(p, <<"drain">>)
    <3>1. p \in Seq(Task) /\ Never(p, "open") /\ CloseLast(p) /\ Never(p, "close")
      BY <1>3, <2>2
    <3>2. ready' = q
      <4>1. <<"read">> \in Task /\ <<"drain">> \in Task
        BY TaskFacts
      <4>2. rest \o <<<<"read">>, <<"drain">>>> = Append(Append(rest, <<"read">>), <<"drain">>)
        BY <2>2, <4>1
      <4> QED
        BY <1>4, <2>5, <4>2 DEF Open, rest
    <3> HIDE DEF p
    <3>3. q \in Seq(Task) /\ Never(q, "open") /\ CloseLast(q)
      BY <1>3, <3>1
    <3> HIDE DEF q
    <3>4. ~Opening'
      BY <3>2, <3>3, NotOpeningNext
    <3>5. reader' = "new" /\ drain' = "new" /\ session' = "open"
      BY <1>4, <2>5 DEF Open
    <3>6. CloseLast(ready')
      BY <3>2, <3>3
    <3>7. tx_queue' = <<>>
      BY <2>1, <2>3 DEF Fits
    <3> QED
      BY <2>1, <2>3, <3>4, <3>5, <3>6, <3>7 DEF Fits, None
  <2> QED
    BY <2>4, <2>5
<1>5. CASE Write
  <2>1. rest \in Seq(Task) /\ Never(rest, "open") /\ CloseLast(rest) /\ state = 3
    BY <1>2, <1>5 DEF Write
  <2>2. UNCHANGED <<state, transport, closed, session, reader, tx_q, rx_q, dispatched,
                    delivered, received>>
    BY <1>5 DEF Write, socks, queues
  <2>3. CASE ready' = rest /\ UNCHANGED <<drain, tx_queue>>
    <3>1. ~Opening' /\ CloseLast(ready')
      BY <2>1, <2>3, NotOpeningNext
    <3> QED
      BY <2>1, <2>2, <2>3, <3>1 DEF Fits
  <2>4. CASE ~closed /\ session # None /\ tx_queue' = Append(tx_queue, Head(ready)[2])
    <3>1. tx_queue' # <<>>
      <4>1. Head(ready)[2] \in Seq(Byte) /\ tx_queue \in Seq(Seq(Byte))
        BY <1>5, TurnFacts DEF Write, Typed
      <4> QED
        BY <2>4, <4>1
    <3>2. ready' = rest \/ ready' = Append(rest, <<"drain">>)
      BY <1>5, <2>4 DEF Write, rest
    <3>3. ~Opening' /\ CloseLast(ready')
      <4>1. Never(ready, "close")
        BY <2>4 DEF Fits, Tasks
      <4>2. Never(rest, "close")
        BY <1>2, <1>5, <4>1 DEF Write
      <4> QED
        BY <1>3, <2>1, <3>2, <4>2, NotOpeningNext
    <3>4. drain' \in {"new", "woken"}
      <4>1. drain \in {None, "new", "waiting", "woken", "ended"}
        BY DEF Typed
      <4>2. drain # None /\ drain # "ended"
        BY <2>4 DEF Fits
      <4>3. drain' = IF drain = "waiting" THEN "woken" ELSE drain
        BY <1>5, <2>4 DEF Write
      <4> QED
        BY <4>1, <4>2, <4>3
    <3>5. reader # "ended"
      BY <2>4 DEF Fits
    <3> QED
      BY <2>1, <2>2, <2>4, <3>1, <3>3, <3>4, <3>5 DEF Fits, None
  <2> QED
    BY <1>5, <2>3, <2>4 DEF Write, rest
<1>6. CASE Drain
  <2>1. /\ rest \in Seq(Task) /\ Never(rest, "open") /\ CloseLast(rest) /\ state = 3
        /\ drain \in {"new", "woken"} /\ ready' = rest
    BY <1>2, <1>6 DEF Drain, Tasks, rest
  <2>2. UNCHANGED <<state, transport, closed, session, reader, rx_q, dispatched,
                    delivered, received>>
    BY <1>6 DEF Drain, socks
  <2>3. drain' = IF closed THEN "ended" ELSE "waiting"
    BY <1>6 DEF Drain
  <2>4. ~closed => tx_queue' = <<>>
    <3>1. PICK taken, rst \in Seq(Seq(Byte)) : tx_queue' = rst /\ (~closed => rst = <<>>)
      BY <1>6, DrainEffect
    <3> QED
      BY <3>1
  <2>5. ~Opening' /\ CloseLast(ready')
    BY <2>1, NotOpeningNext
  <2>6. session # None
    BY <2>1 DEF Fits, None
  <2> QED
    BY <2>1, <2>2, <2>3, <2>4, <2>5, <2>6 DEF Fits, None
<1>7. CASE Read
  <2>1. /\ rest \in Seq(Task) /\ Never(rest, "open") /\ CloseLast(rest) /\ state = 3
        /\ reader \in {"new", "woken"}
    BY <1>2, <1>7 DEF Read, Tasks
  <2>2. UNCHANGED <<state, transport, session, tx_queue, drain, tx_q, dispatched, received>>
    BY <1>7 DEF Read, socks
  <2>3. session # None /\ ~closed
    BY <2>1 DEF Fits, None
  <2>4. drain # "ended"
    BY <2>3 DEF Fits
  <2>5. CASE rx_q' = <<>> /\ reader' = "waiting" /\ closed' = FALSE /\ ready' = rest
    <3>1. ~Opening' /\ CloseLast(ready')
      BY <2>1, <2>5, NotOpeningNext
    <3> QED
      BY <2>1, <2>2, <2>3, <2>4, <2>5, <3>1 DEF Fits, None
  <2>6. CASE reader' = "closing" /\ closed' = TRUE /\ ready' = Append(rest, <<"close">>)
    <3>1. ~Opening' /\ CloseLast(ready')
      BY <1>3, <2>1, <2>6, NotOpeningNext
    <3> QED
      BY <2>1, <2>2, <2>3, <2>4, <2>6, <3>1 DEF Fits, None
  <2> QED
    BY <1>7, <2>5, <2>6, ReadEffect DEF rest
<1>8. CASE Close
  <2>1. /\ rest \in Seq(Task) /\ Never(rest, "open") /\ CloseLast(rest) /\ state = 3
        /\ reader = "closing" /\ ready' = rest
    BY <1>2, <1>8 DEF Close, Tasks, rest
  <2>2. UNCHANGED <<state, closed, session, tx_queue, drain, rx_q, dispatched,
                    delivered, received>>
    BY <1>8 DEF Close, socks
  <2>3. session # None /\ closed
    BY <2>1 DEF Fits, None
  <2>4. drain \notin {"new", "woken"}
    <3>1. ready # <<>> /\ Head(ready)[1] = "close"
      BY <1>2, <1>8 DEF Close
    <3>2. Never(ready, "drain")
      BY <1>1, <3>1, OrderTaken DEF Fits
    <3>3. ~Once(ready, "drain")
      BY <3>2 DEF Once, Never
    <3> QED
      BY <3>3 DEF Tasks
  <2>5. transport' # "open" /\ reader' = "ended"
    BY <1>8 DEF Close
  <2>6. ~Opening' /\ CloseLast(ready')
    BY <2>1, NotOpeningNext
  <2> QED
    BY <2>1, <2>2, <2>3, <2>4, <2>5, <2>6 DEF Fits, None
<1>9. CASE EnqueueRx
  <2>1. session # None /\ UNCHANGED <<state, transport, closed, session, tx_queue, drain, tx_q,
                                      delivered, received>>
    BY <1>9 DEF EnqueueRx, socks, None
  <2>2. ~Opening
    BY <2>1 DEF Fits
  <2>3. Never(ready, "open")
    <3>1. ready # <<>> => Head(ready) = ready[1]
      BY <1>1
    <3>2. \A i \in DOMAIN ready : ready[i][1] = "open" => ready # <<>> /\ i = 1
      BY <1>1 DEF Tasks, OpenFirst
    <3> QED
      BY <2>2, <3>1, <3>2 DEF Opening, Never
  <2>4. CASE reader = "waiting" /\ reader' = "woken" /\ ready' = Append(ready, <<"read">>)
    <3>1. ~Opening' /\ CloseLast(ready')
      <4>1. CloseLast(ready)
        BY DEF Fits
      <4> QED
        BY <1>1, <1>3, <2>3, <2>4, <4>1, NotOpeningNext
    <3>2. state = 3
      BY <2>1 DEF Fits
    <3> QED
      BY <2>1, <2>4, <3>1, <3>2 DEF Fits, None
  <2>5. CASE reader # "waiting" /\ UNCHANGED <<reader, ready>>
    <3>1. (Opening' <=> Opening) /\ CloseLast(ready')
      BY <2>5 DEF Opening, Fits
    <3> QED
      BY <2>1, <2>5, <3>1 DEF Fits, None
  <2> QED
    BY <1>9, <2>4, <2>5 DEF EnqueueRx
<1> QED
  BY <1>4, <1>5, <1>6, <1>7, <1>8, <1>9 DEF RunTask

LEMMA FitsKept ==
    ASSUME Typed, Tasks, Fits, [Next]_vars
    PROVE  Fits'
<1>1. CASE UNCHANGED vars \/ AppSends \/ ConnectionLost
  <2>1. UNCHANGED <<state, ready, received, vconn, tx_q, rx_q, dispatched, delivered>>
    BY <1>1
    DEF vars, AppSends, Greet, Authenticate, Ask, SendData, Says, ConnectionLost, queues, socks
  <2>2. transport' = transport \/ transport' # "open"
    BY <1>1
    DEF vars, AppSends, Greet, Authenticate, Ask, SendData, Says, ConnectionLost
  <2> QED
    BY <2>1, <2>2, FitsSame
<1> QED
  BY <1>1, FitsReceived, FitsRuns DEF Next
-----------------------------------------------------------------------------
(* Whatever pieces it came in, what a handler sees of a message is a       *)
(* beginning of it.                                                        *)
LEMMA Beginning ==
    ASSUME NEW b \in Seq(Byte), NEW r \in Seq(Byte), NEW l \in Seq(Byte), b \o r = l
    PROVE  /\ Len(b) \in Nat /\ Len(r) \in Nat /\ Len(l) = Len(b) + Len(r)
           /\ \A i \in 1..Len(b) : b[i] = l[i]
           /\ Len(b) >= Len(l) => b = l /\ r = <<>>
<1>1. Len(b) \in Nat /\ Len(r) \in Nat /\ Len(l) = Len(b) + Len(r)
  BY ConcatProperties
<1>2. \A i \in 1..Len(b) : b[i] = l[i]
  <2>1. \A i \in 1..Len(b) : i \in 1..(Len(b) + Len(r)) /\ i <= Len(b)
    BY <1>1
  <2> QED
    BY <2>1, ConcatProperties
<1>3. ASSUME Len(b) >= Len(l)  PROVE b = l /\ r = <<>>
  <2>1. Len(r) = 0 /\ Len(b) = Len(l)
    BY <1>1, <1>3
  <2>2. r = <<>>
    BY <2>1
  <2>3. b = l
    BY <1>2, <2>1, SeqEqual
  <2> QED
    BY <2>2, <2>3
<1> QED
  BY <1>1, <1>2, <1>3

LEMMA Joined ==
    ASSUME NEW s \in Seq(Byte), NEW t \in Seq(Byte)
    PROVE  /\ s \o t \in Seq(Byte) /\ Len(s \o t) = Len(s) + Len(t)
           /\ Len(s) \in Nat /\ Len(t) \in Nat
           /\ \A i \in 1..Len(s) : (s \o t)[i] = s[i]
           /\ \A i \in 1..Len(t) : (s \o t)[Len(s) + i] = t[i]
<1>1. /\ s \o t \in Seq(Byte) /\ Len(s \o t) = Len(s) + Len(t)
      /\ Len(s) \in Nat /\ Len(t) \in Nat
  BY ConcatProperties
<1>2. ASSUME NEW i \in 1..Len(s)  PROVE (s \o t)[i] = s[i]
  <2>1. i \in 1..(Len(s) + Len(t)) /\ i <= Len(s)
    BY <1>1
  <2> QED
    BY <2>1, ConcatProperties
<1>3. ASSUME NEW i \in 1..Len(t)  PROVE (s \o t)[Len(s) + i] = t[i]
  <2>1. Len(s) + i \in 1..(Len(s) + Len(t)) /\ ~(Len(s) + i <= Len(s)) /\ (Len(s) + i) - Len(s) = i
    BY <1>1
  <2> QED
    BY <2>1, ConcatProperties
<1> QED
  BY <1>1, <1>2, <1>3

LEMMA Cut ==
    ASSUME NEW b \in Seq(Byte), NEW m \in Nat \ {0}, NEW t \in Seq(Byte),
           m + Len(t) - 1 <= Len(b), \A i \in 1..Len(t) : b[m - 1 + i] = t[i]
    PROVE  SubSeq(b, m, m + Len(t) - 1) = t
<1> DEFINE n == m + Len(t) - 1
           u == SubSeq(b, m, n)
<1>1. n \in Int /\ m \in Int /\ Len(t) \in Nat /\ Len(b) \in Nat
  OBVIOUS
<1>2. \A i \in m..n : b[i] \in Byte
  BY <1>1
<1>3. /\ u \in Seq(Byte) /\ Len(u) = IF m <= n THEN n - m + 1 ELSE 0
      /\ \A i \in 1..(n - m + 1) : u[i] = b[m + i - 1]
  BY <1>1, <1>2, SubSeqProperties
<1>4. Len(u) = Len(t)
  BY <1>1, <1>3
<1>5. \A i \in 1..Len(t) : u[i] = t[i]
  <2>1. \A i \in 1..Len(t) : i \in 1..(n - m + 1) /\ m + i - 1 = m - 1 + i
    BY <1>1
  <2> QED
    BY <1>3, <2>1
<1> QED
  BY <1>3, <1>4, <1>5, SeqEqual

LEMMA FieldFacts ==
    ASSUME Typed
    PROVE  /\ app.ver \in Byte /\ app.methods \in Seq(Byte) /\ app.user \in Seq(Byte)
           /\ app.pass \in Seq(Byte) /\ app.cmd \in Byte /\ app.atyp \in Byte
           /\ app.addr \in Seq(Byte) /\ app.port \in Port
           /\ Len(app.methods) \in Byte /\ Len(app.user) \in Byte /\ Len(app.pass) \in Byte
           /\ app.atyp = IPV4 => Len(app.addr) = 4
           /\ app.atyp = IPV6 => Len(app.addr) = 16
           /\ app.atyp = DOMAINNAME => Len(app.addr) \in Byte
           /\ app.atyp \notin {IPV4, IPV6, DOMAINNAME} => Len(app.addr) = 0
           /\ \A x \in Byte : x \in Nat
<1>1. app \in Application /\ WellFormed(app)
  BY AppFacts
<1>2. \A x \in Byte : x \in Nat
  BY DEF Byte
<1>3. /\ app.ver \in Byte /\ app.methods \in Seq(Byte) /\ app.user \in Seq(Byte)
      /\ app.pass \in Seq(Byte) /\ app.cmd \in Byte /\ app.atyp \in Byte
      /\ app.addr \in Seq(Byte) /\ app.port \in Port
  BY <1>1 DEF Application
<1>4. Len(app.methods) \in Byte /\ Len(app.user) \in Byte /\ Len(app.pass) \in Byte
  BY <1>1 DEF WellFormed
<1>5. /\ app.atyp = IPV4 => Len(app.addr) = 4
      /\ app.atyp = IPV6 => Len(app.addr) = 16
      /\ app.atyp = DOMAINNAME => Len(app.addr) \in Byte
      /\ app.atyp \notin {IPV4, IPV6, DOMAINNAME} => Len(app.addr) = 0
  <2>1. Len(app.addr) \in CASE app.atyp = IPV4 -> {4}
                             [] app.atyp = IPV6 -> {16}
                             [] app.atyp = DOMAINNAME -> Byte
                             [] OTHER -> {0}
    BY <1>1 DEF WellFormed
  <2>2. IPV4 # IPV6 /\ IPV4 # DOMAINNAME /\ IPV6 # DOMAINNAME
    BY DEF IPV4, IPV6, DOMAINNAME
  <2>3. CASE app.atyp = IPV4
    BY <2>1, <2>2, <2>3
  <2>4. CASE app.atyp = IPV6
    BY <2>1, <2>2, <2>4
  <2>5. CASE app.atyp = DOMAINNAME
    BY <2>1, <2>2, <2>5
  <2>6. CASE app.atyp \notin {IPV4, IPV6, DOMAINNAME}
    BY <2>1, <2>6
  <2> QED
    BY <2>3, <2>4, <2>5, <2>6
<1> QED
  BY <1>2, <1>3, <1>4, <1>5

(* A greeting is whole when all of it is there, and says what was meant.   *)
LEMMA GreetingRead ==
    ASSUME Typed, NEW b \in Seq(Byte), NEW r \in Seq(Byte), b \o r = Greeting(app)
    PROVE  /\ Len(b) >= 3 => b[1] = app.ver
           /\ GreetingWhole(b) => /\ r = <<>>
                                  /\ ToSet(SubSeq(b, 3, 2 + b[2])) = ToSet(app.methods)
<1> DEFINE h == <<app.ver, Len(app.methods)>>
           n == Len(app.methods)
<1>1. h \in Seq(Byte) /\ Len(h) = 2 /\ h[1] = app.ver /\ h[2] = n /\ app.methods \in Seq(Byte)
        /\ n \in Nat
  BY FieldFacts
<1>2. Greeting(app) = h \o app.methods
  BY DEF Greeting
<1> HIDE DEF h
<1> DEFINE g == Greeting(app)
<1>3. /\ g \in Seq(Byte) /\ Len(g) = 2 + n /\ g[1] = app.ver /\ g[2] = n
      /\ \A i \in 1..n : g[2 + i] = app.methods[i]
  <2> DEFINE j == h \o app.methods
  <2>3. /\ j \in Seq(Byte) /\ Len(j) = Len(h) + Len(app.methods)
        /\ \A i \in 1..Len(h) : j[i] = h[i]
        /\ \A i \in 1..Len(app.methods) : j[Len(h) + i] = app.methods[i]
    BY <1>1, Joined
  <2>4. g = j
    BY <1>2
  <2> HIDE DEF g, j
  <2>1. /\ g \in Seq(Byte) /\ Len(g) = Len(h) + Len(app.methods)
        /\ \A i \in 1..Len(h) : g[i] = h[i]
        /\ \A i \in 1..Len(app.methods) : g[Len(h) + i] = app.methods[i]
    BY <2>3, <2>4
  <2>2. 1 \in 1..Len(h) /\ 2 \in 1..Len(h)
    BY <1>1
  <2> QED
    BY <1>1, <2>1, <2>2
<1> HIDE DEF g
<1>4. /\ Len(b) \in Nat /\ \A i \in 1..Len(b) : b[i] = g[i]
      /\ Len(b) >= Len(g) => b = g /\ r = <<>>
  BY <1>3, Beginning DEF g
<1>5. Len(b) >= 3 => b[1] = app.ver /\ b[2] = n
  BY <1>3, <1>4
<1>6. ASSUME GreetingWhole(b)
      PROVE  r = <<>> /\ ToSet(SubSeq(b, 3, 2 + b[2])) = ToSet(app.methods)
  <2>1. Len(b) >= 2 + n /\ b[2] = n
    BY <1>5, <1>6 DEF GreetingWhole
  <2>2. b = g /\ r = <<>>
    BY <1>3, <1>4, <2>1
  <2>3. SubSeq(g, 3, 3 + Len(app.methods) - 1) = app.methods
    <3>1. \A i \in 1..Len(app.methods) : g[3 - 1 + i] = app.methods[i]
      BY <1>3
    <3>2. 3 + Len(app.methods) - 1 <= Len(g) /\ 3 \in Nat \ {0}
      BY <1>1, <1>3
    <3> QED
      BY <1>1, <1>3, <3>1, <3>2, Cut
  <2>4. 3 + Len(app.methods) - 1 = 2 + b[2]
    BY <1>1, <2>1
  <2> QED
    BY <2>2, <2>3, <2>4
<1> QED
  BY <1>5, <1>6

LEMMA CredentialsRead ==
    ASSUME Typed, NEW b \in Seq(Byte), NEW r \in Seq(Byte), b \o r = Credentials(app)
    PROVE  /\ Len(b) >= 5 => b[1] = 1
           /\ CredentialsWhole(b) =>
                /\ r = <<>>
                /\ SubSeq(b, 3, 2 + b[2]) = app.user
                /\ SubSeq(b, 4 + b[2], 3 + b[2] + b[3 + b[2]]) = app.pass
<1> DEFINE u == Len(app.user)
           p == Len(app.pass)
           h == <<1, u>>
           k == <<p>>
           g == Credentials(app)
<1>1. /\ h \in Seq(Byte) /\ Len(h) = 2 /\ h[1] = 1 /\ h[2] = u
      /\ k \in Seq(Byte) /\ Len(k) = 1 /\ k[1] = p
      /\ app.user \in Seq(Byte) /\ app.pass \in Seq(Byte) /\ u \in Nat /\ p \in Nat
  <2>1. 1 \in Byte
    BY DEF Byte
  <2> QED
    BY <2>1, FieldFacts
<1>2. g = ((h \o app.user) \o k) \o app.pass
  BY DEF Credentials
<1> HIDE DEF h, k
<1> DEFINE s == h \o app.user
           t == s \o k
<1>3. /\ s \in Seq(Byte) /\ Len(s) = 2 + u /\ s[1] = 1 /\ s[2] = u
      /\ \A i \in 1..u : s[2 + i] = app.user[i]
  <2>1. /\ s \in Seq(Byte) /\ Len(s) = Len(h) + Len(app.user)
        /\ \A i \in 1..Len(h) : s[i] = h[i]
        /\ \A i \in 1..Len(app.user) : s[Len(h) + i] = app.user[i]
    BY <1>1, Joined, ZenonT(40)
  <2>2. 1 \in 1..Len(h) /\ 2 \in 1..Len(h)
    BY <1>1
  <2> HIDE DEF s
  <2> QED
    BY <1>1, <2>1, <2>2
<1> HIDE DEF s
<1>4. /\ t \in Seq(Byte) /\ Len(t) = 3 + u /\ t[1] = 1 /\ t[2] = u
      /\ \A i \in 1..u : t[2 + i] = app.user[i]
      /\ t[3 + u] = p
  <2>1. /\ t \in Seq(Byte) /\ Len(t) = Len(s) + 1
        /\ \A i \in 1..Len(s) : t[i] = s[i]
        /\ t[Len(s) + 1] = k[1]
    <3>1. 1 \in 1..Len(k) /\ Len(k) = 1
      BY <1>1
    <3>2. /\ t \in Seq(Byte) /\ Len(t) = Len(s) + Len(k)
          /\ \A i \in 1..Len(s) : t[i] = s[i]
          /\ \A i \in 1..Len(k) : t[Len(s) + i] = k[i]
      BY <1>1, <1>3, Joined, ZenonT(40)
    <3> HIDE DEF t
    <3> QED
      BY <3>1, <3>2
  <2>2. 1 \in 1..Len(s) /\ 2 \in 1..Len(s) /\ Len(s) + 1 = 3 + u
    BY <1>1, <1>3
  <2>3. \A i \in 1..u : 2 + i \in 1..Len(s)
    BY <1>1, <1>3
  <2> HIDE DEF t
  <2> QED
    BY <1>1, <1>3, <2>1, <2>2, <2>3
<1> HIDE DEF t
<1>5. /\ g \in Seq(Byte) /\ Len(g) = 3 + u + p /\ g[1] = 1 /\ g[2] = u
      /\ \A i \in 1..u : g[2 + i] = app.user[i]
      /\ g[3 + u] = p
      /\ \A i \in 1..p : g[3 + u + i] = app.pass[i]
  <2>1. g = t \o app.pass
    BY <1>2 DEF s, t
  <2> HIDE DEF g
  <2>2. /\ g \in Seq(Byte) /\ Len(g) = Len(t) + p
        /\ \A i \in 1..Len(t) : g[i] = t[i]
        /\ \A i \in 1..p : g[Len(t) + i] = app.pass[i]
    <3> DEFINE j == t \o app.pass
    <3>1. /\ j \in Seq(Byte) /\ Len(j) = Len(t) + Len(app.pass)
          /\ \A i \in 1..Len(t) : j[i] = t[i]
          /\ \A i \in 1..Len(app.pass) : j[Len(t) + i] = app.pass[i]
      BY <1>1, <1>4, Joined, ZenonT(40)
    <3>2. g = j
      BY <2>1
    <3> HIDE DEF j
    <3> QED
      BY <3>1, <3>2
  <2>3. 1 \in 1..Len(t) /\ 2 \in 1..Len(t) /\ 3 + u \in 1..Len(t)
    BY <1>1, <1>4
  <2>4. \A i \in 1..u : 2 + i \in 1..Len(t)
    BY <1>1, <1>4
  <2> QED
    BY <1>1, <1>4, <2>2, <2>3, <2>4
<1> HIDE DEF g
<1>6. /\ Len(b) \in Nat /\ \A i \in 1..Len(b) : b[i] = g[i]
      /\ Len(b) >= Len(g) => b = g /\ r = <<>>
  BY <1>5, Beginning DEF g
<1> HIDE DEF u, p
<1>7. Len(b) >= 5 => b[1] = 1 /\ b[2] = u
  <2>1. Len(b) >= 5 => 1 \in 1..Len(b) /\ 2 \in 1..Len(b)
    BY <1>6
  <2> QED
    BY <1>5, <1>6, <2>1
<1>8. ASSUME CredentialsWhole(b)
      PROVE  /\ r = <<>> /\ SubSeq(b, 3, 2 + b[2]) = app.user
             /\ SubSeq(b, 4 + b[2], 3 + b[2] + b[3 + b[2]]) = app.pass
  <2>1. b[2] = u /\ Len(b) >= 3 + u
    BY <1>7, <1>8 DEF CredentialsWhole
  <2>2. b[3 + u] = p
    <3>1. 3 + u \in 1..Len(b)
      BY <1>1, <1>6, <2>1
    <3> QED
      BY <1>5, <1>6, <3>1
  <2>3. Len(b) >= 3 + u + p
    BY <1>8, <2>1, <2>2 DEF CredentialsWhole
  <2>4. b = g /\ r = <<>>
    BY <1>5, <1>6, <2>3
  <2>5. SubSeq(g, 3, 3 + u - 1) = app.user
    <3>1. \A i \in 1..u : 3 - 1 + i = 2 + i
      BY <1>1
    <3>2. \A i \in 1..u : g[3 - 1 + i] = app.user[i]
      BY <1>5, <3>1
    <3>3. 3 + u - 1 <= Len(g) /\ 3 \in Nat \ {0}
      BY <1>1, <1>5
    <3> QED
      BY <1>1, <1>5, <3>2, <3>3, Cut DEF u
  <2>6. SubSeq(g, 4 + u, (4 + u) + p - 1) = app.pass
    <3>1. \A i \in 1..p : (4 + u) - 1 + i = 3 + u + i
      BY <1>1
    <3>2. \A i \in 1..p : g[(4 + u) - 1 + i] = app.pass[i]
      BY <1>5, <3>1
    <3>3. (4 + u) + p - 1 <= Len(g) /\ 4 + u \in Nat \ {0}
      BY <1>1, <1>5
    <3> DEFINE m == 4 + u
    <3> HIDE DEF m
    <3>4. SubSeq(g, m, m + p - 1) = app.pass
      BY <1>1, <1>5, <3>2, <3>3, Cut DEF m, p
    <3> QED
      BY <3>4 DEF m
  <2>7. 3 + u - 1 = 2 + b[2] /\ (4 + u) + p - 1 = 3 + b[2] + b[3 + b[2]]
        /\ 4 + u = 4 + b[2]
    BY <1>1, <2>1, <2>2
  <2> QED
    BY <2>4, <2>5, <2>6, <2>7
<1> QED
  BY <1>7, <1>8

LEMMA RequestItems ==
    ASSUME Typed
    PROVE  LET g == Request(app)
               n == Len(app.addr)
               f == IF app.atyp = DOMAINNAME THEN 6 ELSE 5
           IN  /\ g \in Seq(Byte) /\ Len(g) = f + n + 1 /\ n \in Nat
               /\ g[1] = app.ver /\ g[2] = app.cmd /\ g[4] = app.atyp
               /\ app.atyp = DOMAINNAME => g[5] = n
               /\ \A i \in 1..n : g[f - 1 + i] = app.addr[i]
               /\ 256 * g[f + n] + g[f + n + 1] = app.port
<1> DEFINE g  == Request(app)
           n  == Len(app.addr)
           f  == IF app.atyp = DOMAINNAME THEN 6 ELSE 5
           h  == <<app.ver, app.cmd, 0, app.atyp>>
           l  == IF app.atyp = DOMAINNAME THEN <<Len(app.addr)>> ELSE <<>>
           hi == app.port \div 256
           lo == app.port % 256
           k  == <<hi, lo>>
<1>1. /\ h \in Seq(Byte) /\ Len(h) = 4 /\ h[1] = app.ver /\ h[2] = app.cmd /\ h[4] = app.atyp
  <2>1. 0 \in Byte
    BY DEF Byte
  <2> QED
    BY <2>1, FieldFacts
<1>2. app.addr \in Seq(Byte) /\ n \in Nat
  BY FieldFacts
<1>3. /\ l \in Seq(Byte) /\ f \in {5, 6} /\ Len(l) = f - 5
      /\ app.atyp = DOMAINNAME => l[1] = n /\ f = 6
  <2>1. CASE app.atyp = DOMAINNAME
    <3>1. l = <<n>> /\ f = 6 /\ n \in Byte
      BY <2>1, FieldFacts
    <3> HIDE DEF l, n, f
    <3> QED
      BY <2>1, <3>1
  <2>2. CASE app.atyp # DOMAINNAME
    BY <2>2
  <2> QED
    BY <2>1, <2>2
<1>4. /\ k \in Seq(Byte) /\ Len(k) = 2 /\ k[1] = hi /\ k[2] = lo /\ 256 * hi + lo = app.port
  <2>1. app.port \in Port
    BY FieldFacts
  <2>2. hi \in Byte /\ lo \in Byte /\ 256 * hi + lo = app.port
    BY <2>1, PortSplit
  <2> HIDE DEF hi, lo
  <2>3. k \in Seq(Byte) /\ Len(k) = 2 /\ k[1] = hi /\ k[2] = lo
    BY <2>2
  <2> QED
    BY <2>2, <2>3
<1> HIDE DEF h, l, k, hi, lo, n, f
<1> DEFINE s == h \o l
           t == s \o app.addr
           u == t \o k
<1>5. g = u
  BY DEF Request, h, l, k, hi, lo
<1>6. /\ s \in Seq(Byte) /\ Len(s) = Len(h) + Len(l)
      /\ \A i \in 1..Len(h) : s[i] = h[i]
      /\ \A i \in 1..Len(l) : s[Len(h) + i] = l[i]
  BY <1>1, <1>3, Joined
<1> HIDE DEF s
<1>7. /\ t \in Seq(Byte) /\ Len(t) = Len(s) + Len(app.addr)
      /\ \A i \in 1..Len(s) : t[i] = s[i]
      /\ \A i \in 1..Len(app.addr) : t[Len(s) + i] = app.addr[i]
  BY <1>2, <1>6, Joined
<1> HIDE DEF t
<1>8. /\ u \in Seq(Byte) /\ Len(u) = Len(t) + Len(k)
      /\ \A i \in 1..Len(t) : u[i] = t[i]
      /\ \A i \in 1..Len(k) : u[Len(t) + i] = k[i]
  BY <1>4, <1>7, Joined, ZenonT(40)
<1> HIDE DEF u, g
<1>9. Len(s) = f - 1 /\ Len(t) = f - 1 + n /\ Len(u) = f + n + 1 /\ f \in Nat /\ n \in Nat
  BY <1>1, <1>2, <1>3, <1>4, <1>6, <1>7, <1>8 DEF n
<1>10. \A i \in 1..4 : i \in 1..Len(h) /\ i \in 1..Len(s) /\ i \in 1..Len(t)
  BY <1>1, <1>3, <1>9
<1>11. u[1] = app.ver /\ u[2] = app.cmd /\ u[4] = app.atyp
  <2>1. \A i \in 1..4 : u[i] = h[i]
    BY <1>6, <1>7, <1>8, <1>10
  <2> QED
    BY <1>1, <2>1
<1>12. app.atyp = DOMAINNAME => u[5] = n
  <2> SUFFICES ASSUME app.atyp = DOMAINNAME PROVE u[5] = n
    OBVIOUS
  <2>1. f = 6 /\ 1 \in 1..Len(l) /\ Len(h) + 1 = 5
    BY <1>1, <1>3
  <2>2. 5 \in 1..Len(s) /\ 5 \in 1..Len(t)
    BY <1>9, <2>1
  <2>3. s[5] = l[1]
    BY <1>6, <2>1
  <2> QED
    BY <1>3, <1>7, <1>8, <2>2, <2>3
<1>13. \A i \in 1..n : u[f - 1 + i] = app.addr[i]
  <2>1. \A i \in 1..n : f - 1 + i \in 1..Len(t)
    BY <1>3, <1>9
  <2>2. \A i \in 1..n : t[f - 1 + i] = app.addr[i]
    BY <1>7, <1>9 DEF n
  <2> QED
    BY <1>8, <2>1, <2>2
<1>14. u[f + n] = hi /\ u[f + n + 1] = lo
  <2>1. Len(t) + 1 = f + n /\ Len(t) + 2 = f + n + 1 /\ 1 \in 1..Len(k) /\ 2 \in 1..Len(k)
    BY <1>3, <1>4, <1>9
  <2> QED
    BY <1>4, <1>8, <2>1
<1>15. 256 * u[f + n] + u[f + n + 1] = app.port
  BY <1>4, <1>14
<1>16. /\ g \in Seq(Byte) /\ Len(g) = f + n + 1 /\ n \in Nat
       /\ g[1] = app.ver /\ g[2] = app.cmd /\ g[4] = app.atyp
       /\ app.atyp = DOMAINNAME => g[5] = n
       /\ \A i \in 1..n : g[f - 1 + i] = app.addr[i]
       /\ 256 * g[f + n] + g[f + n + 1] = app.port
  BY <1>5, <1>8, <1>9, <1>11, <1>12, <1>13, <1>15
<1> QED
  BY <1>16 DEF g, n, f

(* A request is whole when all of it is there; behind it there may be more.*)
LEMMA RequestRead ==
    ASSUME Typed, NEW b \in Seq(Byte), NEW r \in Seq(Byte), NEW z \in Seq(Byte),
           b \o r = Request(app) \o z
    PROVE  /\ Len(b) >= 4 => b[1] = app.ver /\ b[2] = app.cmd
           /\ RequestWhole(b) =>
                /\ z = <<>> => r = <<>>
                /\ SubSeq(b, AddrFrom(b), HeaderLen(b)) = app.addr
                /\ 256 * b[HeaderLen(b) + 1] + b[HeaderLen(b) + 2] = app.port
<1> DEFINE g == Request(app)
           n == Len(app.addr)
           f == IF app.atyp = DOMAINNAME THEN 6 ELSE 5
           l == g \o z
<1>1. /\ g \in Seq(Byte) /\ Len(g) = f + n + 1 /\ n \in Nat
      /\ g[1] = app.ver /\ g[2] = app.cmd /\ g[4] = app.atyp
      /\ app.atyp = DOMAINNAME => g[5] = n
      /\ \A i \in 1..n : g[f - 1 + i] = app.addr[i]
      /\ 256 * g[f + n] + g[f + n + 1] = app.port
  BY RequestItems
<1>2. f \in {5, 6} /\ (app.atyp = DOMAINNAME => f = 6) /\ (app.atyp # DOMAINNAME => f = 5)
  OBVIOUS
<1>3. b \o r = l
  OBVIOUS
<1>4. app.addr \in Seq(Byte) /\ \A x \in Byte : x \in Nat
  BY FieldFacts
<1> HIDE DEF g, f
<1>5. /\ l \in Seq(Byte) /\ Len(l) = Len(g) + Len(z) /\ Len(z) \in Nat
      /\ \A i \in 1..Len(g) : l[i] = g[i]
  BY <1>1, Joined
<1> HIDE DEF l
<1>6. /\ Len(b) \in Nat /\ Len(r) \in Nat /\ Len(l) = Len(b) + Len(r)
      /\ \A i \in 1..Len(b) : b[i] = l[i]
      /\ Len(b) >= Len(l) => r = <<>>
  <2>1. l \in Seq(Byte)
    BY <1>5
  <2> QED
    BY <1>3, <2>1, Beginning
<1>7. \A i \in 1..Len(b) : i <= Len(g) => b[i] = g[i]
  <2>1. \A i \in 1..Len(b) : i <= Len(g) => i \in 1..Len(g)
    BY <1>6
  <2> QED
    BY <1>5, <1>6, <2>1
<1>8. Len(b) >= 4 => b[1] = app.ver /\ b[2] = app.cmd /\ b[4] = app.atyp
  <2>1. Len(b) >= 4 => \A i \in 1..4 : i \in 1..Len(b) /\ i <= Len(g)
    BY <1>1, <1>2, <1>6, SMTT(30)
  <2> QED
    BY <1>1, <1>7, <2>1
<1>9. ASSUME RequestWhole(b)
      PROVE  HeaderLen(b) = f + n - 1 /\ AddrFrom(b) = f /\ Len(b) >= f + n + 1
  <2>1. Len(b) >= 4 /\ Len(b) >= HeaderLen(b) + 2 /\ b[4] = app.atyp
    BY <1>8, <1>9 DEF RequestWhole
  <2>2. AddrFrom(b) = f
    BY <2>1 DEF AddrFrom, f
  <2>3. AddrLen(b) = n
    <3>1. CASE app.atyp = DOMAINNAME
      <4>1. IPV4 # DOMAINNAME /\ IPV6 # DOMAINNAME
        BY DEF IPV4, IPV6, DOMAINNAME
      <4>2. AddrLen(b) = IF Len(b) < 5 THEN 1 ELSE b[5]
        BY <2>1, <3>1, <4>1 DEF AddrLen
      <4>3. Len(b) >= 5
        <5>1. Len(b) < 5 => HeaderLen(b) = 6
          BY <1>2, <2>2, <3>1, <4>2 DEF HeaderLen
        <5> QED
          BY <1>6, <2>1, <5>1
      <4>4. b[5] = g[5]
        <5>1. 5 \in 1..Len(b) /\ 5 <= Len(g)
          BY <1>1, <1>2, <1>6, <4>3
        <5> QED
          BY <1>7, <5>1
      <4> QED
        BY <1>1, <1>6, <3>1, <4>2, <4>3, <4>4
    <3>2. CASE app.atyp = IPV4
      <4>1. n = 4
        BY <3>2, FieldFacts
      <4>2. AddrLen(b) = 4
        BY <2>1, <3>2 DEF AddrLen, IPV4, IPV6, DOMAINNAME
      <4> QED
        BY <4>1, <4>2
    <3>3. CASE app.atyp = IPV6
      <4>1. IPV4 # IPV6
        BY DEF IPV4, IPV6
      <4> QED
        <5>1. n = 16
          BY <3>3, FieldFacts
        <5>2. AddrLen(b) = 16
          BY <2>1, <3>3, <4>1 DEF AddrLen, IPV4, IPV6, DOMAINNAME
        <5> QED
          BY <5>1, <5>2
    <3>4. CASE app.atyp \notin {IPV4, IPV6, DOMAINNAME}
      BY <2>1, <3>4, FieldFacts DEF AddrLen
    <3> QED
      BY <3>1, <3>2, <3>3, <3>4
  <2>4. HeaderLen(b) = f + n - 1
    BY <2>2, <2>3 DEF HeaderLen
  <2> HIDE DEF n
  <2> QED
    BY <1>1, <1>2, <1>6, <2>1, <2>2, <2>4
<1>10. ASSUME RequestWhole(b), z = <<>>
       PROVE  r = <<>>
  <2>1. Len(z) = 0 /\ Len(b) >= Len(l)
    BY <1>1, <1>2, <1>5, <1>6, <1>9, <1>10
  <2> QED
    BY <1>6, <2>1
<1>11. ASSUME RequestWhole(b)
       PROVE  SubSeq(b, AddrFrom(b), HeaderLen(b)) = app.addr
  <2>5. Len(b) \in Nat /\ Len(b) >= f + n + 1 /\ f \in {5, 6} /\ n \in Nat
          /\ Len(g) = f + n + 1
    BY <1>1, <1>2, <1>6, <1>9, <1>11
  <2>1. \A i \in 1..n : f - 1 + i \in 1..Len(b) /\ f - 1 + i <= Len(g)
    <3> HIDE DEF n
    <3> QED
      BY <2>5
  <2>2. \A i \in 1..n : b[f - 1 + i] = app.addr[i]
    BY <1>1, <1>7, <2>1
  <2>3. f + n - 1 <= Len(b) /\ f \in Nat \ {0}
    BY <1>1, <1>2, <1>6, <1>9, <1>11, SMTT(30)
  <2>4. SubSeq(b, f, f + Len(app.addr) - 1) = app.addr
    BY <1>4, <2>2, <2>3, Cut
  <2> QED
    BY <1>9, <1>11, <2>4
<1>12. ASSUME RequestWhole(b)
       PROVE  256 * b[HeaderLen(b) + 1] + b[HeaderLen(b) + 2] = app.port
  <2> HIDE DEF n
  <2>1. HeaderLen(b) + 1 = f + n /\ HeaderLen(b) + 2 = f + n + 1
    BY <1>1, <1>2, <1>9, <1>12
  <2>2. f + n \in 1..Len(b) /\ f + n + 1 \in 1..Len(b) /\ f + n <= Len(g) /\ f + n + 1 <= Len(g)
    BY <1>1, <1>2, <1>6, <1>9, <1>12
  <2>3. b[f + n] = g[f + n] /\ b[f + n + 1] = g[f + n + 1]
    BY <1>7, <2>2
  <2> QED
    BY <1>1, <2>1, <2>3
<1> QED
  BY <1>8, <1>10, <1>11, <1>12
-----------------------------------------------------------------------------
(* The conversation, as long as the connection is open: what has been      *)
(* answered, and which message is on its way or in the buffer.             *)
Offer      == IF auth_required THEN "user_pass" ELSE "no_auth"
Passed     == IF auth_required THEN <<"user_pass", "auth_ok">> ELSE <<"no_auth">>
Answer     == IF app.cmd = CONNECT THEN "success" ELSE "unsupported"
Offered(a) ==
    /\ a.ver = SOCKS_VERSION
    /\ (IF auth_required THEN USER_PASS ELSE NO_AUTH) \in ToSet(a.methods)
Entitled(a) == Offered(a) /\ (auth_required => Permitted(a))
Nothing    == buffer = <<>> /\ inflight = <<>>

IsNew     == stage = "new" /\ state = 0 /\ replies = <<>> /\ Nothing
Greeted   == stage = "greeted" /\ state = 0 /\ replies = <<>> /\ buffer \o inflight = Greeting(app)
HasOffer  == /\ stage = "greeted" /\ state = (IF auth_required THEN 1 ELSE 2)
             /\ replies = <<Offer>> /\ Nothing /\ Offered(app)
LogsIn    == /\ stage = "authenticated" /\ auth_required /\ state = 1
             /\ replies = <<Offer>> /\ buffer \o inflight = Credentials(app) /\ Offered(app)
HasPassed == /\ stage = "authenticated" /\ auth_required /\ state = 2
             /\ replies = Passed /\ Nothing /\ Entitled(app)
Asks      == /\ stage = "asked" /\ state = 2 /\ replies = Passed /\ Entitled(app)
             /\ \E z \in Seq(Byte) :
                   /\ buffer \o inflight = Request(app) \o z
                   /\ ~app.eager => z = <<>> /\ to_send = app.data
HasTunnel == stage = "asked" /\ state = 3

Conversation ==
    IsNew \/ Greeted \/ HasOffer \/ LogsIn \/ HasPassed \/ Asks \/ HasTunnel

HandshakeInv ==
    /\ HandshakeWhole
    /\ stage # "asked" => to_send = app.data
    /\ transport = "open" => Conversation

LEMMA AppendOne ==
    ASSUME NEW S, NEW x \in S, NEW y \in S
    PROVE  Append(<<x>>, y) = <<x, y>>
<1> DEFINE a == Append(<<x>>, y)
           b == <<x, y>>
<1>1. <<x>> \in Seq(S)
  OBVIOUS
<1>2. a \in Seq(S) /\ Len(a) = 2 /\ a[1] = x /\ a[2] = y
  BY <1>1
<1>3. b \in Seq(S) /\ Len(b) = 2 /\ b[1] = x /\ b[2] = y
  OBVIOUS
<1> HIDE DEF a, b
<1>4. \A i \in 1..Len(a) : a[i] = b[i]
  BY <1>2, <1>3
<1> QED
  BY <1>2, <1>3, <1>4, SeqEqual DEF a, b

LEMMA AppendTwo ==
    ASSUME NEW S, NEW x \in S, NEW y \in S, NEW z \in S
    PROVE  Append(<<x, y>>, z) = <<x, y, z>>
<1> DEFINE a == Append(<<x, y>>, z)
           b == <<x, y, z>>
<1>1. <<x, y>> \in Seq(S)
  OBVIOUS
<1>2. a \in Seq(S) /\ Len(a) = 3 /\ a[1] = x /\ a[2] = y /\ a[3] = z
  BY <1>1
<1>3. b \in Seq(S) /\ Len(b) = 3 /\ b[1] = x /\ b[2] = y /\ b[3] = z
  OBVIOUS
<1> HIDE DEF a, b
<1>4. \A i \in 1..Len(a) : a[i] = b[i]
  BY <1>2, <1>3
<1> QED
  BY <1>2, <1>3, <1>4, SeqEqual DEF a, b

LEMMA ExpectedFacts ==
    ASSUME Typed
    PROVE  LET e == Expected(app)
           IN  /\ IsPrefix(<<>>, e) /\ IsPrefix(e, e)
               /\ app.ver # SOCKS_VERSION => e = <<"bad_version">>
               /\ app.ver = SOCKS_VERSION /\ ~Offered(app) => e = <<"no_acceptable">>
               /\ Offered(app) => IsPrefix(<<Offer>>, e)
               /\ Offered(app) /\ auth_required /\ ~Permitted(app) => e = <<Offer, "auth_failed">>
               /\ Entitled(app) => e = Append(Passed, Answer) /\ IsPrefix(Passed, e)
<1> DEFINE e == Expected(app)
<1>1. app.ver # SOCKS_VERSION => e = <<"bad_version">>
  BY DEF Expected
<1>2. app.ver = SOCKS_VERSION /\ ~Offered(app) => e = <<"no_acceptable">>
  BY DEF Expected, Offered
<1>3. CASE auth_required
  <2>1. Offered(app) /\ ~Permitted(app) => e = <<Offer, "auth_failed">>
    BY <1>3 DEF Expected, Offered, Offer
  <2>2. Offered(app) /\ Permitted(app) => e = <<"user_pass", "auth_ok", Answer>>
    BY <1>3 DEF Expected, Offered, Answer
  <2>3. Append(Passed, Answer) = <<"user_pass", "auth_ok", Answer>>
    <3>1. Append(<<"user_pass", "auth_ok">>, Answer) = <<"user_pass", "auth_ok", Answer>>
      <4>1. Answer \in Reply /\ "user_pass" \in Reply /\ "auth_ok" \in Reply
        BY DEF Answer, Reply
      <4> QED
        BY <4>1, AppendTwo
    <3>2. Passed = <<"user_pass", "auth_ok">>
      BY <1>3 DEF Passed
    <3> QED
      BY <3>1, <3>2
  <2>4. /\ \A x, y : IsPrefix(<<x>>, <<x, y>>) /\ IsPrefix(<<x, y>>, <<x, y>>)
        /\ \A x, y : IsPrefix(<<>>, <<x, y>>)
        /\ \A x : IsPrefix(<<x>>, <<x>>) /\ IsPrefix(<<>>, <<x>>)
    BY DEF IsPrefix
  <2>5. \A x, y, z : /\ IsPrefix(<<x>>, <<x, y, z>>) /\ IsPrefix(<<x, y>>, <<x, y, z>>)
                     /\ IsPrefix(<<>>, <<x, y, z>>) /\ IsPrefix(<<x, y, z>>, <<x, y, z>>)
    BY DEF IsPrefix
  <2>6. Offer = "user_pass" /\ Passed = <<"user_pass", "auth_ok">>
    BY <1>3 DEF Offer, Passed
  <2>7. Entitled(app) <=> Offered(app) /\ Permitted(app)
    BY <1>3 DEF Entitled
  <2> HIDE DEF e
  <2>8. CASE ~Offered(app)
    BY <1>1, <1>2, <2>4, <2>7, <2>8 DEF e
  <2>9. CASE Offered(app) /\ ~Permitted(app)
    BY <1>1, <1>2, <2>1, <2>4, <2>6, <2>7, <2>9 DEF e, Offered
  <2>10. CASE Offered(app) /\ Permitted(app)
    BY <1>1, <1>2, <2>2, <2>3, <2>5, <2>6, <2>7, <2>10 DEF e, Offered
  <2> QED
    BY <2>8, <2>9, <2>10
<1>4. CASE ~auth_required
  <2>1. Offered(app) => e = <<"no_auth", Answer>>
    BY <1>4 DEF Expected, Offered, Answer
  <2>3. Append(Passed, Answer) = <<"no_auth", Answer>>
    <3>1. Append(<<"no_auth">>, Answer) = <<"no_auth", Answer>>
      <4>1. Answer \in Reply /\ "no_auth" \in Reply
        BY DEF Answer, Reply
      <4> QED
        BY <4>1, AppendOne
    <3>2. Passed = <<"no_auth">>
      BY <1>4 DEF Passed
    <3> QED
      BY <3>1, <3>2
  <2>4. /\ \A x, y : IsPrefix(<<x>>, <<x, y>>) /\ IsPrefix(<<x, y>>, <<x, y>>)
        /\ \A x, y : IsPrefix(<<>>, <<x, y>>)
        /\ \A x : IsPrefix(<<x>>, <<x>>) /\ IsPrefix(<<>>, <<x>>)
    BY DEF IsPrefix
  <2>6. Offer = "no_auth" /\ Passed = <<"no_auth">>
    BY <1>4 DEF Offer, Passed
  <2>7. Entitled(app) <=> Offered(app)
    BY <1>4 DEF Entitled
  <2> HIDE DEF e
  <2>8. CASE ~Offered(app)
    BY <1>1, <1>2, <2>4, <2>7, <2>8 DEF e
  <2>9. CASE Offered(app)
    BY <1>1, <1>2, <1>4, <2>1, <2>3, <2>4, <2>6, <2>7, <2>9 DEF e, Offered
  <2> QED
    BY <2>8, <2>9
<1> QED
  BY <1>3, <1>4

(* What the conversation has come to does not depend on the connection.    *)
LEMMA WholeSame ==
    ASSUME HandshakeWhole, UNCHANGED <<config, state, replies, target>>
    PROVE  HandshakeWhole'
BY DEF HandshakeWhole, Expected, Permitted, config

LEMMA HandshakeSays ==
    ASSUME Typed, HandshakeInv, AppSends
    PROVE  HandshakeInv'
<1>1. /\ transport = "open" /\ UNCHANGED <<config, transport, socks>>
      /\ HandshakeWhole /\ Conversation
  BY DEF AppSends, Greet, Authenticate, Ask, SendData, Says, HandshakeInv
<1>2. HandshakeWhole'
  BY <1>1, WholeSame DEF socks
<1>3. UNCHANGED <<app, auth_required, state, buffer, replies>>
  BY <1>1 DEF config, socks
<1>4. Passed' = Passed /\ Offer' = Offer /\ (Offered(app) => Offered(app)') /\ (Entitled(app) => Entitled(app)')
  BY <1>3 DEF Passed, Offer, Offered, Entitled, Permitted
<1>5. inflight \in Seq(Byte) /\ buffer \in Seq(Byte)
  BY DEF Typed
<1>6. CASE Greet
  <2>1. stage = "new" /\ stage' = "greeted" /\ inflight' = inflight \o Greeting(app)
          /\ to_send' = to_send
    BY <1>6 DEF Greet, Says
  <2>2. IsNew
    BY <1>1, <2>1 DEF Conversation, Greeted, HasOffer, LogsIn, HasPassed, Asks, HasTunnel
  <2>3. buffer' \o inflight' = Greeting(app')
    <3>1. Greeting(app) \in Seq(Byte)
      BY AppFacts
    <3>2. <<>> \o (<<>> \o Greeting(app)) = Greeting(app)
      BY <3>1
    <3>3. buffer' = <<>> /\ inflight = <<>> /\ app' = app
      BY <1>3, <2>2 DEF IsNew, Nothing
    <3> QED
      BY <2>1, <3>2, <3>3
  <2>4. Greeted'
    BY <1>3, <2>1, <2>2, <2>3 DEF Greeted, IsNew
  <2>5. to_send' = app'.data
    BY <1>3, <2>1 DEF HandshakeInv
  <2> QED
    BY <1>2, <2>4, <2>5 DEF HandshakeInv, Conversation
<1>7. CASE Authenticate
  <2>1. /\ stage = "greeted" /\ Replied("user_pass") /\ stage' = "authenticated"
        /\ inflight' = inflight \o Credentials(app) /\ to_send' = to_send
    BY <1>7 DEF Authenticate, Says
  <2>2. HasOffer
    BY <1>1, <2>1
    DEF Conversation, IsNew, Greeted, LogsIn, HasPassed, Asks, HasTunnel, Replied
  <2>3. auth_required
    <3>1. Last(<<Offer>>) = Offer
      BY DEF Last
    <3> QED
      BY <2>1, <2>2, <3>1 DEF HasOffer, Replied, Offer
  <2>4. buffer' \o inflight' = Credentials(app')
    <3>1. Credentials(app) \in Seq(Byte)
      BY AppFacts
    <3>2. <<>> \o (<<>> \o Credentials(app)) = Credentials(app)
      BY <3>1
    <3>3. buffer' = <<>> /\ inflight = <<>> /\ app' = app
      BY <1>3, <2>2 DEF HasOffer, Nothing
    <3> QED
      BY <2>1, <3>2, <3>3
  <2>5. LogsIn'
    BY <1>3, <1>4, <2>1, <2>2, <2>3, <2>4 DEF LogsIn, HasOffer
  <2>6. to_send' = app'.data
    BY <1>3, <2>1 DEF HandshakeInv
  <2> QED
    BY <1>2, <2>5, <2>6 DEF HandshakeInv, Conversation
<1>8. CASE Ask
  <2>1. /\ stage' = "asked" /\ inflight' = inflight \o Request(app) /\ to_send' = to_send
        /\ \/ stage = "greeted" /\ Replied("no_auth")
           \/ stage = "authenticated" /\ Replied("auth_ok")
    BY <1>8 DEF Ask, Says
  <2>2. state = 2 /\ replies = Passed /\ Nothing /\ Entitled(app)
    <3>1. CASE stage = "greeted" /\ Replied("no_auth")
      <4>1. HasOffer
        BY <1>1, <3>1
        DEF Conversation, IsNew, Greeted, LogsIn, HasPassed, Asks, HasTunnel, Replied
      <4>2. Last(<<Offer>>) = Offer
        BY DEF Last
      <4>3. ~auth_required
        BY <3>1, <4>1, <4>2 DEF HasOffer, Replied, Offer
      <4> QED
        BY <4>1, <4>3 DEF HasOffer, Offer, Passed, Entitled
    <3>2. CASE stage = "authenticated" /\ Replied("auth_ok")
      <4>1. ~LogsIn
        <5>1. Last(<<Offer>>) = Offer
          BY DEF Last
        <5> QED
          BY <3>2, <5>1 DEF LogsIn, Replied, Offer
      <4>2. HasPassed
        BY <1>1, <3>2, <4>1 DEF Conversation, IsNew, Greeted, HasOffer, Asks, HasTunnel
      <4> QED
        BY <4>2 DEF HasPassed
    <3> QED
      BY <2>1, <3>1, <3>2
  <2>3. buffer' \o inflight' = Request(app') \o <<>>
    <3>1. Request(app) \in Seq(Byte)
      BY AppFacts
    <3>2. <<>> \o (<<>> \o Request(app)) = Request(app) \o <<>>
      BY <3>1
    <3>3. buffer' = <<>> /\ inflight = <<>> /\ app' = app
      BY <1>3, <2>2 DEF Nothing
    <3> QED
      BY <2>1, <3>2, <3>3
  <2>4. to_send' = app'.data
    <3>1. stage # "asked"
      BY <2>1
    <3> QED
      BY <1>3, <2>1, <3>1 DEF HandshakeInv
  <2>5. Asks'
    <3>1. <<>> \in Seq(Byte)
      OBVIOUS
    <3> QED
      BY <1>3, <1>4, <2>1, <2>2, <2>3, <2>4, <3>1 DEF Asks
  <2> QED
    BY <1>2, <2>4, <2>5 DEF HandshakeInv, Conversation
<1>9. CASE SendData
  <2>1. /\ stage = "asked" /\ stage' = "asked"
        /\ app.eager \/ Replied("success")
        /\ inflight' = inflight \o Head(to_send) /\ Head(to_send) \in Seq(Byte)
    <3>1. to_send \in Seq(Seq(Byte)) /\ to_send # <<>>
      BY <1>9 DEF SendData, Typed
    <3>2. Head(to_send) \in Seq(Byte)
      BY <3>1
    <3> QED
      BY <1>9, <3>2 DEF SendData, Says
  <2>2. CASE Asks
    <3>1. app.eager
      <4>1. Last(<<"user_pass", "auth_ok">>) = "auth_ok" /\ Last(<<"no_auth">>) = "no_auth"
        BY DEF Last
      <4> QED
        BY <2>1, <2>2, <4>1 DEF Asks, Replied, Passed
    <3>2. PICK z \in Seq(Byte) : buffer \o inflight = Request(app) \o z
      BY <2>2 DEF Asks
    <3>3. /\ buffer \o (inflight \o Head(to_send)) = (buffer \o inflight) \o Head(to_send)
          /\ (Request(app) \o z) \o Head(to_send) = Request(app) \o (z \o Head(to_send))
          /\ z \o Head(to_send) \in Seq(Byte)
      <4> DEFINE d == Head(to_send)
                 r == Request(app)
      <4>1. d \in Seq(Byte) /\ r \in Seq(Byte)
        BY <2>1, AppFacts
      <4> HIDE DEF d, r
      <4>2. buffer \o (inflight \o d) = (buffer \o inflight) \o d
        BY <1>5, <4>1, Associative
      <4>3. (r \o z) \o d = r \o (z \o d)
        BY <4>1, Associative
      <4>4. z \o d \in Seq(Byte)
        BY <4>1
      <4> QED
        BY <4>2, <4>3, <4>4 DEF d, r
    <3>4. buffer' \o inflight' = Request(app') \o (z \o Head(to_send))
      BY <1>3, <2>1, <3>2, <3>3
    <3>5. app'.eager
      BY <1>3, <3>1
    <3>6. Asks'
      BY <1>3, <1>4, <2>1, <2>2, <3>3, <3>4, <3>5 DEF Asks
    <3> QED
      BY <1>2, <2>1, <3>6 DEF HandshakeInv, Conversation
  <2>3. CASE HasTunnel
    <3>1. HasTunnel'
      BY <1>3, <2>1, <2>3 DEF HasTunnel
    <3> QED
      BY <1>2, <2>1, <3>1 DEF HandshakeInv, Conversation
  <2> QED
    BY <1>1, <2>1, <2>2, <2>3 DEF Conversation, IsNew, Greeted, HasOffer, LogsIn, HasPassed
<1> QED
  BY <1>6, <1>7, <1>8, <1>9 DEF AppSends

(* What a handler sees, and what is left of the bytes under way.           *)
LEMMA ReceiveEffect ==
    ASSUME Typed, DataReceived
    PROVE  \E data, buf \in Seq(Byte) :
              /\ inflight = data \o inflight' /\ buf \o inflight' = buffer \o inflight
              /\ inflight' \in Seq(Byte) /\ inflight # <<>>
              /\ \/ state = 0 /\ HandleHandshake(buf)
                 \/ state = 1 /\ HandleAuth(buf)
                 \/ state = 2 /\ HandleCommand(buf)
                 \/ state = 3 /\ HandleTunnelData(buf, data)
<1>1. PICK n \in 1..Len(inflight) :
         LET data == SubSeq(inflight, 1, n)
             buf  == buffer \o data
         IN  /\ inflight' = SubSeq(inflight, n + 1, Len(inflight))
             /\ \/ state = 0 /\ HandleHandshake(buf)
                \/ state = 1 /\ HandleAuth(buf)
                \/ state = 2 /\ HandleCommand(buf)
                \/ state = 3 /\ HandleTunnelData(buf, data)
  BY DEF DataReceived
<1> DEFINE data == SubSeq(inflight, 1, n)
           buf  == buffer \o data
<1>2. /\ data \in Seq(Byte) /\ data \o inflight' = inflight /\ buf \in Seq(Byte)
      /\ inflight' \in Seq(Byte) /\ inflight # <<>>
  BY <1>1, ApartFacts DEF DataReceived
<1>3. \/ state = 0 /\ HandleHandshake(buf)
      \/ state = 1 /\ HandleAuth(buf)
      \/ state = 2 /\ HandleCommand(buf)
      \/ state = 3 /\ HandleTunnelData(buf, data)
  BY <1>1, Zenon
<1>4. (buffer \o data) \o inflight' = buffer \o (data \o inflight')
  <2>1. buffer \in Seq(Byte)
    BY DEF Typed
  <2> HIDE DEF data
  <2> QED
    BY <1>2, <2>1, Associative
<1>5. buf \o inflight' = buffer \o inflight
  BY <1>2, <1>4
<1> HIDE DEF data, buf
<1> QED
  BY <1>2, <1>3, <1>5

LEMMA HandshakeReceived ==
    ASSUME Typed, Fits, HandshakeInv, DataReceived
    PROVE  /\ HandshakeInv'
           /\ state # 3 /\ state' = 3 /\ ~app.eager => inflight' = <<>> /\ to_send = app.data
<1>1. PICK data \in Seq(Byte), buf \in Seq(Byte) :
              /\ inflight = data \o inflight' /\ buf \o inflight' = buffer \o inflight
              /\ inflight' \in Seq(Byte) /\ inflight # <<>>
              /\ \/ state = 0 /\ HandleHandshake(buf)
                 \/ state = 1 /\ HandleAuth(buf)
                 \/ state = 2 /\ HandleCommand(buf)
                 \/ state = 3 /\ HandleTunnelData(buf, data)
  BY ReceiveEffect
<1>2. /\ transport = "open" /\ HandshakeWhole /\ Conversation /\ inflight # <<>>
      /\ UNCHANGED <<app, auth_required, stage, to_send, config>>
  BY DEF DataReceived, HandshakeInv, config, peer
<1>3. ~Nothing
  BY <1>1 DEF Nothing
<1>4. /\ Expected(app)' = Expected(app) /\ Passed' = Passed /\ Offer' = Offer
      /\ (Offered(app) => Offered(app)') /\ (Entitled(app) => Entitled(app)')
      /\ Greeting(app') = Greeting(app) /\ Credentials(app') = Credentials(app)
      /\ Request(app') = Request(app)
  BY <1>2 DEF Passed, Offer, Offered, Entitled, Permitted, Expected
<1>5. (stage # "asked" => to_send = app.data)'
  BY <1>2 DEF HandshakeInv
<1>6. ASSUME HandshakeWhole', transport' = "open" => Conversation'
      PROVE  HandshakeInv'
  BY <1>5, <1>6 DEF HandshakeInv
<1> DEFINE e == Expected(app)
<1>7. /\ IsPrefix(<<>>, e) /\ IsPrefix(e, e)
      /\ app.ver # SOCKS_VERSION => e = <<"bad_version">>
      /\ app.ver = SOCKS_VERSION /\ ~Offered(app) => e = <<"no_acceptable">>
      /\ Offered(app) => IsPrefix(<<Offer>>, e)
      /\ Offered(app) /\ auth_required /\ ~Permitted(app) => e = <<Offer, "auth_failed">>
      /\ Entitled(app) => e = Append(Passed, Answer) /\ IsPrefix(Passed, e)
  BY ExpectedFacts
<1>8. ASSUME state' # 3, IsPrefix(replies', e)  PROVE HandshakeWhole'
  BY <1>4, <1>8 DEF HandshakeWhole
<1> HIDE DEF e
<1>9. \A x : Append(<<>>, x) = <<x>>
  OBVIOUS
<1>10. CASE state = 0 /\ HandleHandshake(buf)
  <2>1. Greeted /\ buf \o inflight' = Greeting(app) /\ replies = <<>>
    <3>1. ~IsNew /\ ~HasOffer /\ ~HasPassed
      BY <1>3 DEF IsNew, HasOffer, HasPassed
    <3>2. ~LogsIn /\ ~Asks /\ ~HasTunnel
      BY <1>10 DEF LogsIn, Asks, HasTunnel
    <3>3. Greeted
      BY <1>2, <3>1, <3>2 DEF Conversation
    <3> QED
      BY <1>1, <3>3 DEF Greeted
  <2>2. /\ Len(buf) >= 3 => buf[1] = app.ver
        /\ GreetingWhole(buf) =>
             inflight' = <<>> /\ ToSet(SubSeq(buf, 3, 2 + buf[2])) = ToSet(app.methods)
    BY <1>1, <2>1, GreetingRead
  <2>3. CASE app.ver # SOCKS_VERSION /\ Refuse(buf, "bad_version")
    <3>1. replies' = e /\ state' = 0 /\ transport' = "closing"
      BY <1>7, <1>9, <1>10, <2>1, <2>3 DEF Refuse
    <3> QED
      BY <1>6, <1>7, <1>8, <3>1
  <2>4. CASE NeedMore(buf)
    <3>1. buffer' = buf /\ UNCHANGED <<state, replies>>
      BY <2>4 DEF NeedMore
    <3>2. Greeted'
      BY <1>2, <1>4, <2>1, <3>1 DEF Greeted
    <3>3. HandshakeWhole'
      BY <1>7, <1>8, <1>10, <2>1, <3>1
    <3> QED
      BY <1>6, <1>10, <3>1, <3>2, <3>3 DEF Conversation
  <2>5. ASSUME ~(Len(buf) >= 3 /\ buf[1] # SOCKS_VERSION), GreetingWhole(buf)
        PROVE  app.ver = SOCKS_VERSION /\ inflight' = <<>>
               /\ ToSet(SubSeq(buf, 3, 2 + buf[2])) = ToSet(app.methods)
    BY <2>2, <2>5 DEF GreetingWhole
  <2>6. CASE /\ inflight' = <<>> /\ Offered(app)
             /\ Accept(Offer, IF auth_required THEN 1 ELSE 2)
    <3>1. buffer' = <<>> /\ replies' = <<Offer>> /\ state' = (IF auth_required THEN 1 ELSE 2)
            /\ UNCHANGED transport
      BY <1>9, <2>1, <2>6 DEF Accept
    <3>2. HasOffer'
      BY <1>2, <1>4, <2>1, <2>6, <3>1 DEF HasOffer, Nothing, Greeted
    <3>3. HandshakeWhole'
      <4>1. state' # 3
        BY <3>1
      <4> QED
        BY <1>7, <1>8, <2>6, <3>1, <4>1
    <3> QED
      BY <1>6, <3>1, <3>2, <3>3 DEF Conversation
  <2>7. CASE app.ver = SOCKS_VERSION /\ ~Offered(app) /\ Refuse(buf, "no_acceptable")
    <3>1. replies' = e /\ state' = 0 /\ transport' = "closing"
      BY <1>7, <1>9, <1>10, <2>1, <2>7 DEF Refuse
    <3> QED
      BY <1>6, <1>7, <1>8, <3>1
  <2>8. \/ app.ver # SOCKS_VERSION /\ Refuse(buf, "bad_version")
        \/ NeedMore(buf)
        \/ /\ inflight' = <<>> /\ Offered(app)
           /\ Accept(Offer, IF auth_required THEN 1 ELSE 2)
        \/ app.ver = SOCKS_VERSION /\ ~Offered(app) /\ Refuse(buf, "no_acceptable")
    <3> DEFINE ms == ToSet(SubSeq(buf, 3, 2 + buf[2]))
               wrong == Len(buf) >= 3 /\ buf[1] # SOCKS_VERSION
    <3>1. \/ wrong /\ Refuse(buf, "bad_version")
          \/ NeedMore(buf)
          \/ ~wrong /\ GreetingWhole(buf) /\ auth_required /\ USER_PASS \in ms /\ Accept("user_pass", 1)
          \/ ~wrong /\ GreetingWhole(buf) /\ ~auth_required /\ NO_AUTH \in ms /\ Accept("no_auth", 2)
          \/ /\ ~wrong /\ GreetingWhole(buf)
             /\ (IF auth_required THEN USER_PASS ELSE NO_AUTH) \notin ms
             /\ Refuse(buf, "no_acceptable")
      BY <1>10, Zenon DEF HandleHandshake
    <3>2. wrong => app.ver # SOCKS_VERSION
      BY <2>2
    <3>3. ~wrong /\ GreetingWhole(buf) => /\ app.ver = SOCKS_VERSION /\ inflight' = <<>>
                                          /\ ms = ToSet(app.methods)
      BY <2>5
    <3> HIDE DEF ms, wrong
    <3>4. CASE wrong /\ Refuse(buf, "bad_version")
      BY <3>2, <3>4
    <3>5. CASE ~wrong /\ GreetingWhole(buf) /\ auth_required /\ USER_PASS \in ms
               /\ Accept("user_pass", 1)
      BY <3>3, <3>5 DEF Offered, Offer
    <3>6. CASE ~wrong /\ GreetingWhole(buf) /\ ~auth_required /\ NO_AUTH \in ms
               /\ Accept("no_auth", 2)
      BY <3>3, <3>6 DEF Offered, Offer
    <3>7. CASE /\ ~wrong /\ GreetingWhole(buf)
               /\ (IF auth_required THEN USER_PASS ELSE NO_AUTH) \notin ms
               /\ Refuse(buf, "no_acceptable")
      BY <3>3, <3>7 DEF Offered
    <3> QED
      BY <3>1, <3>4, <3>5, <3>6, <3>7
  <2>9. state' # 3
    BY <1>10, <2>8 DEF Refuse, NeedMore, Accept
  <2> QED
    BY <2>3, <2>4, <2>6, <2>7, <2>8, <2>9
<1>11. CASE state = 1 /\ HandleAuth(buf)
  <2>1. LogsIn /\ buf \o inflight' = Credentials(app) /\ replies = <<Offer>> /\ auth_required
          /\ Offered(app) /\ stage = "authenticated"
    BY <1>1, <1>2, <1>3, <1>11, SMTT(30)
    DEF Conversation, IsNew, Greeted, HasOffer, LogsIn, HasPassed, Asks, HasTunnel
  <2> DEFINE uname  == SubSeq(buf, 3, 2 + buf[2])
             passwd == SubSeq(buf, 4 + buf[2], 3 + buf[2] + buf[3 + buf[2]])
             wrong  == Len(buf) >= 5 /\ buf[1] # 1
  <2>2. ~wrong /\ (CredentialsWhole(buf) =>
                     inflight' = <<>> /\ uname = app.user /\ passwd = app.pass)
    BY <1>1, <2>1, CredentialsRead
  <2>3. \/ wrong
        \/ NeedMore(buf)
        \/ CredentialsWhole(buf) /\ <<uname, passwd>> \in Users /\ Accept("auth_ok", 2)
        \/ CredentialsWhole(buf) /\ <<uname, passwd>> \notin Users /\ Refuse(buf, "auth_failed")
    BY <1>11, Zenon DEF HandleAuth
  <2> HIDE DEF uname, passwd, wrong
  <2>4. \A x \in Reply : Append(<<"user_pass">>, x) = <<"user_pass", x>>
    <3>1. "user_pass" \in Reply
      BY DEF Reply
    <3> QED
      BY <3>1, AppendOne
  <2>5. "auth_ok" \in Reply /\ "auth_failed" \in Reply /\ Offer = "user_pass"
          /\ Passed = <<"user_pass", "auth_ok">>
    BY <2>1 DEF Reply, Offer, Passed
  <2>6. CASE NeedMore(buf)
    <3>1. buffer' = buf /\ UNCHANGED <<state, replies>>
      BY <2>6 DEF NeedMore
    <3>2. LogsIn'
      BY <1>2, <1>4, <1>11, <2>1, <3>1 DEF LogsIn
    <3>3. HandshakeWhole'
      BY <1>7, <1>8, <1>11, <2>1, <3>1
    <3> QED
      BY <1>6, <1>11, <3>1, <3>2, <3>3 DEF Conversation
  <2>7. CASE CredentialsWhole(buf) /\ <<uname, passwd>> \in Users /\ Accept("auth_ok", 2)
    <3>1. Entitled(app) /\ inflight' = <<>>
      BY <2>1, <2>2, <2>7 DEF Entitled, Permitted
    <3>2. buffer' = <<>> /\ replies' = Passed /\ state' = 2
      BY <2>1, <2>4, <2>5, <2>7 DEF Accept
    <3>3. HasPassed'
      BY <1>2, <1>4, <2>1, <3>1, <3>2 DEF HasPassed, Nothing
    <3>4. HandshakeWhole'
      BY <1>7, <1>8, <3>1, <3>2
    <3> QED
      BY <1>6, <3>2, <3>3, <3>4 DEF Conversation
  <2>8. CASE CredentialsWhole(buf) /\ <<uname, passwd>> \notin Users /\ Refuse(buf, "auth_failed")
    <3>1. ~Permitted(app)
      BY <2>2, <2>8 DEF Permitted
    <3>2. replies' = e /\ state' = 1 /\ transport' = "closing"
      BY <1>7, <1>11, <2>1, <2>4, <2>5, <2>8, <3>1 DEF Refuse
    <3> QED
      BY <1>6, <1>7, <1>8, <3>2
  <2> QED
    BY <2>2, <2>3, <2>6, <2>7, <2>8
<1>12. CASE state = 2 /\ HandleCommand(buf)
  <2>1. Asks /\ replies = Passed /\ Entitled(app) /\ stage = "asked"
    <3>1. ~IsNew /\ ~HasOffer /\ ~HasPassed
      BY <1>3 DEF IsNew, HasOffer, HasPassed
    <3>2. ~Greeted /\ ~LogsIn /\ ~HasTunnel
      BY <1>12 DEF Greeted, LogsIn, HasTunnel
    <3>3. Asks
      BY <1>2, <3>1, <3>2 DEF Conversation
    <3> QED
      BY <3>3 DEF Asks
  <2>2. PICK z \in Seq(Byte) : /\ buffer \o inflight = Request(app) \o z
                               /\ ~app.eager => z = <<>> /\ to_send = app.data
    BY <2>1 DEF Asks
  <2>3. /\ Len(buf) >= 4 => buf[1] = app.ver /\ buf[2] = app.cmd
        /\ RequestWhole(buf) =>
             /\ z = <<>> => inflight' = <<>>
             /\ SubSeq(buf, AddrFrom(buf), HeaderLen(buf)) = app.addr
             /\ 256 * buf[HeaderLen(buf) + 1] + buf[HeaderLen(buf) + 2] = app.port
    <3>1. buf \o inflight' = Request(app) \o z
      BY <1>1, <2>2
    <3> QED
      BY <1>1, <3>1, RequestRead
  <2>4. app.ver = SOCKS_VERSION /\ e = Append(Passed, Answer)
    BY <1>7, <2>1 DEF Entitled, Offered
  <2> DEFINE wrong == Len(buf) >= 4 /\ (buf[1] # SOCKS_VERSION \/ buf[2] # CONNECT)
  <2>5. \/ wrong /\ Refuse(buf, "unsupported")
        \/ NeedMore(buf)
        \/ /\ ~wrong /\ RequestWhole(buf)
           /\ target' = [host |-> SubSeq(buf, AddrFrom(buf), HeaderLen(buf)),
                         port |-> 256 * buf[HeaderLen(buf) + 1] + buf[HeaderLen(buf) + 2]]
           /\ replies' = Append(replies, "success") /\ state' = 3
    BY <1>12, Zenon DEF HandleCommand
  <2>6. wrong => app.cmd # CONNECT
    BY <2>3, <2>4
  <2>7. ~wrong /\ RequestWhole(buf) => app.cmd = CONNECT
    BY <2>3 DEF RequestWhole
  <2> HIDE DEF wrong
  <2>8. CASE wrong /\ Refuse(buf, "unsupported")
    <3>1. replies' = e /\ state' = 2 /\ transport' = "closing"
      BY <1>12, <2>1, <2>4, <2>6, <2>8 DEF Refuse, Answer
    <3> QED
      BY <1>6, <1>7, <1>8, <3>1
  <2>9. CASE NeedMore(buf)
    <3>1. buffer' = buf /\ UNCHANGED <<state, replies>>
      BY <2>9 DEF NeedMore
    <3>2. buffer' \o inflight' = Request(app') \o z /\ (~app'.eager => z = <<>> /\ to_send' = app'.data)
      BY <1>1, <1>2, <2>2, <3>1
    <3>3. Asks'
      BY <1>2, <1>4, <1>12, <2>1, <3>1, <3>2 DEF Asks
    <3>4. HandshakeWhole'
      BY <1>7, <1>8, <1>12, <2>1, <3>1
    <3> QED
      BY <1>6, <1>12, <3>1, <3>3, <3>4 DEF Conversation
  <2>10. CASE /\ ~wrong /\ RequestWhole(buf)
              /\ target' = [host |-> SubSeq(buf, AddrFrom(buf), HeaderLen(buf)),
                            port |-> 256 * buf[HeaderLen(buf) + 1] + buf[HeaderLen(buf) + 2]]
              /\ replies' = Append(replies, "success") /\ state' = 3
    <3>1. replies' = e /\ target' = [host |-> app.addr, port |-> app.port]
      BY <2>1, <2>3, <2>4, <2>7, <2>10 DEF Answer
    <3>2. HandshakeWhole'
      BY <1>2, <1>4, <1>7, <3>1 DEF HandshakeWhole, e
    <3>3. HasTunnel'
      BY <1>2, <2>1, <2>10 DEF HasTunnel
    <3>4. ~app.eager => inflight' = <<>> /\ to_send = app.data
      BY <2>2, <2>3, <2>10
    <3> QED
      BY <1>6, <3>2, <3>3, <3>4 DEF Conversation
  <2> QED
    BY <2>5, <2>8, <2>9, <2>10
<1>13. CASE state = 3 /\ HandleTunnelData(buf, data)
  <2>1. UNCHANGED <<state, replies, target>>
    BY <1>13 DEF HandleTunnelData
  <2>2. HandshakeWhole'
    BY <1>2, <2>1, WholeSame
  <2>3. stage = "asked"
    BY <1>2, <1>13 DEF Conversation, IsNew, Greeted, HasOffer, LogsIn, HasPassed, Asks, HasTunnel
  <2>4. HasTunnel'
    BY <1>2, <1>13, <2>1, <2>3 DEF HasTunnel
  <2> QED
    BY <1>6, <1>13, <2>2, <2>4 DEF Conversation
<1> QED
  BY <1>1, <1>10, <1>11, <1>12, <1>13

LEMMA HandshakeKept ==
    ASSUME Typed, Fits, HandshakeInv, [Next]_vars
    PROVE  HandshakeInv'
<1>1. CASE UNCHANGED vars
  BY <1>1 DEF vars, config, peer, socks, HandshakeInv, HandshakeWhole, Expected, Permitted,
              Conversation, IsNew, Greeted, HasOffer, LogsIn, HasPassed, Asks, HasTunnel,
              Nothing, Offer, Passed, Offered, Entitled
<1>2. CASE ConnectionLost \/ RunTask \/ EnqueueRx
  <2>1. UNCHANGED <<config, peer, socks>>
    BY <1>2 DEF ConnectionLost, RunTask, EnqueueRx, Open, Write, Drain, Read, Close
  <2>2. transport' = "open" => UNCHANGED <<transport, inflight>>
    BY <1>2 DEF ConnectionLost, RunTask, EnqueueRx, Open, Write, Drain, Read, Close
  <2>3. HandshakeWhole'
    BY <2>1, WholeSame DEF HandshakeInv, socks
  <2>4. (stage # "asked" => to_send = app.data)'
    BY <2>1 DEF HandshakeInv, peer, config
  <2>5. transport' = "open" => Conversation'
    <3> SUFFICES ASSUME transport' = "open" PROVE Conversation'
      OBVIOUS
    <3>1. Conversation
      BY <2>2 DEF HandshakeInv
    <3>2. UNCHANGED <<app, auth_required, stage, to_send, state, buffer, replies, inflight>>
      BY <2>1, <2>2 DEF config, peer, socks
    <3> QED
      BY <3>1, <3>2
      DEF Conversation, IsNew, Greeted, HasOffer, LogsIn, HasPassed, Asks, HasTunnel,
          Nothing, Offer, Passed, Offered, Entitled, Permitted
  <2> QED
    BY <2>3, <2>4, <2>5 DEF HandshakeInv
<1> QED
  BY <1>1, <1>2, HandshakeSays, HandshakeReceived DEF Next
-----------------------------------------------------------------------------
(* What was sent and is still held, against what was received: the data    *)
(* in tx_q, in tx_queue and in the writes that are ready is all of it, and *)
(* once the connection is closed the beginning of it.                      *)
Starts(a, b) == \E u \in Seq(Byte) : b = a \o u

Sent ==
    /\ (session = "open" \/ Opening) /\ ~closed =>
         Payloads(tx_q) \o (Concat(tx_queue) \o Held(ready)) = received
    /\ closed => Starts(Payloads(tx_q) \o Concat(tx_queue), received)

(* The frames of tx_q: a SYN, data without a gap, and a FIN at the end     *)
(* when close() is through.                                                *)
TxFrames ==
    /\ session = "open" => tx_q # <<>> /\ tx_q[1].flags = "SYN" /\ tx_q[1].payload = <<>>
    /\ \A i \in 2..Len(tx_q) : \/ tx_q[i].flags = "DATA" /\ tx_q[i].seq = i - 2
                               \/ tx_q[i].flags = "FIN" /\ i = Len(tx_q) /\ reader = "ended"

(* An application that waits for the answer to its request loses nothing   *)
(* on the way, as long as the connection is open.                          *)
FromApp ==
    ~app.eager =>
      /\ Starts(received, Concat(app.data))
      /\ state = 3 /\ transport = "open" /\ ~closed =>
           received \o (inflight \o Concat(to_send)) = Concat(app.data)

LEMMA PrefixOf ==
    ASSUME NEW a \in Seq(Byte), NEW b, Starts(a, b)
    PROVE  IsPrefix(a, b)
<1>1. PICK u \in Seq(Byte) : b = a \o u
  BY DEF Starts
<1>2. /\ b \in Seq(Byte) /\ Len(b) = Len(a) + Len(u) /\ Len(a) \in Nat /\ Len(u) \in Nat
  BY <1>1, ConcatProperties
<1>3. \A i \in 1..Len(a) : b[i] = a[i]
  <2> DEFINE j == a \o u
  <2>1. \A i \in 1..Len(a) : j[i] = a[i]
    BY Joined
  <2> HIDE DEF j
  <2>2. b = j
    BY <1>1 DEF j
  <2> QED
    BY <2>1, <2>2
<1>4. SubSeq(a, 1, Len(a)) = a
  BY SubSeqFull
<1>5. SubSeq(b, 1, 1 + Len(a) - 1) = a
  <2>1. \A i \in 1..Len(a) : b[1 - 1 + i] = a[i]
    BY <1>3
  <2>2. 1 + Len(a) - 1 <= Len(b) /\ 1 \in Nat \ {0}
    BY <1>2
  <2> QED
    BY <1>2, <2>1, <2>2, Cut
<1>6. 1 + Len(a) - 1 = Len(a) /\ Len(a) <= Len(b)
  BY <1>2
<1> QED
  BY <1>4, <1>5, <1>6 DEF IsPrefix

LEMMA StartsTyped ==
    ASSUME Typed
    PROVE  /\ Payloads(tx_q) \in Seq(Byte) /\ Concat(tx_queue) \in Seq(Byte)
           /\ Held(ready) \in Seq(Byte) /\ received \in Seq(Byte)
           /\ ready \in Seq(Task) /\ tx_q \in Seq(Frames) /\ tx_queue \in Seq(Seq(Byte))
BY PayloadsTyped, ConcatTyped, HeldTyped DEF Typed

(* Only a write holds data.                                                *)
LEMMA HeldSame ==
    ASSUME NEW q \in Seq(Task), NEW n \in {"open", "read", "drain", "close"}
    PROVE  Held(Append(q, <<n>>)) = Held(q) /\ Append(q, <<n>>) \in Seq(Task)
<1> DEFINE t == <<n>>
<1>1. t \in Task /\ Chunk(t) = <<>> /\ Held(q) \in Seq(Byte)
  BY TaskFacts, HeldTyped
<1> HIDE DEF t
<1>2. Held(Append(q, t)) = Held(q) \o <<>>
  BY <1>1, HeldAdded
<1> QED
  BY <1>1, <1>2 DEF t

LEMMA TurnHeld ==
    ASSUME Typed, NEW task, Turn(task)
    PROVE  /\ Held(ready) = Chunk(Head(ready)) \o Held(Tail(ready))
           /\ Held(Tail(ready)) \in Seq(Byte) /\ Tail(ready) \in Seq(Task)
           /\ task # "write" => Held(ready) = Held(Tail(ready))
<1>1. /\ ready # <<>> /\ Tail(ready) \in Seq(Task) /\ ready \in Seq(Task)
      /\ task # "write" => Chunk(Head(ready)) = <<>>
  BY TurnFacts DEF Typed
<1>2. Held(ready) = Chunk(Head(ready)) \o Held(Tail(ready))
  BY <1>1, HeldTaken
<1>3. Held(Tail(ready)) \in Seq(Byte)
  BY <1>1, HeldTyped
<1>4. \A h \in Seq(Byte) : <<>> \o h = h
  OBVIOUS
<1> QED
  BY <1>1, <1>2, <1>3, <1>4

LEMMA SentSame ==
    ASSUME Sent, UNCHANGED <<session, closed, tx_q, tx_queue, ready, received>>
    PROVE  Sent'
BY DEF Sent, Opening, Starts

LEMMA SentReceived ==
    ASSUME Typed, Fits, Sent, DataReceived
    PROVE  Sent'
<1>1. UNCHANGED <<session, closed, tx_q, tx_queue>>
  BY DEF DataReceived, vconn, queues
<1>2. CASE UNCHANGED <<ready, received>>
  BY <1>1, <1>2, SentSame
<1>3. CASE state = 2 /\ ready = <<>> /\ ready' = <<<<"open">>>> /\ state' = 3 /\ received' = received
  <2>1. /\ received = <<>> /\ session = None /\ tx_q = <<>> /\ tx_queue = <<>> /\ ~closed
    BY <1>3 DEF Fits, None
  <2>2. Held(ready') = <<>>
    <3>1. <<>> \in Seq(Task) /\ Append(<<>>, <<"open">>) = <<<<"open">>>>
      OBVIOUS
    <3>2. Held(Append(<<>>, <<"open">>)) = Held(<<>>)
      BY <3>1, HeldSame
    <3> QED
      BY <1>3, <3>1, <3>2, HeldNone
  <2>3. <<>> \o (<<>> \o <<>>) = <<>>
    OBVIOUS
  <2> QED
    BY <1>1, <1>3, <2>1, <2>2, <2>3, ConcatNone, PayloadsNone DEF Sent
<1>4. ASSUME ~closed, NEW d \in Seq(Byte), ready' = Append(ready, <<"write", d>>),
             received' = received \o d
      PROVE  Sent'
  <2> DEFINE t == <<"write", d>>
             p == Payloads(tx_q)
             c == Concat(tx_queue)
             h == Held(ready)
  <2>1. t \in Task /\ t[1] # "open" /\ Chunk(t) = d
    BY TaskFacts
  <2>2. p \in Seq(Byte) /\ c \in Seq(Byte) /\ h \in Seq(Byte) /\ ready \in Seq(Task)
    BY StartsTyped
  <2> HIDE DEF t
  <2>3. ready' = Append(ready, t)
    BY <1>4 DEF t
  <2>4. Held(ready') = h \o d
    BY <2>1, <2>2, <2>3, HeldAdded
  <2>5. Opening' => Opening
    BY <2>1, <2>2, <2>3, OpeningAdded
  <2> HIDE DEF p, c, h
  <2>6. p \o (c \o (h \o d)) = (p \o (c \o h)) \o d
    <3>1. c \o (h \o d) = (c \o h) \o d
      BY <2>2, Associative
    <3>2. p \o ((c \o h) \o d) = (p \o (c \o h)) \o d
      <4>1. c \o h \in Seq(Byte)
        BY <2>2
      <4> QED
        BY <2>2, <4>1, Associative, ZenonT(40)
    <3> QED
      BY <3>1, <3>2
  <2>7. (session = "open" \/ Opening) => p \o (c \o h) = received
    BY <1>4 DEF Sent, p, c, h
  <2>8. (session' = "open" \/ Opening') => p \o (c \o Held(ready')) = received'
    BY <1>1, <1>4, <2>4, <2>5, <2>6, <2>7
  <2> QED
    BY <1>1, <1>4, <2>8 DEF Sent, p, c
<1> QED
  BY <1>2, <1>3, <1>4, ReceiveReady

LEMMA SentRuns ==
    ASSUME Typed, Tasks, Fits, Sent, RunTask \/ EnqueueRx
    PROVE  Sent'
<1> DEFINE p == Payloads(tx_q)
           c == Concat(tx_queue)
           h == Held(ready)
           rest == Tail(ready)
<1>1. /\ p \in Seq(Byte) /\ c \in Seq(Byte) /\ h \in Seq(Byte) /\ ready \in Seq(Task)
      /\ tx_q \in Seq(Frames) /\ tx_queue \in Seq(Seq(Byte))
  BY StartsTyped
<1>2. /\ (session = "open" \/ Opening) /\ ~closed => p \o (c \o h) = received
      /\ closed => Starts(p \o c, received)
  BY DEF Sent
<1>3. \A s \in Seq(Byte) : <<>> \o s = s /\ s \o <<>> = s
  OBVIOUS
<1>4. ASSUME NEW task, Turn(task)
      PROVE  /\ h = Chunk(Head(ready)) \o Held(rest)
             /\ Held(rest) \in Seq(Byte) /\ rest \in Seq(Task)
             /\ task # "write" => h = Held(rest)
             /\ Never(rest, "open")
  <2>1. Never(rest, "open")
    <3>1. ready # <<>>
      BY <1>4, TurnFacts
    <3> QED
      BY <1>1, <3>1, OrderTaken DEF Tasks
  <2> QED
    BY <1>4, <2>1, TurnHeld
<1> HIDE DEF p, c, h, rest
<1>5. CASE Open
  <2>1. Opening /\ session = None /\ ~closed /\ tx_q = <<>> /\ tx_queue = <<>>
    BY <1>5 DEF Open, Turn, Fits, Opening, None
  <2>2. h = Held(rest) /\ rest \in Seq(Task) /\ Never(rest, "open")
    BY <1>4, <1>5 DEF Open
  <2>3. received = Held(rest)
    <3>1. p = <<>> /\ c = <<>>
      BY <2>1, ConcatNone, PayloadsNone DEF p, c
    <3> QED
      BY <1>1, <1>2, <1>3, <2>1, <2>2, <3>1
  <2>4. UNCHANGED <<closed, tx_queue, received>>
    BY <1>5 DEF Open
  <2>5. CASE clock = "float"
    <3>1. ready' = rest /\ session' = None
      BY <1>5, <2>1, <2>5 DEF Open, rest
    <3>2. ~Opening'
      BY <2>2, <3>1, NotOpeningNext
    <3> QED
      BY <2>1, <2>4, <3>1, <3>2 DEF Sent, None
  <2>6. CASE clock # "float"
    <3> DEFINE a == Append(rest, <<"read">>)
               b == Append(a, <<"drain">>)
    <3>1. Held(a) = Held(rest) /\ a \in Seq(Task)
      BY <2>2, HeldSame
    <3> HIDE DEF a
    <3>2. Held(b) = Held(rest)
      BY <3>1, HeldSame
    <3>3. ready' = b
      <4>1. rest \o <<<<"read">>, <<"drain">>>> = Append(Append(rest, <<"read">>), <<"drain">>)
        <5>1. <<"read">> \in Task /\ <<"drain">> \in Task
          BY TaskFacts
        <5> QED
          BY <2>2, <5>1
      <4> QED
        BY <1>5, <2>6, <4>1 DEF Open, a, rest
    <3>4. tx_q' = <<Frame("SYN", 0, <<>>)>>
      BY <1>5, <2>6 DEF Open
    <3>5. Payloads(tx_q') = <<>>
      <4> DEFINE f == Frame("SYN", 0, <<>>)
      <4>1. f \in Frames /\ f.payload = <<>>
        BY DEF Frame, Frames
      <4> HIDE DEF f
      <4>2. <<>> \in Seq(Frames) /\ Append(<<>>, f) = <<f>>
        OBVIOUS
      <4>3. Payloads(Append(<<>>, f)) = Payloads(<<>>) \o f.payload
        BY <4>1, <4>2, PayloadsAppended
      <4>4. <<>> \o <<>> = <<>>
        OBVIOUS
      <4> QED
        BY <3>4, <4>1, <4>2, <4>3, <4>4, PayloadsNone DEF f
    <3>6. Concat(tx_queue') = <<>>
      BY <2>1, <2>4, ConcatNone
    <3>7. Held(rest) \in Seq(Byte)
      BY <2>2, HeldTyped
    <3> QED
      BY <1>3, <2>1, <2>3, <2>4, <3>2, <3>3, <3>5, <3>6, <3>7 DEF Sent
  <2> QED
    BY <2>5, <2>6
<1>6. CASE Write
  <2> DEFINE d == Head(ready)[2]
  <2>1. /\ d \in Seq(Byte) /\ h = d \o Held(rest) /\ rest \in Seq(Task) /\ Held(rest) \in Seq(Byte)
        /\ Never(rest, "open")
    <3>1. Turn("write")
      BY <1>6 DEF Write
    <3>2. d = Chunk(Head(ready)) /\ d \in Seq(Byte)
      BY <3>1, TurnFacts
    <3> QED
      BY <1>4, <3>1, <3>2
  <2>2. UNCHANGED <<closed, session, tx_q, received>>
    BY <1>6 DEF Write, queues
  <2> HIDE DEF d
  <2>3. CASE (closed \/ session = None) /\ ready' = rest /\ UNCHANGED tx_queue
    <3>1. ~Opening'
      BY <2>1, <2>3, NotOpeningNext
    <3> QED
      BY <1>2, <2>2, <2>3, <3>1 DEF Sent, p, c, None
  <2>4. CASE /\ ~closed /\ session # None /\ tx_queue' = Append(tx_queue, d)
             /\ ready' = rest \/ ready' = Append(rest, <<"drain">>)
    <3>1. Held(ready') = Held(rest)
      BY <2>1, <2>4, HeldSame
    <3>2. Concat(tx_queue') = c \o d
      BY <1>1, <2>1, <2>4, ConcatAppended DEF c
    <3>3. (c \o d) \o Held(rest) = c \o (d \o Held(rest))
      BY <1>1, <2>1, Associative, ZenonT(40)
    <3>4. session = "open"
      BY <2>4 DEF Typed
    <3>5. p \o (c \o h) = received
      BY <1>2, <2>4, <3>4
    <3>6. p \o (Concat(tx_queue') \o Held(ready')) = received
      BY <2>1, <3>1, <3>2, <3>3, <3>5
    <3> QED
      BY <2>2, <2>4, <3>6 DEF Sent, p
  <2> QED
    BY <1>6, <2>3, <2>4 DEF Write, d, rest
<1>7. CASE Drain
  <2>1. PICK taken \in Seq(Seq(Byte)), left \in Seq(Seq(Byte)) :
           /\ tx_queue = taken \o left /\ tx_queue' = left
           /\ tx_q' = tx_q \o DataFrames(taken, DataCount) /\ DataCount \in Nat
    BY <1>7, DrainEffect
  <2> DEFINE a == Concat(taken)
             b == Concat(left)
             g == DataFrames(taken, DataCount)
  <2>2. a \in Seq(Byte) /\ b \in Seq(Byte) /\ c = a \o b
    BY <2>1, ConcatTyped, ConcatJoined DEF c
  <2>3. Payloads(tx_q') = p \o a
    <3>1. g \in Seq(Frames) /\ Payloads(g) = a
      BY <2>1, DataFramesTyped
    <3> HIDE DEF g
    <3>2. Payloads(tx_q \o g) = p \o Payloads(g)
      BY <1>1, <3>1, PayloadsJoined DEF p
    <3> QED
      BY <2>1, <3>1, <3>2 DEF g
  <2>4. Concat(tx_queue') = b
    BY <2>1
  <2>5. h = Held(ready')
    BY <1>4, <1>7 DEF Drain, rest
  <2>6. UNCHANGED <<closed, session, received>> /\ session = "open"
    <3>1. session # None
      <4>1. ~Never(ready, "drain")
        BY <1>1, <1>7, TurnReady DEF Drain
      <4> QED
        BY <4>1 DEF Tasks, Fits, None
    <3> QED
      BY <1>7, <3>1 DEF Drain, Typed
  <2> HIDE DEF a, b
  <2>7. (p \o a) \o b = p \o c
    BY <1>1, <2>2, Associative, ZenonT(40)
  <2>8. CASE ~closed
    <3>1. p \o (c \o h) = received
      BY <1>2, <2>6, <2>8
    <3>2. (p \o a) \o (b \o h) = p \o (c \o h)
      <4>0. p \in Seq(Byte) /\ a \in Seq(Byte) /\ b \in Seq(Byte) /\ h \in Seq(Byte)
        BY <1>1, <2>2
      <4>1. (p \o a) \o (b \o h) = p \o (a \o (b \o h))
        <5> DEFINE j == b \o h
        <5>1. j \in Seq(Byte)
          BY <4>0
        <5> HIDE DEF j
        <5>2. (p \o a) \o j = p \o (a \o j)
          BY <4>0, <5>1, Associative, ZenonT(40)
        <5> QED
          BY <5>2 DEF j
      <4>2. a \o (b \o h) = c \o h
        <5>1. (a \o b) \o h = a \o (b \o h)
          BY <4>0, Associative
        <5> QED
          BY <2>2, <5>1
      <4> QED
        BY <4>1, <4>2
    <3> QED
      BY <2>3, <2>4, <2>5, <2>6, <2>8, <3>1, <3>2 DEF Sent
  <2>9. CASE closed
    BY <1>2, <2>3, <2>4, <2>6, <2>7, <2>9 DEF Sent
  <2> QED
    BY <2>8, <2>9
<1>8. CASE Read
  <2>1. UNCHANGED <<session, tx_queue, tx_q, received>>
    BY <1>8 DEF Read
  <2>2. session = "open" /\ ~closed
    <3>1. ~Never(ready, "read")
      BY <1>1, <1>8, TurnReady DEF Read
    <3>2. reader \in {"new", "woken"}
      BY <3>1 DEF Tasks
    <3> QED
      BY <3>2 DEF Fits, None, Typed
  <2>3. p \o (c \o h) = received
    BY <1>2, <2>2
  <2>4. Held(ready') = h /\ closed' \in BOOLEAN
    <3>1. h = Held(rest) /\ rest \in Seq(Task)
      BY <1>4, <1>8 DEF Read
    <3>2. ready' = rest \/ ready' = Append(rest, <<"close">>)
      BY <1>8 DEF Read, rest
    <3> QED
      BY <1>8, <3>1, <3>2, HeldSame DEF Read
  <2>5. CASE ~closed'
    BY <2>1, <2>3, <2>4, <2>5 DEF Sent, p, c
  <2>6. CASE closed'
    <3>1. (p \o c) \o h = p \o (c \o h)
      BY <1>1, Associative
    <3>2. Starts(p \o c, received)
      BY <1>1, <2>3, <3>1 DEF Starts
    <3> QED
      BY <2>1, <2>6, <3>2 DEF Sent, p, c
  <2> QED
    BY <2>5, <2>6
<1>9. CASE Close
  <2>1. UNCHANGED <<closed, tx_queue, received>> /\ tx_q' = Append(tx_q, Frame("FIN", 0, <<>>))
    BY <1>9 DEF Close
  <2>2. closed
    <3>1. ~Never(ready, "close")
      BY <1>1, <1>9, TurnReady DEF Close
    <3>2. reader = "closing"
      BY <3>1 DEF Tasks
    <3> QED
      BY <3>2 DEF Fits
  <2>3. Payloads(tx_q') = p
    <3> DEFINE f == Frame("FIN", 0, <<>>)
    <3>1. f \in Frames /\ f.payload = <<>>
      BY DEF Frame, Frames
    <3> HIDE DEF f
    <3>2. Payloads(Append(tx_q, f)) = p \o <<>>
      BY <1>1, <3>1, PayloadsAppended DEF p
    <3> QED
      BY <1>1, <1>3, <2>1, <3>2 DEF f
  <2> QED
    BY <1>2, <2>1, <2>2, <2>3 DEF Sent, c
<1>10. CASE EnqueueRx
  <2>1. UNCHANGED <<closed, session, tx_queue, tx_q, received>> /\ session = "open"
    BY <1>10 DEF EnqueueRx
  <2>2. ready' = ready \/ ready' = Append(ready, <<"read">>)
    BY <1>10 DEF EnqueueRx
  <2>3. Held(ready') = h
    BY <1>1, <2>2, HeldSame DEF h
  <2> QED
    BY <1>2, <2>1, <2>3 DEF Sent, p, c
<1> QED
  BY <1>5, <1>6, <1>7, <1>8, <1>9, <1>10 DEF RunTask

LEMMA SentKept ==
    ASSUME Typed, Tasks, Fits, Sent, [Next]_vars
    PROVE  Sent'
<1>1. CASE UNCHANGED vars \/ AppSends \/ ConnectionLost
  <2>1. UNCHANGED <<session, closed, tx_q, tx_queue, ready, received>>
    BY <1>1
    DEF vars, AppSends, Greet, Authenticate, Ask, SendData, Says, ConnectionLost, queues, vconn
  <2> QED
    BY <2>1, SentSame
<1> QED
  BY <1>1, SentReceived, SentRuns DEF Next

(* The number that a data frame gets counts the data frames before it.     *)
LEMMA DataCounted ==
    ASSUME Typed, TxFrames, session = "open", reader # "ended"
    PROVE  DataCount = Len(tx_q) - 1 /\ Len(tx_q) \in Nat
<1> DEFINE n == Len(tx_q)
           S == {i \in DOMAIN tx_q : tx_q[i].flags = "DATA"}
<1>1. /\ n \in Nat /\ DOMAIN tx_q = 1..n /\ tx_q # <<>>
      /\ tx_q[1].flags = "SYN" /\ \A i \in 2..n : tx_q[i].flags = "DATA"
  <2>1. tx_q \in Seq(Frames)
    BY DEF Typed
  <2>2. tx_q # <<>> /\ tx_q[1].flags = "SYN" /\ \A i \in 2..n : tx_q[i].flags = "DATA"
    BY DEF TxFrames
  <2> QED
    BY <2>1, <2>2
<1>2. n >= 1
  BY <1>1 DEF Typed
<1> HIDE DEF n
<1>3. \A i \in 1..n : i = 1 \/ i \in 2..n
  BY <1>1
<1>4. \A i \in 2..n : i \in 1..n /\ i # 1
  BY <1>1
<1>5. S = 2..n
  BY <1>1, <1>3, <1>4
<1>6. Cardinality(2..n) = n - 1
  <2>1. Cardinality(2..n) = IF 2 > n THEN 0 ELSE n - 2 + 1
    BY <1>1, FS_Interval
  <2> QED
    BY <1>1, <1>2, <2>1
<1> QED
  BY <1>1, <1>5, <1>6 DEF DataCount, n

LEMMA TxFramesKept ==
    ASSUME Typed, Tasks, Fits, TxFrames, [Next]_vars
    PROVE  TxFrames'
<1>1. /\ session = "open" => tx_q # <<>> /\ tx_q[1].flags = "SYN" /\ tx_q[1].payload = <<>>
      /\ reader # "ended" =>
            \A i \in 2..Len(tx_q) : tx_q[i].flags = "DATA" /\ tx_q[i].seq = i - 2
  BY DEF TxFrames
<1>2. tx_q \in Seq(Frames) /\ Len(tx_q) \in Nat /\ ready \in Seq(Task)
  BY DEF Typed
<1>3. CASE UNCHANGED <<session, tx_q, reader>>
  BY <1>3 DEF TxFrames
<1>4. CASE UNCHANGED <<session, tx_q>> /\ reader # "ended"
  BY <1>1, <1>4 DEF TxFrames
<1>5. CASE Open
  <2>1. CASE clock = "float"
    BY <1>3, <1>5, <2>1 DEF Open
  <2>2. CASE clock # "float"
    <3> DEFINE f == Frame("SYN", 0, <<>>)
    <3>1. tx_q' = <<f>>
      BY <1>5, <2>2 DEF Open
    <3>2. f.flags = "SYN" /\ f.payload = <<>>
      BY DEF Frame
    <3> HIDE DEF f
    <3>3. tx_q' # <<>> /\ tx_q'[1] = f /\ Len(tx_q') = 1
      BY <3>1
    <3>4. 2..1 = {}
      OBVIOUS
    <3> QED
      BY <3>2, <3>3, <3>4 DEF TxFrames
  <2> QED
    BY <2>1, <2>2
<1>6. CASE Drain
  <2>1. session = "open" /\ reader # "ended" /\ UNCHANGED <<session, reader>>
    <3>1. ~Never(ready, "drain")
      BY <1>2, <1>6, TurnReady DEF Drain
    <3>2. drain \in {"new", "woken"}
      BY <3>1 DEF Tasks
    <3> QED
      BY <1>6, <3>2 DEF Drain, Fits, None, Typed
  <2>2. DataCount = Len(tx_q) - 1
    BY <2>1, DataCounted
  <2>3. PICK taken \in Seq(Seq(Byte)) : tx_q' = tx_q \o DataFrames(taken, DataCount)
    BY <1>6, DrainEffect
  <2> DEFINE g == DataFrames(taken, DataCount)
             n == Len(tx_q)
  <2>4. g \in Seq(Frames) /\ \A i \in 1..Len(g) : g[i].flags = "DATA" /\ g[i].seq = (n - 1) + i - 1
    <3>1. DataCount \in Nat
      BY <1>6, DrainEffect
    <3>2. /\ g \in Seq(Frames) /\ Len(g) = Len(taken)
          /\ \A i \in 1..Len(taken) : g[i] = Frame("DATA", DataCount + i - 1, taken[i])
      BY <3>1, DataFramesTyped
    <3> HIDE DEF g
    <3>3. ASSUME NEW i \in 1..Len(g)
          PROVE  g[i].flags = "DATA" /\ g[i].seq = (n - 1) + i - 1
      <4>1. g[i] = Frame("DATA", DataCount + i - 1, taken[i])
        BY <3>2
      <4>2. g[i].flags = "DATA" /\ g[i].seq = DataCount + i - 1
        BY <4>1 DEF Frame
      <4> QED
        BY <2>2, <4>2
    <3> QED
      BY <3>2, <3>3
  <2> HIDE DEF g, n
  <2>5. tx_q' = tx_q \o g
    BY <2>3 DEF g
  <2>6. /\ Len(tx_q') = n + Len(g) /\ Len(g) \in Nat /\ n \in Nat
        /\ \A i \in 1..(n + Len(g)) : tx_q'[i] = IF i <= n THEN tx_q[i] ELSE g[i - n]
    <3> DEFINE j == tx_q \o g
    <3>1. /\ Len(j) = n + Len(g) /\ Len(g) \in Nat /\ n \in Nat
          /\ \A i \in 1..(n + Len(g)) : j[i] = IF i <= n THEN tx_q[i] ELSE g[i - n]
      BY <1>2, <2>4, ConcatProperties DEF n
    <3> HIDE DEF j
    <3>2. tx_q' = j
      BY <2>5 DEF j
    <3> QED
      BY <3>1, <3>2
  <2>7. n >= 1 /\ tx_q[1].flags = "SYN" /\ tx_q[1].payload = <<>>
    BY <1>1, <1>2, <2>1 DEF n
  <2>8. tx_q'[1] = tx_q[1] /\ tx_q' # <<>>
    <3>1. 1 \in 1..(n + Len(g)) /\ 1 <= n
      BY <2>6, <2>7
    <3>2. Len(tx_q') # 0
      BY <2>6, <2>7
    <3>3. tx_q' # <<>>
      BY <3>2
    <3> QED
      BY <2>6, <3>1, <3>3
  <2>9. ASSUME NEW i \in 2..(n + Len(g))
        PROVE  tx_q'[i].flags = "DATA" /\ tx_q'[i].seq = i - 2
    <3>1. i \in 1..(n + Len(g)) /\ i \in Int
      BY <2>6
    <3>2. CASE i <= n
      <4>1. i \in 2..Len(tx_q)
        BY <2>6, <2>9, <3>2 DEF n
      <4> QED
        BY <1>1, <2>1, <2>6, <3>1, <3>2, <4>1
    <3>3. CASE ~(i <= n)
      <4>1. i - n \in 1..Len(g) /\ (n - 1) + (i - n) - 1 = i - 2
        BY <2>6, <3>1, <3>3
      <4>2. tx_q'[i] = g[i - n]
        BY <2>6, <3>1, <3>3
      <4> QED
        BY <2>4, <4>1, <4>2
    <3> QED
      BY <3>2, <3>3
  <2> QED
    BY <2>1, <2>6, <2>7, <2>8, <2>9 DEF TxFrames
<1>7. CASE Read
  <2>1. ~Never(ready, "read")
    BY <1>2, <1>7, TurnReady DEF Read
  <2> QED
    BY <1>4, <1>7, <2>1 DEF Read, Tasks
<1>8. CASE Close
  <2>1. session = "open" /\ reader = "closing" /\ session' = session /\ reader' = "ended"
    <3>1. ~Never(ready, "close")
      BY <1>2, <1>8, TurnReady DEF Close
    <3>2. reader = "closing"
      BY <3>1 DEF Tasks
    <3> QED
      BY <1>8, <3>2 DEF Close, Fits, None, Typed
  <2> DEFINE f == Frame("FIN", 0, <<>>)
             n == Len(tx_q)
  <2>2. f \in Frames /\ f.flags = "FIN"
    BY DEF Frame, Frames
  <2> HIDE DEF f
  <2>3. tx_q' = Append(tx_q, f)
    BY <1>8 DEF Close, f
  <2>4. /\ Len(tx_q') = n + 1 /\ tx_q'[n + 1] = f /\ tx_q' # <<>>
        /\ \A i \in 1..n : tx_q'[i] = tx_q[i]
    BY <1>2, <2>2, <2>3
  <2>5. n >= 1 /\ n \in Nat /\ 1 \in 1..n
    BY <1>1, <1>2, <2>1
  <2> HIDE DEF n
  <2>6. ASSUME NEW i \in 2..(n + 1)
        PROVE  \/ tx_q'[i].flags = "DATA" /\ tx_q'[i].seq = i - 2
               \/ tx_q'[i].flags = "FIN" /\ i = n + 1
    <3>1. CASE i = n + 1
      BY <2>2, <2>4, <3>1
    <3>2. CASE i # n + 1
      <4>1. i \in 2..n /\ i \in 1..n
        BY <2>5, <2>6, <3>2
      <4> QED
        BY <1>1, <2>1, <2>4, <4>1 DEF n
    <3> QED
      BY <3>1, <3>2
  <2> QED
    BY <1>1, <2>1, <2>4, <2>5, <2>6 DEF TxFrames
<1>9. CASE EnqueueRx
  BY <1>3, <1>4, <1>9 DEF EnqueueRx
<1>10. CASE UNCHANGED vars \/ AppSends \/ DataReceived \/ ConnectionLost \/ Write
  BY <1>3, <1>10
  DEF vars, AppSends, Greet, Authenticate, Ask, SendData, Says, ConnectionLost, DataReceived,
      Write, queues, vconn
<1> QED
  BY <1>5, <1>6, <1>7, <1>8, <1>9, <1>10 DEF Next, RunTask

LEMMA FromAppKept ==
    ASSUME Typed, Tasks, Fits, HandshakeInv, FromApp, [Next]_vars
    PROVE  FromApp'
<1> SUFFICES ASSUME ~app'.eager
             PROVE  /\ Starts(received', Concat(app'.data))
                    /\ state' = 3 /\ transport' = "open" /\ ~closed' =>
                         received' \o (inflight' \o Concat(to_send')) = Concat(app'.data)
  BY DEF FromApp
<1>1. app' = app
  BY DEF Next, vars, AppSends, Greet, Authenticate, Ask, SendData, Says, ConnectionLost,
         DataReceived, RunTask, Open, Write, Drain, Read, Close, EnqueueRx, config
<1>2. /\ Starts(received, Concat(app.data))
      /\ state = 3 /\ transport = "open" /\ ~closed =>
           received \o (inflight \o Concat(to_send)) = Concat(app.data)
  BY <1>1 DEF FromApp
<1> DEFINE t == Concat(to_send)
<1>3. /\ received \in Seq(Byte) /\ inflight \in Seq(Byte) /\ t \in Seq(Byte)
      /\ to_send \in Seq(Seq(Byte))
  BY ConcatTyped DEF Typed
<1>4. CASE UNCHANGED vars \/ ConnectionLost \/ RunTask \/ EnqueueRx
  <2>1. UNCHANGED <<received, state, to_send>>
    BY <1>4 DEF vars, ConnectionLost, RunTask, Open, Write, Drain, Read, Close, EnqueueRx,
                socks, peer
  <2>2. transport' = "open" => UNCHANGED <<transport, inflight>>
    BY <1>4 DEF vars, ConnectionLost, RunTask, Open, Write, Drain, Read, Close, EnqueueRx
  <2>3. ~closed' => ~closed
    <3>1. CASE Read
      <4>1. ready \in Seq(Task)
        BY DEF Typed
      <4>2. ~Never(ready, "read")
        BY <3>1, <4>1, TurnReady DEF Read
      <4> QED
        BY <4>2 DEF Tasks, Fits
    <3> QED
      BY <1>4, <3>1 DEF vars, ConnectionLost, RunTask, Open, Write, Drain, Close, EnqueueRx, vconn
  <2> QED
    BY <1>1, <1>2, <2>1, <2>2, <2>3
<1>5. CASE Greet \/ Authenticate \/ Ask
  <2>1. stage # "asked" /\ transport = "open" /\ UNCHANGED <<received, state>>
    BY <1>5 DEF Greet, Authenticate, Ask, Says, socks
  <2>2. state # 3
    BY <2>1 DEF HandshakeInv, Conversation, IsNew, Greeted, HasOffer, LogsIn, HasPassed, Asks, HasTunnel
  <2> QED
    BY <1>1, <1>2, <2>1, <2>2
<1>6. CASE SendData
  <2> DEFINE d == Head(to_send)
             u == Concat(Tail(to_send))
  <2>1. /\ to_send # <<>> /\ to_send' = Tail(to_send) /\ inflight' = inflight \o d
        /\ UNCHANGED <<received, state, transport, closed>>
    BY <1>6 DEF SendData, Says, socks, vconn
  <2>2. t = d \o u
    BY <1>3, <2>1, ConcatFirst
  <2>3. d \in Seq(Byte) /\ u \in Seq(Byte)
    <3>1. d \in Seq(Byte) /\ Tail(to_send) \in Seq(Seq(Byte))
      BY <1>3, <2>1
    <3> QED
      BY <3>1, ConcatTyped
  <2> HIDE DEF d, u, t
  <2>4. (inflight \o d) \o u = inflight \o (d \o u)
    BY <1>3, <2>3, Associative
  <2>5. inflight' \o Concat(to_send') = inflight \o t
    BY <2>1, <2>2, <2>4 DEF u
  <2> QED
    BY <1>1, <1>2, <2>1, <2>5 DEF t
<1>7. CASE DataReceived /\ state # 3
  <2>1. received' = received /\ to_send' = to_send
    BY <1>7, ReceiveReady
  <2>2. state' = 3 => inflight' = <<>> /\ to_send = app.data
    BY <1>1, <1>7, HandshakeReceived
  <2>3. received = <<>>
    BY <1>7 DEF Fits
  <2>4. state' = 3 => received' \o (inflight' \o Concat(to_send')) = Concat(app.data)
    <3> SUFFICES ASSUME state' = 3
                 PROVE  received' \o (inflight' \o Concat(to_send')) = Concat(app.data)
      OBVIOUS
    <3>1. inflight' = <<>> /\ Concat(to_send') = t /\ t = Concat(app.data)
      BY <2>1, <2>2
    <3> HIDE DEF t
    <3>2. <<>> \o (<<>> \o t) = t
      BY <1>3
    <3> QED
      BY <2>1, <2>3, <3>1, <3>2
  <2> QED
    BY <1>1, <1>2, <2>1, <2>4
<1>8. CASE DataReceived /\ state = 3
  <2>1. PICK data \in Seq(Byte), buf \in Seq(Byte) :
           /\ inflight = data \o inflight' /\ inflight' \in Seq(Byte)
           /\ HandleTunnelData(buf, data)
    BY <1>8, ReceiveEffect
  <2>2. transport = "open" /\ UNCHANGED <<to_send, closed>>
    BY <1>8 DEF DataReceived, peer, vconn
  <2>3. CASE closed
    BY <1>1, <1>2, <2>1, <2>2, <2>3 DEF HandleTunnelData
  <2>4. CASE ~closed
    <3>1. received' = received \o data
      BY <2>1, <2>4 DEF HandleTunnelData
    <3>2. received \o (inflight \o t) = Concat(app.data)
      BY <1>2, <1>8, <2>2, <2>4
    <3> HIDE DEF t
    <3>3. inflight \o t = data \o (inflight' \o t)
      <4>1. (data \o inflight') \o t = data \o (inflight' \o t)
        BY <1>3, <2>1, Associative, ZenonT(40)
      <4> QED
        BY <2>1, <4>1
    <3> DEFINE v == inflight' \o t
    <3>4. v \in Seq(Byte)
      BY <1>3, <2>1
    <3> HIDE DEF v
    <3>5. (received \o data) \o v = received \o (data \o v)
      <4>1. received \in Seq(Byte) /\ data \in Seq(Byte)
        BY <1>3
      <4> QED
        BY <3>4, <4>1, Associative
    <3>6. received' \o v = Concat(app.data)
      BY <3>1, <3>2, <3>3, <3>5 DEF v
    <3>7. Starts(received', Concat(app.data))
      BY <3>4, <3>6 DEF Starts
    <3> QED
      BY <1>1, <2>2, <3>6, <3>7 DEF v, t
  <2> QED
    BY <2>3, <2>4
<1> QED
  BY <1>4, <1>5, <1>6, <1>7, <1>8 DEF Next, AppSends
-----------------------------------------------------------------------------
(* What the read loop has taken: the frames of the response before its     *)
(* first FIN or RST, and that one too when it has come to it.              *)
Served == dispatched - Len(rx_q) - (IF closed THEN 1 ELSE 0)

Taken == Payloads(SubSeq(response, 1, Served))

Download ==
    /\ Served >= 0
    /\ \A i \in 1..Len(rx_q) : rx_q[i] = response[dispatched - Len(rx_q) + i]
    /\ \A i \in 1..Served : ~IsEnd(response[i])
    /\ closed => IsEnd(response[Served + 1])
    /\ transport = "open" => delivered = Taken
    /\ Starts(delivered, Taken)

LEMMA ServedFacts ==
    ASSUME Typed, Download
    PROVE  /\ Served \in Nat /\ Served <= Len(response) /\ Served <= dispatched
           /\ dispatched \in Nat /\ dispatched <= Len(response) /\ Len(response) \in Nat
           /\ Len(rx_q) \in Nat /\ response \in Seq(Frames) /\ rx_q \in Seq(Frames)
           /\ delivered \in Seq(Byte)
           /\ \A m, n \in Nat : m <= n /\ n <= Len(response) =>
                 /\ SubSeq(response, 1, n) \in Seq(Frames)
                 /\ SubSeq(response, 1, m) \in Seq(Frames)
                 /\ SubSeq(response, m + 1, n) \in Seq(Frames)
                 /\ SubSeq(response, 1, n) = SubSeq(response, 1, m) \o SubSeq(response, m + 1, n)
<1>1. response \in Seq(Frames) /\ rx_q \in Seq(Frames) /\ dispatched \in 0..Len(response)
        /\ delivered \in Seq(Byte)
  BY AppFacts DEF Typed
<1>2. Len(response) \in Nat /\ Len(rx_q) \in Nat /\ dispatched \in Nat /\ dispatched <= Len(response)
  BY <1>1
<1>3. Served \in Nat /\ Served <= dispatched
  <2>1. Served \in Int /\ Served <= dispatched
    BY <1>2 DEF Served
  <2> QED
    BY <2>1 DEF Download
<1>4. ASSUME NEW m \in Nat, NEW n \in Nat, m <= n, n <= Len(response)
      PROVE  /\ SubSeq(response, 1, n) \in Seq(Frames)
             /\ SubSeq(response, 1, m) \in Seq(Frames)
             /\ SubSeq(response, m + 1, n) \in Seq(Frames)
             /\ SubSeq(response, 1, n) = SubSeq(response, 1, m) \o SubSeq(response, m + 1, n)
  <2>1. \A i \in 1..n : response[i] \in Frames
    BY <1>1, <1>2, <1>4
  <2>2. \A a, b \in Int : 1 <= a /\ b <= n => SubSeq(response, a, b) \in Seq(Frames)
    <3> SUFFICES ASSUME NEW a \in Int, NEW b \in Int, 1 <= a, b <= n
                 PROVE  SubSeq(response, a, b) \in Seq(Frames)
      OBVIOUS
    <3>1. \A i \in a..b : response[i] \in Frames
      BY <2>1
    <3> QED
      BY <1>1, <3>1, SubSeqProperties
  <2>3. SubSeq(response, 1, n) = SubSeq(response, 1, m) \o SubSeq(response, m + 1, n)
    BY <1>1, <1>2, <1>4, ConcatAdjacentSubSeq
  <2>4. SubSeq(response, 1, n) \in Seq(Frames)
    BY <1>4, <2>2
  <2>5. SubSeq(response, 1, m) \in Seq(Frames)
    BY <1>4, <2>2
  <2>6. SubSeq(response, m + 1, n) \in Seq(Frames)
    <3>1. m + 1 \in Int /\ 1 <= m + 1 /\ n \in Int /\ n <= n
      BY <1>4
    <3> QED
      BY <2>2, <3>1
  <2> QED
    BY <2>3, <2>4, <2>5, <2>6
<1> QED
  BY <1>1, <1>2, <1>3, <1>4

LEMMA DownloadSame ==
    ASSUME Download, UNCHANGED <<dispatched, rx_q, closed, response, delivered>>,
           transport' = "open" => transport = "open"
    PROVE  Download'
BY DEF Download, Served, Taken, Starts

LEMMA DownloadRead ==
    ASSUME Typed, Tasks, Fits, Download, Read
    PROVE  Download'
<1>1. ~closed
  <2>1. ready \in Seq(Task)
    BY DEF Typed
  <2>2. ~Never(ready, "read")
    BY <2>1, TurnReady DEF Read
  <2> QED
    BY <2>2 DEF Tasks, Fits
<1> DEFINE m == Len(rx_q)
           s == Served
<1>2. /\ s \in Nat /\ s = dispatched - m /\ m \in Nat /\ dispatched \in Nat
      /\ dispatched <= Len(response)
      /\ response \in Seq(Frames) /\ rx_q \in Seq(Frames) /\ delivered \in Seq(Byte)
  BY <1>1, ServedFacts DEF Served
<1>3. PICK n \in 0..m :
              /\ \A i \in 1..n : ~IsEnd(rx_q[i])
              /\ delivered' = IF transport = "open"
                              THEN delivered \o Payloads(SubSeq(rx_q, 1, n)) ELSE delivered
              /\ SubSeq(rx_q, 1, n) \in Seq(Frames)
              /\ IF n = m
                 THEN rx_q' = <<>> /\ closed' = FALSE
                 ELSE /\ IsEnd(rx_q[n + 1]) /\ rx_q' = SubSeq(rx_q, n + 2, m)
                      /\ closed' = TRUE
  BY ReadEffect
<1>4. UNCHANGED <<dispatched, response, transport>>
  BY DEF Read, config
<1>5. \A i \in 1..m : rx_q[i] = response[s + i]
  <2>1. \A i \in 1..m : dispatched - m + i = s + i
    BY <1>2
  <2> QED
    BY <2>1 DEF Download
<1>6. n \in Nat /\ n <= m /\ s + n \in Nat /\ s + n <= dispatched
  BY <1>2, <1>3
<1> HIDE DEF m, s
<1>7. /\ Served' = s + n
      /\ \A i \in 1..Len(rx_q') : rx_q'[i] = response[dispatched - Len(rx_q') + i]
      /\ closed' => IsEnd(response[s + n + 1])
  <2>1. CASE n = m
    <3>1. rx_q' = <<>> /\ closed' = FALSE
      BY <1>3, <2>1
    <3>2. Len(rx_q') = 0
      BY <3>1
    <3>3. Served' = dispatched
      BY <1>2, <1>4, <3>1, <3>2 DEF Served
    <3> QED
      BY <1>2, <1>6, <2>1, <3>1, <3>2, <3>3
  <2>2. CASE n # m
    <3>1. IsEnd(rx_q[n + 1]) /\ rx_q' = SubSeq(rx_q, n + 2, m) /\ closed' = TRUE
      BY <1>3, <2>2
    <3>2. n + 1 \in 1..m /\ n + 2 \in Int /\ n + 2 >= 1 /\ s + (n + 1) = s + n + 1
      BY <1>2, <1>6, <2>2
    <3> DEFINE q == SubSeq(rx_q, n + 2, m)
    <3>3. Len(q) = m - (n + 1) /\ \A i \in 1..(m - (n + 1)) : q[i] = rx_q[n + 1 + i]
      <4>1. \A i \in (n + 2)..m : rx_q[i] \in Frames
        <5>1. \A i \in (n + 2)..m : i \in 1..Len(rx_q)
          BY <1>6, <1>2 DEF m
        <5> QED
          BY <1>2, <5>1
      <4>2. /\ Len(q) = IF n + 2 <= m THEN m - (n + 2) + 1 ELSE 0
            /\ \A i \in 1..(m - (n + 2) + 1) : q[i] = rx_q[(n + 2) + i - 1]
        BY <1>2, <3>2, <4>1, SubSeqProperties
      <4> HIDE DEF q
      <4>3. \A i \in 1..(m - (n + 1)) : i \in 1..(m - (n + 2) + 1) /\ (n + 2) + i - 1 = n + 1 + i
        BY <1>2, <1>6
      <4>4. Len(q) = m - (n + 1)
        BY <1>2, <1>6, <2>2, <4>2
      <4> QED
        BY <4>2, <4>3, <4>4
    <3>4. rx_q' = q
      BY <3>1
    <3> HIDE DEF q
    <3>5. Served' = s + n
      <4>1. Served' = dispatched - (m - (n + 1)) - 1
        BY <1>4, <3>1, <3>3, <3>4 DEF Served
      <4> QED
        BY <1>2, <1>6, <4>1
    <3>6. ASSUME NEW i \in 1..Len(rx_q')
          PROVE  rx_q'[i] = response[dispatched - Len(rx_q') + i]
      <4>1. i \in 1..(m - (n + 1))
        BY <3>3, <3>4
      <4>2. n + 1 + i \in 1..m /\ s + (n + 1 + i) = dispatched - (m - (n + 1)) + i
        BY <1>2, <1>6, <4>1
      <4> QED
        BY <1>5, <3>3, <3>4, <4>1, <4>2
    <3>7. IsEnd(response[s + n + 1])
      BY <1>5, <3>1, <3>2
    <3> QED
      BY <3>5, <3>6, <3>7
  <2> QED
    BY <2>1, <2>2
<1>8. \A i \in 1..(s + n) : ~IsEnd(response[i])
  <2> SUFFICES ASSUME NEW i \in 1..(s + n) PROVE ~IsEnd(response[i])
    OBVIOUS
  <2>1. CASE i <= s
    <3>1. i \in 1..s
      BY <1>2, <2>1
    <3> QED
      BY <3>1 DEF Download, s
  <2>2. CASE ~(i <= s)
    <3>1. i - s \in 1..n /\ i - s \in 1..m /\ s + (i - s) = i
      BY <1>2, <1>6, <2>2
    <3> QED
      BY <1>3, <1>5, <3>1
  <2> QED
    BY <2>1, <2>2
<1> DEFINE x == SubSeq(rx_q, 1, n)
           p == Payloads(SubSeq(response, 1, s))
<1>9. Payloads(SubSeq(response, 1, s + n)) = p \o Payloads(x) /\ p \in Seq(Byte)
        /\ Payloads(x) \in Seq(Byte)
  <2> DEFINE a == SubSeq(response, 1, s)
             b == SubSeq(response, s + 1, s + n)
  <2>1. a \in Seq(Frames) /\ b \in Seq(Frames) /\ SubSeq(response, 1, s + n) = a \o b
    <3>1. s <= s + n /\ s + n <= Len(response)
      BY <1>2, <1>6, ServedFacts
    <3> QED
      BY <1>2, <1>6, <3>1, ServedFacts
  <2>2. b = x
    <3>1. /\ x \in Seq(Frames) /\ Len(x) = n
          /\ \A i \in 1..n : x[i] = rx_q[i]
      <4>1. \A i \in 1..n : rx_q[i] \in Frames
        <5>1. \A i \in 1..n : i \in 1..Len(rx_q)
          BY <1>2, <1>6 DEF m
        <5> QED
          BY <1>2, <5>1
      <4>2. /\ x \in Seq(Frames) /\ Len(x) = IF 1 <= n THEN n - 1 + 1 ELSE 0
            /\ \A i \in 1..(n - 1 + 1) : x[i] = rx_q[1 + i - 1]
        BY <1>2, <1>6, <4>1, SubSeqProperties
      <4> HIDE DEF x
      <4>3. n - 1 + 1 = n /\ \A i \in 1..n : 1 + i - 1 = i
        BY <1>6
      <4> QED
        BY <1>6, <4>2, <4>3
    <3>2. Len(b) = n /\ \A i \in 1..n : b[i] = response[s + i]
      <4>1. \A i \in (s + 1)..(s + n) : response[i] \in Frames
        <5>1. \A i \in (s + 1)..(s + n) : i \in 1..Len(response)
          BY <1>2, <1>6
        <5> QED
          BY <1>2, <5>1
      <4>2. s + 1 \in Int /\ s + n \in Int
        BY <1>2, <1>6
      <4>3. /\ Len(b) = IF s + 1 <= s + n THEN (s + n) - (s + 1) + 1 ELSE 0
            /\ \A i \in 1..((s + n) - (s + 1) + 1) : b[i] = response[(s + 1) + i - 1]
        BY <1>2, <4>1, <4>2, SubSeqProperties
      <4> HIDE DEF b
      <4>4. (s + n) - (s + 1) + 1 = n /\ \A i \in 1..n : (s + 1) + i - 1 = s + i
        BY <1>2, <1>6
      <4> QED
        BY <1>2, <1>6, <4>3, <4>4
    <3> HIDE DEF x, b
    <3>3. \A i \in 1..n : b[i] = x[i]
      <4>1. \A i \in 1..n : i \in 1..m
        BY <1>2, <1>6
      <4> QED
        BY <1>5, <3>1, <3>2, <4>1
    <3> QED
      BY <2>1, <3>1, <3>2, <3>3, SeqEqual
  <2> HIDE DEF a, b
  <2>3. Payloads(a \o b) = Payloads(a) \o Payloads(b)
    BY <2>1, PayloadsJoined
  <2>4. Payloads(a) \in Seq(Byte) /\ Payloads(b) \in Seq(Byte)
    BY <2>1, PayloadsTyped
  <2> QED
    BY <2>1, <2>2, <2>3, <2>4 DEF a
<1>10. Taken' = p \o Payloads(x)
  BY <1>4, <1>7, <1>9 DEF Taken
<1>11. p = Taken
  BY DEF Taken, s
<1> HIDE DEF p, x
<1>12. CASE transport = "open"
  <2>1. delivered' = Taken'
    BY <1>3, <1>10, <1>11, <1>12 DEF Download, x
  <2>2. Starts(delivered', Taken')
    <3> DEFINE j == Taken'
    <3>1. j \in Seq(Byte)
      BY <1>9, <1>10
    <3> HIDE DEF j
    <3>2. j = j \o <<>> /\ <<>> \in Seq(Byte)
      BY <3>1
    <3>3. Starts(j, j)
      BY <3>2 DEF Starts
    <3> QED
      BY <2>1, <3>3 DEF j
  <2> QED
    BY <1>4, <1>6, <1>7, <1>8, <2>1, <2>2 DEF Download
<1>13. CASE transport # "open"
  <2>1. delivered' = delivered
    BY <1>3, <1>13
  <2>2. PICK u \in Seq(Byte) : p = delivered \o u
    BY <1>11 DEF Download, Starts
  <2>3. (delivered \o u) \o Payloads(x) = delivered \o (u \o Payloads(x))
    BY <1>2, <1>9, Associative
  <2>4. u \o Payloads(x) \in Seq(Byte)
    BY <1>9
  <2>5. Starts(delivered', Taken')
    BY <1>10, <2>1, <2>2, <2>3, <2>4 DEF Starts
  <2> QED
    BY <1>4, <1>6, <1>7, <1>8, <1>13, <2>5 DEF Download
<1> QED
  BY <1>12, <1>13

LEMMA DownloadKept ==
    ASSUME Typed, Tasks, Fits, Download, [Next]_vars
    PROVE  Download'
<1>1. CASE UNCHANGED vars \/ AppSends \/ DataReceived \/ ConnectionLost \/ Open \/ Write \/ Drain \/ Close
  <2>1. UNCHANGED <<dispatched, rx_q, closed, response, delivered>>
    BY <1>1
    DEF vars, AppSends, Greet, Authenticate, Ask, SendData, Says, DataReceived, ConnectionLost,
        Open, Write, Drain, Close, config, queues, vconn
  <2>2. transport' = "open" => transport = "open"
    BY <1>1
    DEF vars, AppSends, Greet, Authenticate, Ask, SendData, Says, DataReceived, ConnectionLost,
        Open, Write, Drain, Close
  <2> QED
    BY <2>1, <2>2, DownloadSame
<1>2. CASE EnqueueRx
  <2> DEFINE f == response[dispatched + 1]
             m == Len(rx_q)
  <2>1. /\ dispatched' = dispatched + 1 /\ rx_q' = Append(rx_q, f) /\ dispatched < Len(response)
        /\ UNCHANGED <<closed, response, transport, delivered>>
    BY <1>2 DEF EnqueueRx, config
  <2>2. dispatched \in Nat /\ Len(response) \in Nat /\ rx_q \in Seq(Frames) /\ m \in Nat
          /\ response \in Seq(Frames)
    BY ServedFacts
  <2>3. f \in Frames
    BY <2>1, <2>2
  <2> HIDE DEF f
  <2>4. /\ Len(rx_q') = m + 1 /\ rx_q'[m + 1] = f /\ \A i \in 1..m : rx_q'[i] = rx_q[i]
    BY <2>1, <2>2, <2>3
  <2> HIDE DEF m
  <2>5. Served' = Served
    <3>1. Served' = (dispatched + 1) - (m + 1) - (IF closed THEN 1 ELSE 0)
      BY <2>1, <2>4 DEF Served
    <3>2. Served = dispatched - m - (IF closed THEN 1 ELSE 0)
      BY DEF Served, m
    <3> QED
      BY <2>2, <3>1, <3>2
  <2>6. ASSUME NEW i \in 1..(m + 1)
        PROVE  rx_q'[i] = response[(dispatched + 1) - (m + 1) + i]
    <3>1. CASE i = m + 1
      <4>1. (dispatched + 1) - (m + 1) + i = dispatched + 1
        BY <2>2, <3>1
      <4> QED
        BY <2>4, <3>1, <4>1 DEF f
    <3>2. CASE i # m + 1
      <4>1. i \in 1..m /\ (dispatched + 1) - (m + 1) + i = dispatched - m + i
        BY <2>2, <2>6, <3>2
      <4> QED
        BY <2>4, <4>1 DEF Download, m
    <3> QED
      BY <3>1, <3>2
  <2>7. Taken' = Taken
    BY <2>1, <2>5 DEF Taken
  <2> QED
    BY <2>1, <2>4, <2>5, <2>6, <2>7 DEF Download, Starts
<1> QED
  BY <1>1, <1>2, DownloadRead DEF Next, RunTask
-----------------------------------------------------------------------------
(* The inductive invariant, and what it says of the properties that the    *)
(* runs check.                                                             *)
SocksInv ==
    /\ Typed
    /\ Tasks
    /\ Fits
    /\ HandshakeInv
    /\ Sent
    /\ TxFrames
    /\ FromApp
    /\ Download

LEMMA InvInit == Init => SocksInv
<1> SUFFICES ASSUME Init PROVE SocksInv
  OBVIOUS
<1>1. app \in Application /\ Responses \subseteq Seq(Frames)
  BY SocksAssumption DEF Init
<1>2. app.data \in Seq(Seq(Byte))
  BY <1>1 DEF Application
<1>3. Typed
  <2>1. 0 \in Port
    BY PortFacts
  <2>2. target \in [host : Seq(Byte), port : Port]
    BY <2>1 DEF Init
  <2>3. dispatched \in 0..Len(response)
    <3>1. response \in Seq(Frames) /\ dispatched = 0
      BY <1>1 DEF Init
    <3> QED
      BY <3>1
  <2>4. /\ <<>> \in Seq(Byte) /\ <<>> \in Seq(Seq(Byte)) /\ <<>> \in Seq(Frames)
        /\ <<>> \in Seq(Task) /\ <<>> \in Seq(Reply) /\ 0 \in 0..3
    OBVIOUS
  <2>5. /\ app \in Apps /\ auth_required \in BOOLEAN /\ response \in Responses
        /\ stage = "new" /\ to_send = app.data /\ inflight = <<>> /\ buffer = <<>>
        /\ transport = "open" /\ state = 0 /\ replies = <<>>
        /\ closed = FALSE /\ rx_event = FALSE /\ session = None /\ reader = None /\ drain = None
        /\ tx_queue = <<>> /\ tx_q = <<>> /\ rx_q = <<>> /\ delivered = <<>> /\ received = <<>>
        /\ ready = <<>>
    BY DEF Init
  <2> QED
    BY <1>2, <2>2, <2>3, <2>4, <2>5 DEF Typed
<1>4. Tasks
  <2>1. ready = <<>> /\ reader = None /\ drain = None
    BY DEF Init
  <2> QED
    BY <2>1, NoTasks DEF Tasks, OpenFirst, None
<1>5. Fits
  BY DEF Init, Fits, Opening, CloseLast, None
<1>6. HandshakeInv
  <2>1. HandshakeWhole
    BY <1>3, ExpectedFacts DEF HandshakeWhole, Init
  <2>2. IsNew
    BY DEF Init, IsNew, Nothing
  <2> QED
    BY <2>1, <2>2 DEF HandshakeInv, Conversation, Init
<1>7. Sent
  BY DEF Init, Sent, Opening, None
<1>8. TxFrames
  <2>1. tx_q = <<>> /\ session = None
    BY DEF Init
  <2>2. 2..Len(tx_q) = {}
    BY <2>1
  <2> QED
    BY <2>1, <2>2 DEF TxFrames, None
<1>9. FromApp
  <2>1. <<>> \o Concat(app.data) = Concat(app.data) /\ Concat(app.data) \in Seq(Byte)
    BY <1>2, ConcatTyped
  <2> QED
    BY <2>1 DEF Init, FromApp, Starts
<1>10. Download
  <2>1. rx_q = <<>> /\ dispatched = 0 /\ closed = FALSE /\ delivered = <<>>
    BY DEF Init
  <2>2. Len(rx_q) = 0
    BY <2>1
  <2>3. Served = 0
    <3>1. (IF closed THEN 1 ELSE 0) = 0
      BY <2>1
    <3>2. Served = 0 - 0 - 0
      BY <2>1, <2>2, <3>1 DEF Served
    <3> QED
      BY <3>2
  <2>4. Taken = <<>>
    <3>1. response \in Seq(Frames)
      BY <1>1 DEF Init
    <3>2. SubSeq(response, 1, 0) = <<>>
      BY <3>1
    <3> QED
      BY <2>3, <3>2, PayloadsNone DEF Taken
  <2>5. <<>> = <<>> \o <<>> /\ <<>> \in Seq(Byte)
    OBVIOUS
  <2>6. Starts(delivered, Taken)
    BY <2>1, <2>4, <2>5 DEF Starts
  <2>7. 1..Len(rx_q) = {} /\ 1..Served = {} /\ Served >= 0
    BY <2>2, <2>3
  <2> QED
    BY <2>1, <2>4, <2>6, <2>7 DEF Download
<1> QED
  BY <1>3, <1>4, <1>5, <1>6, <1>7, <1>8, <1>9, <1>10 DEF SocksInv

LEMMA InvKept == SocksInv /\ [Next]_vars => SocksInv'
<1> SUFFICES ASSUME SocksInv, [Next]_vars PROVE SocksInv'
  OBVIOUS
<1>1. Typed' /\ Tasks' /\ Fits'
  BY TypedKept, TasksKept, FitsKept DEF SocksInv
<1>2. HandshakeInv'
  BY HandshakeKept DEF SocksInv
<1>3. Sent' /\ TxFrames' /\ FromApp'
  BY SentKept, TxFramesKept, FromAppKept DEF SocksInv
<1>4. Download'
  BY DownloadKept DEF SocksInv
<1> QED
  BY <1>1, <1>2, <1>3, <1>4 DEF SocksInv

LEMMA InvAlways == Spec => []SocksInv
BY InvInit, InvKept, PTL DEF Spec

(* The read loop, the drain loop and close() are in the ready queue once   *)
(* when they can run and not at all when they wait: put() and the event of *)
(* the session wake no task twice (write, _tx_drain_loop, _read_loop).     *)
THEOREM SocksTypeCorrect == Spec => []TypeOK
<1>1. SocksInv => TypeOK
  <2> SUFFICES ASSUME SocksInv PROVE TypeOK
    OBVIOUS
  <2>1. /\ stage \in {"new", "greeted", "authenticated", "asked"}
        /\ transport \in {"open", "closing", "lost"}
        /\ state \in 0..3 /\ target.port \in Port
        /\ closed \in BOOLEAN /\ rx_event \in BOOLEAN
        /\ session \in {None, "open"}
        /\ reader \in {None, "new", "waiting", "woken", "closing", "ended"}
        /\ drain \in {None, "new", "waiting", "woken", "ended"}
    BY DEF SocksInv, Typed
  <2>2. Scheduled("read") = IF reader \in {"new", "woken"} THEN 1 ELSE 0
    BY Counted DEF SocksInv, Tasks
  <2>3. Scheduled("drain") = IF drain \in {"new", "woken"} THEN 1 ELSE 0
    BY Counted DEF SocksInv, Tasks
  <2>4. Scheduled("close") = IF reader = "closing" THEN 1 ELSE 0
    BY Counted DEF SocksInv, Tasks
  <2> QED
    BY <2>1, <2>2, <2>3, <2>4 DEF TypeOK
<1> QED
  BY <1>1, InvAlways, PTL

(* However TCP cuts the greeting, the credentials and the request of any   *)
(* application, the answers and the target are those that whole messages   *)
(* would have got (data_received and its handlers, _parse_addr).           *)
THEOREM HandshakesWhole == Spec => []HandshakeWhole
<1>1. SocksInv => HandshakeWhole
  BY DEF SocksInv, HandshakeInv
<1> QED
  BY <1>1, InvAlways, PTL

LEMMA UploadHolds == SocksInv => UploadWhole
<1> SUFFICES ASSUME SocksInv PROVE UploadWhole
  OBVIOUS
<1> USE DEF SocksInv
<1> DEFINE p == Payloads(tx_q)
           c == Concat(tx_queue)
           h == Held(ready)
<1>1. /\ p \in Seq(Byte) /\ c \in Seq(Byte) /\ h \in Seq(Byte) /\ received \in Seq(Byte)
      /\ ready \in Seq(Task) /\ tx_q \in Seq(Frames)
  BY StartsTyped
<1> HIDE DEF p, c, h
<1>2. session = "open" /\ ~closed => p \o (c \o h) = received
  BY DEF Sent, p, c, h
<1>3. Starts(p, received)
  <2>1. CASE session = "open" /\ ~closed
    <3>1. c \o h \in Seq(Byte)
      BY <1>1
    <3> QED
      BY <1>2, <2>1, <3>1 DEF Starts
  <2>2. CASE closed
    <3>1. PICK u \in Seq(Byte) : received = (p \o c) \o u
      BY <2>2 DEF Sent, Starts, p, c
    <3>2. (p \o c) \o u = p \o (c \o u)
      BY <1>1, Associative, ZenonT(40)
    <3>3. c \o u \in Seq(Byte)
      BY <1>1
    <3> QED
      BY <3>1, <3>2, <3>3 DEF Starts
  <2>3. CASE session = None
    <3>1. p = <<>>
      BY <2>3, PayloadsNone DEF Fits, p
    <3>2. <<>> \o received = received
      BY <1>1
    <3> QED
      BY <1>1, <3>1, <3>2 DEF Starts
  <2> QED
    BY <2>1, <2>2, <2>3 DEF Typed
<1>4. IsPrefix(p, received)
  BY <1>1, <1>3, PrefixOf
<1>5. ~app.eager => IsPrefix(received, Concat(app.data))
  BY <1>1, PrefixOf DEF FromApp
<1>6. \A i \in DOMAIN tx_q : /\ tx_q[i].flags = "SYN" <=> i = 1
                             /\ IsEnd(tx_q[i]) => i = Len(tx_q)
                             /\ tx_q[i].flags = "DATA" => tx_q[i].seq = i - 2
  <2> SUFFICES ASSUME NEW i \in DOMAIN tx_q
               PROVE  /\ tx_q[i].flags = "SYN" <=> i = 1
                      /\ IsEnd(tx_q[i]) => i = Len(tx_q)
                      /\ tx_q[i].flags = "DATA" => tx_q[i].seq = i - 2
    OBVIOUS
  <2>1. i \in 1..Len(tx_q) /\ Len(tx_q) \in Nat /\ tx_q # <<>>
    BY <1>1
  <2>2. session = "open"
    BY <2>1 DEF Fits, Typed
  <2>3. CASE i = 1
    BY <2>2, <2>3 DEF TxFrames, IsEnd
  <2>4. CASE i # 1
    <3>1. i \in 2..Len(tx_q)
      BY <2>1, <2>4
    <3>2. \/ tx_q[i].flags = "DATA" /\ tx_q[i].seq = i - 2
          \/ tx_q[i].flags = "FIN" /\ i = Len(tx_q)
      BY <3>1 DEF TxFrames
    <3> QED
      BY <2>4, <3>2 DEF IsEnd
  <2> QED
    BY <2>3, <2>4
<1>7. ready = <<>> /\ session = "open" /\ ~closed => p = received /\ tx_queue = <<>>
  <2> SUFFICES ASSUME ready = <<>>, session = "open", ~closed
               PROVE  p = received /\ tx_queue = <<>>
    OBVIOUS
  <2>1. ~Once(ready, "drain")
    BY DEF Once
  <2>2. tx_queue = <<>>
    BY <2>1 DEF Fits, Tasks
  <2>3. c = <<>> /\ h = <<>>
    BY <2>2, ConcatNone, HeldNone DEF c, h
  <2>4. <<>> \o <<>> = <<>> /\ p \o <<>> = p
    BY <1>1
  <2> QED
    BY <1>2, <2>2, <2>3, <2>4
<1> QED
  BY <1>4, <1>5, <1>6, <1>7 DEF UploadWhole, p

LEMMA DownloadHolds == SocksInv => DownloadWhole
<1> SUFFICES ASSUME SocksInv PROVE DownloadWhole
  OBVIOUS
<1> USE DEF SocksInv
<1>1. /\ Served \in Nat /\ Served <= Len(response) /\ Served <= dispatched
      /\ dispatched \in Nat /\ dispatched <= Len(response) /\ Len(response) \in Nat
      /\ response \in Seq(Frames) /\ delivered \in Seq(Byte)
  BY ServedFacts
<1> DEFINE s == Served
<1>2. \A i \in 1..s : ~IsEnd(response[i])
  BY DEF Download
<1>3. IsPrefix(delivered, Payloads(BeforeEnd(response)))
  <2> DEFINE k == SelectInSeq(response, IsEnd)
             n == IF k = 0 THEN Len(response) ELSE k - 1
  <2>1. /\ k \in 0..Len(response) /\ n \in 0..Len(response)
        /\ k # 0 => IsEnd(response[k])
        /\ BeforeEnd(response) = SubSeq(response, 1, n)
    BY <1>1, EndFacts
  <2> HIDE DEF k, s
  <2>2. s <= n
    <3>1. k # 0 => ~(k \in 1..s)
      BY <1>2, <2>1
    <3> QED
      BY <1>1, <2>1, <3>1 DEF s
  <2> HIDE DEF n
  <2> DEFINE a == SubSeq(response, 1, s)
             b == SubSeq(response, s + 1, n)
  <2>3. a \in Seq(Frames) /\ b \in Seq(Frames) /\ SubSeq(response, 1, n) = a \o b
    <3>1. s \in Nat /\ n \in Nat /\ n <= Len(response)
      BY <1>1, <2>1 DEF s
    <3> QED
      BY <2>2, <3>1, ServedFacts
  <2> HIDE DEF a, b
  <2>4. Payloads(a \o b) = Payloads(a) \o Payloads(b) /\ Payloads(a) \in Seq(Byte)
          /\ Payloads(b) \in Seq(Byte)
    BY <2>3, PayloadsJoined, PayloadsTyped
  <2>5. PICK u \in Seq(Byte) : Payloads(a) = delivered \o u
    BY DEF Download, Starts, Taken, a, s
  <2>6. (delivered \o u) \o Payloads(b) = delivered \o (u \o Payloads(b))
    BY <1>1, <2>4, Associative
  <2>7. u \o Payloads(b) \in Seq(Byte)
    BY <2>4
  <2>8. Starts(delivered, Payloads(BeforeEnd(response)))
    BY <2>1, <2>3, <2>4, <2>5, <2>6, <2>7 DEF Starts
  <2> QED
    BY <1>1, <2>8, PrefixOf
<1>4. ready = <<>> /\ session = "open" /\ transport = "open" =>
        delivered = Payloads(BeforeEnd(SubSeq(response, 1, dispatched)))
  <2> SUFFICES ASSUME ready = <<>>, session = "open", transport = "open"
               PROVE  delivered = Payloads(BeforeEnd(SubSeq(response, 1, dispatched)))
    OBVIOUS
  <2>1. ~Once(ready, "read") /\ ~Once(ready, "close")
    BY DEF Once
  <2>2. reader = "waiting"
    BY <2>1 DEF Tasks, Fits, Typed, None
  <2>3. rx_q = <<>> /\ ~closed
    BY <2>2 DEF Fits
  <2>4. Served = dispatched
    <3>1. Len(rx_q) = 0
      BY <2>3
    <3> QED
      BY <1>1, <2>3, <3>1 DEF Served
  <2> DEFINE fs == SubSeq(response, 1, dispatched)
  <2>5. fs \in Seq(Frames) /\ Len(fs) = dispatched /\ \A i \in 1..dispatched : fs[i] = response[i]
    <3>1. \A i \in 1..dispatched : response[i] \in Frames
      BY <1>1
    <3>2. /\ fs \in Seq(Frames) /\ Len(fs) = IF 1 <= dispatched THEN dispatched - 1 + 1 ELSE 0
          /\ \A i \in 1..(dispatched - 1 + 1) : fs[i] = response[1 + i - 1]
      BY <1>1, <3>1, SubSeqProperties
    <3> HIDE DEF fs
    <3>3. dispatched - 1 + 1 = dispatched /\ \A i \in 1..dispatched : 1 + i - 1 = i
      BY <1>1
    <3> QED
      BY <1>1, <3>2, <3>3
  <2> HIDE DEF fs
  <2>6. BeforeEnd(fs) = fs
    <3> DEFINE k == SelectInSeq(fs, IsEnd)
    <3>1. /\ k \in 0..Len(fs) /\ (k # 0 => IsEnd(fs[k])) /\ (k = 0 => BeforeEnd(fs) = fs)
      BY <2>5, EndFacts
    <3> HIDE DEF k
    <3>2. k # 0 => k \in 1..dispatched
      BY <1>1, <2>5, <3>1
    <3> QED
      BY <1>2, <2>4, <2>5, <3>1, <3>2
  <2> QED
    BY <2>4, <2>6 DEF Download, Taken, fs
<1> QED
  BY <1>3, <1>4 DEF DownloadWhole

(* Between any application and any response of the server no byte is lost, *)
(* doubled or moved: the session's queue holds the SYN, what was received  *)
(* in state 3 in order and without a gap, and the FIN behind it; the       *)
(* application gets what came before the first FIN or RST; and when no     *)
(* task is ready all of it has arrived (_handle_tunnel_data, write,        *)
(* _tx_drain_loop, _read_loop, close).                                     *)
THEOREM DataKept == Spec => []DataInOrder
<1>1. SocksInv => DataInOrder
  BY UploadHolds, DownloadHolds DEF DataInOrder
<1> QED
  BY <1>1, InvAlways, PTL
=============================================================================
