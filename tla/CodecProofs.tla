---------------------------- MODULE CodecProofs ----------------------------
(***************************************************************************)
(* Theorems about the frame codec, for any widths of its fields, any       *)
(* alphabet in which no character begins another, and batches of any       *)
(* frames.                                                                 *)
(*                                                                         *)
(* What a buffer holds at an offset (Holds) is followed from the writer    *)
(* to the reader: each write keeps what is in front of it, and each read   *)
(* finds what was written at its offset.                                   *)
(***************************************************************************)
EXTENDS FrameCodec, TLAPS, WellFoundedInduction

LEMMA Least ==
    ASSUME NEW T, T \subseteq Nat, T # {}
    PROVE  \E m \in T : \A k \in T : m <= k
<1> DEFINE R == OpToRel(<, Nat)
<1>1. IsWellFoundedOn(R, Nat)
  BY NatLessThanWellFounded
<1>2. \A i, j \in Nat : i < j => <<i, j>> \in R
  BY DEF OpToRel
<1> HIDE DEF R
<1>3. PICK m \in T : \A k \in T : ~(<<k, m>> \in R)
  BY <1>1, WFMin
<1>4. SUFFICES ASSUME NEW k \in T PROVE m <= k
  OBVIOUS
<1>5. ~ (k < m)
  BY <1>2, <1>3
<1> QED
  BY <1>5

LEMMA Induct ==
    ASSUME NEW S, 0 \in S, \A n \in Nat : n \in S => n + 1 \in S
    PROVE  \A n \in Nat : n \in S
<1> DEFINE T == Nat \ S
<1> SUFFICES ASSUME T # {} PROVE FALSE
  OBVIOUS
<1>1. PICK m \in T : \A k \in T : m <= k
  BY Least
<1>2. m # 0 /\ m - 1 \in Nat /\ m - 1 \notin T
  BY <1>1
<1>3. (m - 1) + 1 = m
  BY <1>1
<1> QED
  BY <1>2, <1>3

(* Induction up to a bound.                                                *)
LEMMA InductTo ==
    ASSUME NEW N \in Nat, NEW S, 0 \in S,
           \A n \in 1..N : n - 1 \in S => n \in S
    PROVE  \A n \in 0..N : n \in S
<1> DEFINE I == {n \in Nat : n \in 0..N => n \in S}
<1>1. 0 \in I
  OBVIOUS
<1>2. ASSUME NEW n \in Nat, n \in I  PROVE n + 1 \in I
  <2> SUFFICES ASSUME n + 1 \in 0..N PROVE n + 1 \in S
    OBVIOUS
  <2>1. n \in S /\ n + 1 \in 1..N /\ (n + 1) - 1 = n
    BY <1>2
  <2> QED
    BY <2>1
<1> HIDE DEF I
<1>3. \A n \in Nat : n \in I
  BY <1>1, <1>2, Induct
<1> QED
  BY <1>3 DEF I

(* A function that is defined by its first value and a step exists: up to  *)
(* a bound, and on all numbers.                                            *)
Recurs(F, b, N, f) == f[0] = b /\ \A n \in 1..N : f[n] = F[n][f[n - 1]]

LEMMA TraceExists ==
    ASSUME NEW S, NEW b \in S, NEW N \in Nat, NEW F,
           \A n \in 1..N : \A s \in S : F[n][s] \in S
    PROVE  \E f \in [0..N -> S] : Recurs(F, b, N, f)
<1> DEFINE I == {n \in Nat : \E f \in [0..n -> S] : Recurs(F, b, n, f)}
<1>1. 0 \in I
  <2>1. [i \in 0..0 |-> b] \in [0..0 -> S] /\ Recurs(F, b, 0, [i \in 0..0 |-> b])
    BY DEF Recurs
  <2> QED
    BY <2>1
<1>2. ASSUME NEW n \in 1..N, n - 1 \in I  PROVE n \in I
  <2>0. n \in Nat /\ n - 1 \in 0..n - 1
    OBVIOUS
  <2>1. PICK f \in [0..(n - 1) -> S] : Recurs(F, b, n - 1, f)
    BY <1>2
  <2> DEFINE g == [i \in 0..n |-> IF i = n THEN F[n][f[n - 1]] ELSE f[i]]
  <2>2. \A i \in 0..n : i # n => i \in 0..(n - 1)
    OBVIOUS
  <2>3. f[n - 1] \in S
    BY <2>0
  <2>4. g \in [0..n -> S]
    BY <2>2, <2>3
  <2>5. g[0] = b /\ g[n] = F[n][f[n - 1]]
    BY <2>1 DEF Recurs
  <2>6. \A i \in 1..n : g[i] = F[i][g[i - 1]]
    <3> TAKE i \in 1..n
    <3>1. i - 1 \in 0..n /\ i - 1 # n /\ g[i - 1] = f[i - 1]
      OBVIOUS
    <3>2. CASE i = n
      BY <3>1, <3>2, <2>5
    <3>3. CASE i # n
      <4>1. i \in 1..(n - 1) /\ i \in 0..n
        BY <3>3
      <4>2. f[i] = F[i][f[i - 1]]
        BY <4>1, <2>1 DEF Recurs
      <4> QED
        BY <3>1, <3>3, <4>1, <4>2
    <3> QED
      BY <3>2, <3>3
  <2> HIDE DEF g
  <2>7. Recurs(F, b, n, g)
    BY <2>5, <2>6 DEF Recurs
  <2> QED
    BY <2>0, <2>4, <2>7
<1> HIDE DEF I
<1>3. N \in I
  BY <1>1, <1>2, InductTo
<1> QED
  BY <1>3 DEF I

LEMMA TracesAgree ==
    ASSUME NEW M \in Nat, NEW N \in Nat, M <= N, NEW F, NEW b, NEW f, NEW g,
           Recurs(F, b, M, f), Recurs(F, b, N, g)
    PROVE  \A n \in 0..M : f[n] = g[n]
<1> DEFINE I == {n \in 0..M : f[n] = g[n]}
<1>1. 0 \in I
  BY DEF Recurs
<1>2. ASSUME NEW n \in 1..M, n - 1 \in I  PROVE n \in I
  <2>1. n \in 1..N /\ n \in 0..M
    OBVIOUS
  <2>2. f[n] = F[n][f[n - 1]] /\ g[n] = F[n][g[n - 1]]
    BY <2>1 DEF Recurs
  <2> QED
    BY <1>2, <2>1, <2>2
<1> HIDE DEF I
<1>3. \A n \in 0..M : n \in I
  BY <1>1, <1>2, InductTo
<1> QED
  BY <1>3 DEF I

RecursOn(F, b, f) == f[0] = b /\ \A n \in Nat \ {0} : f[n] = F[n][f[n - 1]]

LEMMA FunctionExists ==
    ASSUME NEW S, NEW b \in S, NEW F,
           \A n \in Nat : \A s \in S : F[n][s] \in S
    PROVE  \E f \in [Nat -> S] : RecursOn(F, b, f)
<1> DEFINE t == [N \in Nat |-> CHOOSE f \in [0..N -> S] : Recurs(F, b, N, f)]
           f == [n \in Nat |-> t[n][n]]
<1>1. ASSUME NEW N \in Nat  PROVE t[N] \in [0..N -> S] /\ Recurs(F, b, N, t[N])
  <2>1. \A n \in 1..N : \A s \in S : F[n][s] \in S
    OBVIOUS
  <2>2. \E g \in [0..N -> S] : Recurs(F, b, N, g)
    BY <2>1, TraceExists
  <2> QED
    BY <2>2
<1> HIDE DEF t
<1>2. f \in [Nat -> S]
  BY <1>1
<1>3. f[0] = b
  BY <1>1 DEF Recurs
<1>4. ASSUME NEW n \in Nat \ {0}  PROVE f[n] = F[n][f[n - 1]]
  <2>1. n - 1 \in Nat /\ n - 1 <= n /\ n - 1 \in 0..(n - 1) /\ n \in 1..n
    OBVIOUS
  <2>2. t[n - 1][n - 1] = t[n][n - 1]
    BY <1>1, <2>1, TracesAgree
  <2>3. t[n][n] = F[n][t[n][n - 1]]
    BY <1>1, <2>1 DEF Recurs
  <2> QED
    BY <2>1, <2>2, <2>3
<1> HIDE DEF f
<1> QED
  BY <1>2, <1>3, <1>4 DEF RecursOn
----------------------------------------------------------------------------
(* Numbers and their bytes.                                                *)
LEMMA BaseFacts == Base \in Nat /\ Base > 1 /\ 0 \in Byte /\ Byte \subseteq Nat
<1>1. Base \in Nat \ {0, 1}
  BY CodecAssumption
<1> QED
  BY <1>1 DEF Byte

LEMMA Times ==
    ASSUME NEW m \in Nat, NEW n \in Nat
    PROVE  m * n \in Nat /\ (m > 0 /\ n > 0 => m * n > 0)
OBVIOUS

LEMMA PowerFacts ==
    /\ \A n \in Nat : Power[n] \in Nat /\ Power[n] > 0
    /\ Power[0] = 1
    /\ \A n \in Nat : Power[n + 1] = Base * Power[n]
<1> DEFINE F == [n \in Nat |-> [s \in Nat |-> Base * s]]
           G(P, n) == IF n = 0 THEN 1 ELSE Base * P[n - 1]
           Rec(P) == P = [n \in Nat |-> G(P, n)]
<1>1. \A n \in Nat : \A s \in Nat : F[n][s] \in Nat
  BY BaseFacts, Times
<1>2. PICK f \in [Nat -> Nat] : RecursOn(F, 1, f)
  <2> HIDE DEF F
  <2> QED
    BY <1>1, FunctionExists
<1>3. Rec(f)
  <2>1. \A n \in Nat \ {0} : n - 1 \in Nat /\ n \in Nat
    OBVIOUS
  <2>2. \A n \in Nat \ {0} : f[n - 1] \in Nat
    BY <2>1
  <2>3. \A n \in Nat \ {0} : f[n] = Base * f[n - 1]
    BY <1>2, <2>1, <2>2 DEF RecursOn
  <2>4. \A n \in Nat : f[n] = G(f, n)
    BY <1>2, <2>3 DEF RecursOn
  <2> HIDE DEF G
  <2> QED
    BY <2>4
<1>4. Rec(Power)
  BY <1>3 DEF Power
<1>5. \A n \in Nat : Power[n] = G(Power, n)
  <2> HIDE DEF G
  <2> QED
    BY <1>4
<1>6. Power[0] = 1 /\ \A n \in Nat : Power[n + 1] = Base * Power[n]
  <2>1. \A n \in Nat : n + 1 \in Nat /\ n + 1 # 0 /\ (n + 1) - 1 = n
    OBVIOUS
  <2> QED
    BY <1>5, <2>1
<1>7. \A n \in Nat : Power[n] \in Nat /\ Power[n] > 0
  <2> DEFINE I == {n \in Nat : Power[n] \in Nat /\ Power[n] > 0}
  <2>1. 0 \in I
    BY <1>6
  <2>2. ASSUME NEW n \in Nat, n \in I  PROVE n + 1 \in I
    <3>1. Base \in Nat /\ Base > 0 /\ Power[n] \in Nat /\ Power[n] > 0
      BY <2>2, BaseFacts
    <3>2. Base * Power[n] \in Nat /\ Base * Power[n] > 0
      BY <3>1, Times
    <3> QED
      BY <1>6, <3>2
  <2> HIDE DEF I
  <2>3. \A n \in Nat : n \in I
    BY <2>1, <2>2, Induct
  <2> QED
    BY <2>3 DEF I
<1> QED
  BY <1>6, <1>7

LEMMA PowerOne == Power[1] = Base
<1>1. 0 + 1 = 1
  OBVIOUS
<1> QED
  BY <1>1, PowerFacts, BaseFacts

LEMMA DivFacts ==
    ASSUME NEW n \in Nat
    PROVE  \E q \in Nat, r \in Byte : /\ q = n \div Base /\ r = n % Base
                                     /\ n = q * Base + r
<1>1. ASSUME NEW B \in Nat, B > 0
      PROVE  \E q \in Nat, r \in 0..(B - 1) : q = n \div B /\ r = n % B /\ n = q * B + r
  <2> DEFINE q == n \div B
             r == n % B
  <2>1. q \in Nat
    BY <1>1
  <2>2. r \in 0..(B - 1)
    BY <1>1
  <2>3. r = n - B * q
    BY <1>1
  <2>4. q = n \div B /\ r = n % B
    OBVIOUS
  <2> HIDE DEF q, r
  <2>5. B * q = q * B /\ q * B \in Nat
    BY <2>1
  <2>6. n = q * B + r
    BY <2>1, <2>2, <2>3, <2>5
  <2> QED
    BY <2>1, <2>2, <2>4, <2>6
<1> QED
  BY <1>1, BaseFacts DEF Byte

LEMMA DivTyped ==
    ASSUME NEW n \in Nat
    PROVE  n \div Base \in Nat /\ n % Base \in Byte
<1>1. PICK q \in Nat, r \in Byte : q = n \div Base /\ r = n % Base
  BY DivFacts
<1> QED
  BY <1>1, Zenon

LEMMA DivBounded ==
    ASSUME NEW q \in Nat, NEW r \in Nat, NEW P \in Nat, q * Base + r < Base * P
    PROVE  q < P
<1>1. ASSUME NEW B \in Nat, q >= P  PROVE q * B >= B * P
  BY <1>1
<1>2. SUFFICES ASSUME q >= P PROVE FALSE
  OBVIOUS
<1> DEFINE x == q * Base
           y == Base * P
<1>3. x >= y /\ x \in Nat /\ y \in Nat /\ x + r < y
  BY <1>1, <1>2, BaseFacts, Times
<1> HIDE DEF x, y
<1> QED
  BY <1>3

LEMMA BytesAreNumbers == \A bytes \in Seq(Byte) : bytes \in Seq(Nat)
<1> TAKE bytes \in Seq(Byte)
<1>1. \A i \in 1..Len(bytes) : bytes[i] \in Byte
  OBVIOUS
<1>2. \A i \in 1..Len(bytes) : bytes[i] \in Nat
  BY <1>1, BaseFacts
<1> QED
  BY <1>2

(* The value of bytes is that of all but the last, times Base, and the     *)
(* last.                                                                   *)
ValueTrace(bytes, v) ==
    v = [n \in 0..Len(bytes) |-> IF n = 0 THEN 0 ELSE v[n - 1] * Base + bytes[n]]

LEMMA ValueExists ==
    ASSUME NEW bytes \in Seq(Nat)
    PROVE  \E v \in [0..Len(bytes) -> Nat] : ValueTrace(bytes, v)
<1> DEFINE N == Len(bytes)
           F == [n \in 1..N |-> [s \in Nat |-> s * Base + bytes[n]]]
<1>1. \A n \in 1..N : bytes[n] \in Nat
  OBVIOUS
<1>2. \A s \in Nat : s * Base \in Nat
  BY BaseFacts, Times
<1>3. \A n \in 1..N : \A s \in Nat : F[n][s] \in Nat
  <2>0. \A x, y \in Nat : x + y \in Nat
    OBVIOUS
  <2>1. \A n \in 1..N : \A s \in Nat : s * Base + bytes[n] \in Nat
    BY <1>1, <1>2, <2>0, Zenon
  <2> QED
    BY <2>1
<1>4. PICK f \in [0..N -> Nat] : Recurs(F, 0, N, f)
  <2> HIDE DEF F
  <2>1. N \in Nat
    OBVIOUS
  <2> QED
    BY <1>3, <2>1, TraceExists
<1>5. f[0] = 0 /\ \A n \in 1..N : f[n] = f[n - 1] * Base + bytes[n]
  <2>1. \A n \in 1..N : n - 1 \in 0..N
    OBVIOUS
  <2> QED
    BY <1>4, <2>1 DEF Recurs
<1>6. ValueTrace(bytes, f)
  <2>1. \A n \in 0..N : n = 0 \/ n \in 1..N
    OBVIOUS
  <2> QED
    BY <1>5, <2>1 DEF ValueTrace
<1> QED
  BY <1>6

LEMMA ValueSteps ==
    ASSUME NEW bytes, NEW v, ValueTrace(bytes, v), Len(bytes) \in Nat
    PROVE  v[0] = 0 /\ \A n \in 1..Len(bytes) : v[n] = v[n - 1] * Base + bytes[n]
<1> DEFINE G(n) == IF n = 0 THEN 0 ELSE v[n - 1] * Base + bytes[n]
<1>1. v = [n \in 0..Len(bytes) |-> G(n)]
  BY DEF ValueTrace
<1> HIDE DEF G
<1>2. \A n \in 0..Len(bytes) : v[n] = G(n)
  BY <1>1
<1>3. \A n \in 1..Len(bytes) : n \in 0..Len(bytes) /\ n # 0
  OBVIOUS
<1> QED
  BY <1>2, <1>3 DEF G

LEMMA UnpackedTrace ==
    ASSUME NEW bytes \in Seq(Nat)
    PROVE  \E v \in [0..Len(bytes) -> Nat] :
              /\ v[0] = 0
              /\ \A n \in 1..Len(bytes) : v[n] = v[n - 1] * Base + bytes[n]
              /\ Unpacked(bytes) = v[Len(bytes)]
<1> DEFINE v == CHOOSE u : ValueTrace(bytes, u)
<1>0. Len(bytes) \in Nat
  OBVIOUS
<1>1. ValueTrace(bytes, v)
  BY ValueExists
<1>2. Unpacked(bytes) = v[Len(bytes)]
  BY DEF Unpacked, ValueTrace
<1> HIDE DEF v
<1>3. v[0] = 0 /\ \A n \in 1..Len(bytes) : v[n] = v[n - 1] * Base + bytes[n]
  BY <1>0, <1>1, ValueSteps
<1>4. \A n \in 0..Len(bytes) : v[n] \in Nat
  <2> DEFINE I == {n \in 0..Len(bytes) : v[n] \in Nat}
  <2>1. 0 \in I
    BY <1>3
  <2>2. ASSUME NEW n \in 1..Len(bytes), n - 1 \in I  PROVE n \in I
    <3>1. v[n - 1] \in Nat /\ bytes[n] \in Nat
      BY <2>2
    <3>2. v[n - 1] * Base \in Nat
      BY <3>1, BaseFacts, Times
    <3>3. v[n - 1] * Base + bytes[n] \in Nat
      BY <3>1, <3>2
    <3> QED
      BY <1>3, <3>3
  <2> HIDE DEF I
  <2>3. \A n \in 0..Len(bytes) : n \in I
    BY <1>0, <2>1, <2>2, InductTo
  <2> QED
    BY <2>3 DEF I
<1>5. DOMAIN v = 0..Len(bytes) /\ v = [n \in DOMAIN v |-> v[n]]
  BY <1>1 DEF ValueTrace
<1> QED
  BY <1>2, <1>3, <1>4, <1>5

LEMMA UnpackedNat ==
    ASSUME NEW bytes \in Seq(Nat)
    PROVE  Unpacked(bytes) \in Nat
<1>1. Len(bytes) \in 0..Len(bytes)
  OBVIOUS
<1> QED
  BY <1>1, UnpackedTrace

LEMMA UnpackedAppend ==
    ASSUME NEW bytes \in Seq(Nat), NEW x \in Nat
    PROVE  Unpacked(Append(bytes, x)) = Unpacked(bytes) * Base + x
<1> DEFINE more == Append(bytes, x)
           N == Len(bytes)
<1>1. PICK v : /\ v[0] = 0 /\ \A n \in 1..N : v[n] = v[n - 1] * Base + bytes[n]
               /\ Unpacked(bytes) = v[N]
  BY UnpackedTrace
<1>2. more \in Seq(Nat) /\ Len(more) = N + 1 /\ N \in Nat
      /\ more[N + 1] = x /\ \A n \in 1..N : more[n] = bytes[n]
  OBVIOUS
<1> HIDE DEF more
<1>3. PICK u : /\ u[0] = 0 /\ \A n \in 1..(N + 1) : u[n] = u[n - 1] * Base + more[n]
               /\ Unpacked(more) = u[N + 1]
  BY <1>2, UnpackedTrace
<1>4. \A n \in 0..N : u[n] = v[n]
  <2> DEFINE I == {n \in 0..N : u[n] = v[n]}
  <2>1. 0 \in I
    BY <1>1, <1>2, <1>3
  <2>2. ASSUME NEW n \in 1..N, n - 1 \in I  PROVE n \in I
    <3>1. n \in 1..(N + 1) /\ n \in 0..N /\ u[n - 1] = v[n - 1]
      BY <1>2, <2>2
    <3> QED
      BY <1>1, <1>2, <1>3, <3>1
  <2> HIDE DEF I
  <2>3. \A n \in 0..N : n \in I
    BY <1>2, <2>1, <2>2, InductTo
  <2> QED
    BY <2>3 DEF I
<1>5. u[N + 1] = u[N] * Base + more[N + 1]
  <2>1. N + 1 \in 1..(N + 1) /\ (N + 1) - 1 = N
    BY <1>2
  <2> QED
    BY <1>3, <2>1
<1>6. u[N] = v[N]
  BY <1>2, <1>4
<1> QED
  BY <1>1, <1>2, <1>3, <1>5, <1>6 DEF more

LEMMA BigEndianRecurs ==
    /\ \A w, n \in Nat : BigEndian[w][n] \in Seq(Byte)
    /\ \A n \in Nat : BigEndian[0][n] = <<>>
    /\ \A w, n \in Nat : BigEndian[w + 1][n] = Append(BigEndian[w][n \div Base], n % Base)
<1> DEFINE S == [Nat -> Seq(Byte)]
           b == [n \in Nat |-> <<>>]
           Longer(s) == [n \in Nat |-> Append(s[n \div Base], n % Base)]
           F == [w \in Nat |-> [s \in S |-> Longer(s)]]
           G(B, w) == [n \in Nat |-> IF w = 0 THEN <<>>
                             ELSE Append(B[w - 1][n \div Base], n % Base)]
           Rec(B) == B = [w \in Nat |-> G(B, w)]
<1>0. b \in S
  OBVIOUS
<1>1. ASSUME NEW s \in S  PROVE Longer(s) \in S
  <2>1. \A n \in Nat : s[n \div Base] \in Seq(Byte) /\ n % Base \in Byte
    BY DivTyped
  <2> QED
    BY <2>1
<1>a. \A B, w : w = 0 => G(B, w) = b
  OBVIOUS
<1>b. \A B, w : w # 0 => G(B, w) = Longer(B[w - 1])
  OBVIOUS
<1>c. \A B, w : \A n \in Nat : G(B, w)[n] = IF w = 0 THEN <<>>
                             ELSE Append(B[w - 1][n \div Base], n % Base)
  OBVIOUS
<1> HIDE DEF S, Longer, b, G
<1>d. \A w \in Nat : \A s \in S : F[w][s] = Longer(s)
  OBVIOUS
<1>2. PICK f \in [Nat -> S] : RecursOn(F, b, f)
  <2>1. \A w \in Nat : \A s \in S : F[w][s] \in S
    BY <1>1, <1>d
  <2> HIDE DEF F
  <2> QED
    BY <1>0, <2>1, FunctionExists
<1>3. Rec(f)
  <2> HIDE DEF F
  <2>1. \A w \in Nat \ {0} : w - 1 \in Nat /\ w \in Nat
    OBVIOUS
  <2>2. \A w \in Nat \ {0} : f[w] = Longer(f[w - 1])
    BY <1>2, <2>1, <1>d DEF RecursOn
  <2>3. \A w \in Nat : f[w] = G(f, w)
    BY <1>2, <2>2, <1>a, <1>b DEF RecursOn
  <2> QED
    BY <2>3
<1>4. Rec(BigEndian)
  BY <1>3 DEF BigEndian, G
<1>5. \A w \in Nat : BigEndian[w] = G(BigEndian, w)
  BY <1>4
<1>6. /\ \A n \in Nat : BigEndian[0][n] = <<>>
      /\ \A w, n \in Nat : BigEndian[w + 1][n] = Append(BigEndian[w][n \div Base], n % Base)
  <2>1. \A w \in Nat : w + 1 \in Nat /\ w + 1 # 0 /\ (w + 1) - 1 = w
    OBVIOUS
  <2>2. \A w, n \in Nat : BigEndian[w][n] = IF w = 0 THEN <<>>
                              ELSE Append(BigEndian[w - 1][n \div Base], n % Base)
    <3> TAKE w, n \in Nat
    <3>1. BigEndian[w][n] = G(BigEndian, w)[n]
      BY <1>5
    <3> QED
      BY <1>c, <3>1
  <2>3. \A n \in Nat : BigEndian[0][n] = <<>>
    BY <2>2
  <2>4. ASSUME NEW w \in Nat, NEW n \in Nat
        PROVE  BigEndian[w + 1][n] = Append(BigEndian[w][n \div Base], n % Base)
    <3>1. BigEndian[w + 1][n] = IF w + 1 = 0 THEN <<>>
                              ELSE Append(BigEndian[(w + 1) - 1][n \div Base], n % Base)
      BY <2>1, <2>2, Zenon
    <3> QED
      BY <2>1, <3>1, Zenon
  <2> QED
    BY <2>3, <2>4
<1>7. \A w, n \in Nat : BigEndian[w][n] \in Seq(Byte)
  <2> DEFINE I == {w \in Nat : \A n \in Nat : BigEndian[w][n] \in Seq(Byte)}
  <2>1. 0 \in I
    <3>1. <<>> \in Seq(Byte) /\ 0 \in Nat
      OBVIOUS
    <3> QED
      BY <1>6, <3>1, Zenon
  <2>2. ASSUME NEW w \in Nat, w \in I  PROVE w + 1 \in I
    <3>1. \A n \in Nat : BigEndian[w][n \div Base] \in Seq(Byte) /\ n % Base \in Byte
      BY <2>2, DivTyped
    <3>2. \A n \in Nat : Append(BigEndian[w][n \div Base], n % Base) \in Seq(Byte)
      BY <3>1
    <3>3. w + 1 \in Nat
      OBVIOUS
    <3> QED
      BY <1>6, <3>2, <3>3, Zenon
  <2> HIDE DEF I
  <2>3. \A w \in Nat : w \in I
    BY <2>1, <2>2, Induct
  <2> QED
    BY <2>3 DEF I
<1> QED
  BY <1>6, <1>7

(* A number that fits into its field is read as it was written.            *)
LEMMA BigEndianFacts ==
    ASSUME NEW w \in Nat, NEW n \in Nat
    PROVE  /\ BigEndian[w][n] \in Seq(Byte) /\ Len(BigEndian[w][n]) = w
           /\ n < Power[w] => Unpacked(BigEndian[w][n]) = n
<1> DEFINE Good(v, m) == /\ Len(BigEndian[v][m]) = v
                         /\ m < Power[v] => Unpacked(BigEndian[v][m]) = m
           I == {v \in Nat : \A m \in Nat : Good(v, m)}
<1>1. 0 \in I
  <2>1. Unpacked(<<>>) = 0 /\ Len(<<>>) = 0
    <3>1. <<>> \in Seq(Nat) /\ Len(<<>>) = 0
      OBVIOUS
    <3> QED
      BY <3>1, UnpackedTrace
  <2>2. \A m \in Nat : m < Power[0] => m = 0
    BY PowerFacts
  <2> QED
    BY <2>1, <2>2, BigEndianRecurs
<1>2. ASSUME NEW v \in Nat, v \in I  PROVE v + 1 \in I
  <2> SUFFICES ASSUME NEW m \in Nat PROVE Good(v + 1, m)
    OBVIOUS
  <2>1. PICK q \in Nat, r \in Byte : q = m \div Base /\ r = m % Base /\ m = q * Base + r
    BY DivFacts
  <2> DEFINE low == BigEndian[v][q]
  <2>2. BigEndian[v + 1][m] = Append(low, r)
    BY <2>1, BigEndianRecurs, Zenon
  <2>3. low \in Seq(Byte)
    BY <2>1, BigEndianRecurs
  <2>4. Len(low) = v /\ (q < Power[v] => Unpacked(low) = q)
    BY <1>2, <2>1
  <2> HIDE DEF low
  <2>5. low \in Seq(Nat) /\ r \in Nat
    BY <2>1, <2>3, BaseFacts, BytesAreNumbers
  <2>6. m < Power[v + 1] => q < Power[v]
    <3> DEFINE P == Power[v]
    <3>1. P \in Nat /\ Power[v + 1] = Base * P
      BY PowerFacts
    <3> HIDE DEF P
    <3>2. m < Base * P => q < P
      BY <2>1, <2>5, <3>1, DivBounded, Zenon
    <3> QED
      BY <3>1, <3>2 DEF P
  <2>7. Unpacked(Append(low, r)) = Unpacked(low) * Base + r
    BY <2>5, UnpackedAppend
  <2>8. Len(Append(low, r)) = v + 1
    BY <2>3, <2>4
  <2> QED
    BY <2>1, <2>2, <2>4, <2>6, <2>7, <2>8
<1> HIDE DEF I
<1>3. w \in I
  BY <1>1, <1>2, Induct
<1> QED
  BY <1>3, BigEndianRecurs DEF I
----------------------------------------------------------------------------
(* Sums.                                                                   *)
TotalRec(numbers, t) ==
    t = [n \in 0..Len(numbers) |-> IF n = 0 THEN 0 ELSE t[n - 1] + numbers[n]]
TotalTrace(numbers, t) ==
    t[0] = 0 /\ \A n \in 1..Len(numbers) : t[n] = t[n - 1] + numbers[n]

LEMMA TotalExists ==
    ASSUME NEW numbers \in Seq(Int)
    PROVE  \E t \in [0..Len(numbers) -> Int] : TotalRec(numbers, t)
<1> DEFINE N == Len(numbers)
           F == [n \in 1..N |-> [s \in Int |-> s + numbers[n]]]
<1>0. N \in Nat /\ \A n \in 1..N : numbers[n] \in Int
  OBVIOUS
<1>1. \A n \in 1..N : \A s \in Int : F[n][s] \in Int
  BY <1>0
<1>2. PICK f \in [0..N -> Int] : Recurs(F, 0, N, f)
  <2>1. 0 \in Int /\ N \in Nat
    OBVIOUS
  <2> HIDE DEF F, N
  <2> QED
    BY <1>1, <2>1, TraceExists
<1>3. TotalTrace(numbers, f)
  <2>1. \A n \in 1..N : n - 1 \in 0..N
    OBVIOUS
  <2> QED
    BY <1>2, <2>1 DEF Recurs, TotalTrace
<1>4. \A n \in 0..N : n = 0 \/ n \in 1..N
  OBVIOUS
<1>5. TotalRec(numbers, f)
  BY <1>3, <1>4 DEF TotalRec, TotalTrace
<1> QED
  BY <1>5

LEMMA TotalSteps ==
    ASSUME NEW numbers, Len(numbers) \in Nat, NEW t, TotalRec(numbers, t)
    PROVE  TotalTrace(numbers, t)
<1> DEFINE G(n) == IF n = 0 THEN 0 ELSE t[n - 1] + numbers[n]
<1>1. t = [n \in 0..Len(numbers) |-> G(n)]
  BY DEF TotalRec
<1> HIDE DEF G
<1>2. \A n \in 0..Len(numbers) : t[n] = G(n)
  BY <1>1
<1>3. 0 \in 0..Len(numbers) /\ \A n \in 1..Len(numbers) : n \in 0..Len(numbers) /\ n # 0
  OBVIOUS
<1> QED
  BY <1>2, <1>3 DEF G, TotalTrace

LEMMA TracesOfTotal ==
    ASSUME NEW numbers, NEW N \in Nat, N = Len(numbers), NEW t, NEW u,
           TotalTrace(numbers, t), TotalTrace(numbers, u)
    PROVE  \A n \in 0..N : t[n] = u[n]
<1> DEFINE I == {n \in 0..N : t[n] = u[n]}
<1>1. 0 \in I
  BY DEF TotalTrace
<1>2. ASSUME NEW n \in 1..N, n - 1 \in I  PROVE n \in I
  BY <1>2 DEF TotalTrace
<1> HIDE DEF I
<1>3. \A n \in 0..N : n \in I
  BY <1>1, <1>2, InductTo
<1> QED
  BY <1>3 DEF I

(* Whatever adds up the numbers one by one arrives at their total.         *)
LEMMA TotalIs ==
    ASSUME NEW numbers \in Seq(Int), NEW t, TotalTrace(numbers, t)
    PROVE  Total(numbers) = t[Len(numbers)]
<1> DEFINE u == CHOOSE v : TotalRec(numbers, v)
<1>0. Len(numbers) \in Nat /\ Len(numbers) \in 0..Len(numbers)
  OBVIOUS
<1>1. TotalRec(numbers, u)
  BY TotalExists
<1>2. Total(numbers) = u[Len(numbers)]
  BY DEF Total, TotalRec
<1> HIDE DEF u
<1>3. TotalTrace(numbers, u)
  BY <1>0, <1>1, TotalSteps
<1> QED
  BY <1>0, <1>2, <1>3, TracesOfTotal

LEMMA TotalExistsTrace ==
    ASSUME NEW numbers \in Seq(Int)
    PROVE  \E t \in [0..Len(numbers) -> Int] : TotalTrace(numbers, t)
<1>0. Len(numbers) \in Nat
  OBVIOUS
<1>1. PICK t \in [0..Len(numbers) -> Int] : TotalRec(numbers, t)
  BY TotalExists
<1>2. TotalTrace(numbers, t)
  BY <1>0, <1>1, TotalSteps
<1> QED
  BY <1>2
----------------------------------------------------------------------------
(* Characters.  Utf8 puts the bytes of one behind those of the other.      *)
Utf8Trace(target, u) ==
    u[0] = <<>> /\ \A n \in 1..Len(target) : u[n] = u[n - 1] \o target[n]
FlatRec(q, f) == f = [i \in 1..Len(q) |-> IF i = 1 THEN q[i] ELSE f[i - 1] \o q[i]]

LEMMA CharFacts ==
    /\ \A c \in Chars : c \in Seq(Byte) /\ Len(c) \in Nat \ {0}
    /\ Seq(Chars) \subseteq Seq(Seq(Byte))
    /\ \A c \in Chars : \A j \in 1..Len(c) : SubSeq(c, 1, j) \in Chars => j = Len(c)
<1>1. Chars \subseteq Seq(Byte)
  BY CodecAssumption DEF Byte
<1>2. \A c \in Chars : Len(c) \in Nat \ {0}
  BY <1>1, CodecAssumption
<1>3. \A target \in Seq(Chars) : target \in Seq(Seq(Byte))
  <2> TAKE target \in Seq(Chars)
  <2>1. \A i \in 1..Len(target) : target[i] \in Seq(Byte)
    BY <1>1
  <2> QED
    BY <2>1
<1>4. ASSUME NEW c \in Chars, NEW j \in 1..Len(c), SubSeq(c, 1, j) \in Chars  PROVE j = Len(c)
  <2> DEFINE d == SubSeq(c, 1, j)
  <2>1. c \in Seq(Byte)
    BY <1>1
  <2>2. Len(d) = j /\ SubSeq(d, 1, j) = d
    BY <2>1
  <2>3. IsPrefix(d, c)
    BY <2>1, <2>2 DEF IsPrefix
  <2>4. ~IsStrictPrefix(d, c)
    BY <1>4, CodecAssumption
  <2> QED
    BY <2>2, <2>3, <2>4 DEF IsStrictPrefix
<1> QED
  BY <1>1, <1>2, <1>3, <1>4

LEMMA FlatExists ==
    ASSUME NEW q \in Seq(Seq(Byte))
    PROVE  \E u \in [0..Len(q) -> Seq(Byte)] : Utf8Trace(q, u)
<1> DEFINE N == Len(q)
           F == [n \in 1..N |-> [s \in Seq(Byte) |-> s \o q[n]]]
<1>0. N \in Nat /\ \A n \in 1..N : q[n] \in Seq(Byte)
  OBVIOUS
<1>1. \A n \in 1..N : \A s \in Seq(Byte) : F[n][s] \in Seq(Byte)
  BY <1>0
<1>2. PICK f \in [0..N -> Seq(Byte)] : Recurs(F, <<>>, N, f)
  <2>1. <<>> \in Seq(Byte)
    OBVIOUS
  <2> HIDE DEF F, N
  <2> QED
    BY <1>0, <1>1, <2>1, TraceExists
<1>3. Utf8Trace(q, f)
  <2>1. \A n \in 1..N : n - 1 \in 0..N
    OBVIOUS
  <2> QED
    BY <1>2, <2>1 DEF Recurs, Utf8Trace
<1> QED
  BY <1>3

LEMMA FlatRecExists ==
    ASSUME NEW q \in Seq(Seq(Byte)), NEW u \in [0..Len(q) -> Seq(Byte)], Utf8Trace(q, u)
    PROVE  FlatRec(q, [i \in 1..Len(q) |-> u[i]])
<1> DEFINE f == [i \in 1..Len(q) |-> u[i]]
<1>1. ASSUME NEW i \in 1..Len(q)  PROVE u[i] = IF i = 1 THEN q[i] ELSE f[i - 1] \o q[i]
  <2>0. q[i] \in Seq(Byte) /\ 0 + 1 = 1
    OBVIOUS
  <2>1. u[i] = u[i - 1] \o q[i]
    BY DEF Utf8Trace
  <2>2. CASE i = 1
    <3>1. u[i - 1] = <<>>
      BY <2>2 DEF Utf8Trace
    <3>2. <<>> \o q[i] = q[i]
      BY <2>0
    <3> QED
      BY <2>1, <2>2, <3>1, <3>2
  <2>3. CASE i # 1
    <3>1. i - 1 \in 1..Len(q)
      BY <2>3
    <3> QED
      BY <2>1, <2>3, <3>1
  <2> QED
    BY <2>2, <2>3
<1> QED
  BY <1>1 DEF FlatRec

LEMMA FlatSteps ==
    ASSUME NEW q, Len(q) \in Nat, NEW f, FlatRec(q, f)
    PROVE  \A i \in 1..Len(q) : f[i] = IF i = 1 THEN q[i] ELSE f[i - 1] \o q[i]
<1> DEFINE G(i) == IF i = 1 THEN q[i] ELSE f[i - 1] \o q[i]
<1>1. f = [i \in 1..Len(q) |-> G(i)]
  BY DEF FlatRec
<1> HIDE DEF G
<1>2. \A i \in 1..Len(q) : f[i] = G(i)
  BY <1>1
<1> QED
  BY <1>2 DEF G

LEMMA Utf8Steps ==
    ASSUME NEW q \in Seq(Seq(Byte))
    PROVE  \E u \in [0..Len(q) -> Seq(Byte)] : Utf8Trace(q, u) /\ Utf8(q) = u[Len(q)]
<1> DEFINE N == Len(q)
           f == CHOOSE g : FlatRec(q, g)
<1>0. N \in Nat /\ q \in Seq(Seq(Byte))
  OBVIOUS
<1>1. PICK u \in [0..N -> Seq(Byte)] : Utf8Trace(q, u)
  BY FlatExists
<1>2. FlatRec(q, f)
  BY <1>1, FlatRecExists
<1>3. N # 0 => Utf8(q) = f[N]
  BY DEF Utf8, FlattenSeq, FlatRec
<1>4. N = 0 => Utf8(q) = <<>>
  BY DEF Utf8, FlattenSeq
<1> HIDE DEF f
<1>5. \A i \in 1..N : f[i] = IF i = 1 THEN q[i] ELSE f[i - 1] \o q[i]
  BY <1>0, <1>2, FlatSteps
<1>6. \A i \in 1..N : u[i] = IF i = 1 THEN q[i] ELSE u[i - 1] \o q[i]
  <2> TAKE i \in 1..N
  <2>1. u[i] = u[i - 1] \o q[i]
    BY <1>1 DEF Utf8Trace
  <2>2. i = 1 => u[i - 1] = <<>>
    BY <1>1 DEF Utf8Trace
  <2>3. <<>> \o q[i] = q[i]
    OBVIOUS
  <2> QED
    BY <2>1, <2>2, <2>3
<1> DEFINE I == {n \in 0..N : n = 0 \/ f[n] = u[n]}
<1>7. 0 \in I
  BY <1>0
<1>8. ASSUME NEW n \in 1..N, n - 1 \in I  PROVE n \in I
  <2>1. n = 1 \/ (n - 1 # 0 /\ f[n - 1] = u[n - 1])
    BY <1>8
  <2>2. n \in 0..N
    OBVIOUS
  <2> QED
    BY <1>5, <1>6, <2>1, <2>2
<1> HIDE DEF I
<1>9. \A n \in 0..N : n \in I
  BY <1>0, <1>7, <1>8, InductTo
<1>10. N # 0 => f[N] = u[N]
  BY <1>0, <1>9 DEF I
<1>11. u[0] = <<>>
  BY <1>1 DEF Utf8Trace
<1> QED
  BY <1>0, <1>1, <1>3, <1>4, <1>10, <1>11

(* The bytes of the first characters are the first bytes of all.           *)
Begins(s, t) == Len(s) <= Len(t) /\ \A i \in 1..Len(s) : t[i] = s[i]

LEMMA BeginsJoined ==
    ASSUME NEW s \in Seq(Byte), NEW t \in Seq(Byte)
    PROVE  Begins(s, s \o t) /\ Len(s \o t) = Len(s) + Len(t)
BY DEF Begins

LEMMA Utf8Prefixes ==
    ASSUME NEW q \in Seq(Seq(Byte)), NEW u \in [0..Len(q) -> Seq(Byte)], Utf8Trace(q, u),
           NEW n \in 0..Len(q)
    PROVE  \A m \in 0..Len(q) : n <= m => Begins(u[n], u[m])
<1> DEFINE N == Len(q)
           I == {m \in 0..N : n <= m => Begins(u[n], u[m])}
<1>0. N \in Nat /\ u[n] \in Seq(Byte)
  OBVIOUS
<1>1. 0 \in I
  BY <1>0 DEF Begins
<1>2. ASSUME NEW m \in 1..N, m - 1 \in I  PROVE m \in I
  <2>1. m \in 0..N /\ m - 1 \in 0..N /\ u[m - 1] \in Seq(Byte) /\ q[m] \in Seq(Byte)
    OBVIOUS
  <2>2. u[m] = u[m - 1] \o q[m]
    BY DEF Utf8Trace
  <2>3. Begins(u[m - 1], u[m])
    BY <2>1, <2>2, BeginsJoined
  <2>4. CASE n = m
    BY <1>0, <2>1, <2>4 DEF Begins
  <2>5. CASE n <= m - 1
    <3>1. Begins(u[n], u[m - 1])
      BY <1>2, <2>5
    <3>2. u[m] \in Seq(Byte)
      BY <2>1
    <3> QED
      BY <1>0, <2>1, <2>3, <3>1, <3>2 DEF Begins
  <2>6. CASE ~(n <= m)
    BY <2>1, <2>6
  <2> QED
    BY <2>4, <2>5, <2>6
<1> HIDE DEF I
<1>3. \A m \in 0..N : m \in I
  BY <1>0, <1>1, <1>2, InductTo
<1> QED
  BY <1>3 DEF I

LEMMA Utf8Facts ==
    ASSUME NEW q \in Seq(Chars)
    PROVE  Utf8(q) \in Seq(Byte) /\ Len(Utf8(q)) >= Len(q)
<1> DEFINE N == Len(q)
<1>0. N \in Nat /\ q \in Seq(Seq(Byte))
  BY CharFacts
<1>1. PICK u \in [0..N -> Seq(Byte)] : Utf8Trace(q, u) /\ Utf8(q) = u[N]
  BY <1>0, Utf8Steps
<1> DEFINE I == {n \in 0..N : Len(u[n]) >= n}
<1>2. 0 \in I
  BY <1>0, <1>1 DEF Utf8Trace
<1>3. ASSUME NEW n \in 1..N, n - 1 \in I  PROVE n \in I
  <2>1. q[n] \in Seq(Byte) /\ Len(q[n]) \in Nat \ {0}
    BY CharFacts
  <2>2. n \in 0..N /\ n - 1 \in 0..N /\ u[n - 1] \in Seq(Byte)
    OBVIOUS
  <2>3. u[n] = u[n - 1] \o q[n]
    BY <1>1 DEF Utf8Trace
  <2>4. Len(u[n]) = Len(u[n - 1]) + Len(q[n])
    BY <2>1, <2>2, <2>3
  <2> QED
    <3> DEFINE a == Len(u[n - 1])
               b == Len(q[n])
    <3>1. a \in Nat /\ a >= n - 1 /\ b \in Nat \ {0} /\ Len(u[n]) = a + b
      BY <1>3, <2>1, <2>2, <2>4
    <3> HIDE DEF a, b
    <3>2. Len(u[n]) >= n
      BY <3>1
    <3> QED
      BY <2>2, <3>2
<1> HIDE DEF I
<1>4. \A n \in 0..N : n \in I
  BY <1>0, <1>2, <1>3, InductTo
<1>5. N \in I /\ u[N] \in Seq(Byte)
  BY <1>0, <1>4
<1> QED
  BY <1>1, <1>5 DEF I

(* What a buffer holds at an offset.                                       *)
Holds(p, off, b) ==
    off + Len(b) <= Len(p) /\ \A i \in 1..Len(b) : p[off + i] = b[i]

(* What has been seen of the bytes of a text after n of them.              *)
Seen == [chars : Seq(Seq(Byte)), rest : Seq(Byte)]
NoneSeen == [chars |-> <<>>, rest |-> <<>>]
SeenTrace(bytes, z) ==
    z[0] = NoneSeen /\ \A n \in 1..Len(bytes) : z[n] = Utf8Step(z[n - 1], bytes[n])
SeenRec(bytes, z) ==
    z = [n \in 0..Len(bytes) |->
            IF n = 0 THEN [chars |-> <<>>, rest |-> <<>>] ELSE Utf8Step(z[n - 1], bytes[n])]

LEMMA StepTyped ==
    ASSUME NEW s \in Seen, NEW b \in Byte
    PROVE  Utf8Step(s, b) \in Seen
<1>1. s.chars \in Seq(Seq(Byte)) /\ s.rest \in Seq(Byte)
  BY DEF Seen
<1>2. Append(s.rest, b) \in Seq(Byte)
  BY <1>1
<1>3. Append(s.chars, Append(s.rest, b)) \in Seq(Seq(Byte))
  BY <1>1, <1>2
<1>4. <<>> \in Seq(Byte)
  OBVIOUS
<1> QED
  BY <1>1, <1>2, <1>3, <1>4 DEF Utf8Step, Seen

LEMMA SeenExists ==
    ASSUME NEW bytes \in Seq(Byte)
    PROVE  \E z \in [0..Len(bytes) -> Seen] : SeenRec(bytes, z)
<1> DEFINE N == Len(bytes)
           F == [n \in 1..N |-> [s \in Seen |-> Utf8Step(s, bytes[n])]]
<1>0. N \in Nat /\ \A n \in 1..N : bytes[n] \in Byte
  OBVIOUS
<1>1. \A n \in 1..N : \A s \in Seen : F[n][s] \in Seen
  BY <1>0, StepTyped
<1>2. PICK f \in [0..N -> Seen] : Recurs(F, NoneSeen, N, f)
  <2>1. NoneSeen \in Seen
    <3>1. <<>> \in Seq(Byte) /\ <<>> \in Seq(Seq(Byte))
      OBVIOUS
    <3> QED
      BY <3>1 DEF NoneSeen, Seen
  <2> HIDE DEF F, N
  <2> QED
    BY <1>0, <1>1, <2>1, TraceExists
<1>3. f[0] = NoneSeen /\ \A n \in 1..N : f[n] = Utf8Step(f[n - 1], bytes[n])
  <2>1. \A n \in 1..N : n - 1 \in 0..N
    OBVIOUS
  <2> QED
    BY <1>2, <2>1 DEF Recurs
<1>4. \A n \in 0..N : n = 0 \/ n \in 1..N
  OBVIOUS
<1>5. SeenRec(bytes, f)
  BY <1>3, <1>4 DEF SeenRec, NoneSeen
<1> QED
  BY <1>5

LEMMA SeenSteps ==
    ASSUME NEW bytes, Len(bytes) \in Nat, NEW z, SeenRec(bytes, z)
    PROVE  SeenTrace(bytes, z)
<1> DEFINE G(n) == IF n = 0 THEN NoneSeen ELSE Utf8Step(z[n - 1], bytes[n])
<1>1. z = [n \in 0..Len(bytes) |-> G(n)]
  BY DEF SeenRec, NoneSeen
<1> HIDE DEF G
<1>2. \A n \in 0..Len(bytes) : z[n] = G(n)
  BY <1>1
<1>3. 0 \in 0..Len(bytes) /\ \A n \in 1..Len(bytes) : n \in 0..Len(bytes) /\ n # 0
  OBVIOUS
<1> QED
  BY <1>2, <1>3 DEF G, SeenTrace

HasRead(z, m, chars) == z[m] = [chars |-> chars, rest |-> <<>>]

(* While a character is read, its bytes so far are the rest.               *)
LEMMA CharRead ==
    ASSUME NEW bytes, NEW z, SeenTrace(bytes, z), NEW m \in Nat, NEW c \in Chars,
           Len(bytes) \in Nat, Holds(bytes, m, c),
           NEW chars \in Seq(Seq(Byte)), HasRead(z, m, chars)
    PROVE  HasRead(z, m + Len(c), Append(chars, c))
<1> DEFINE k == Len(c)
           Part(j) == [chars |-> chars, rest |-> SubSeq(c, 1, j)]
           I == {j \in 0..(k - 1) : z[m + j] = Part(j)}
<1>0. c \in Seq(Byte) /\ k \in Nat /\ k > 0 /\ k - 1 \in Nat
  BY CharFacts
<1>s. ASSUME NEW j \in 1..k, z[m + (j - 1)] = Part(j - 1)
      PROVE  z[m + j] = Utf8Step(Part(j - 1), c[j])
             /\ Append(SubSeq(c, 1, j - 1), c[j]) = SubSeq(c, 1, j)
  <2>1. m + j \in 1..Len(bytes) /\ (m + j) - 1 = m + (j - 1)
    BY <1>0 DEF Holds
  <2>2. z[m + j] = Utf8Step(z[m + (j - 1)], c[j])
    BY <2>1 DEF SeenTrace, Holds
  <2>3. Append(SubSeq(c, 1, j - 1), c[j]) = SubSeq(c, 1, j)
    BY <1>0
  <2> QED
    BY <1>s, <2>2, <2>3
<1>1. 0 \in I
  <2>1. SubSeq(c, 1, 0) = <<>> /\ m + 0 = m
    BY <1>0
  <2> QED
    BY <1>0, <2>1 DEF HasRead
<1>2. ASSUME NEW j \in 1..(k - 1), j - 1 \in I  PROVE j \in I
  <2>1. z[m + j] = Utf8Step(Part(j - 1), c[j])
        /\ Append(SubSeq(c, 1, j - 1), c[j]) = SubSeq(c, 1, j)
    <3>1. j \in 1..k /\ z[m + (j - 1)] = Part(j - 1)
      BY <1>0, <1>2
    <3> HIDE DEF Part
    <3> QED
      BY <1>s, <3>1
  <2>2. SubSeq(c, 1, j) \notin Chars
    BY <1>0, CharFacts
  <2>3. Utf8Step(Part(j - 1), c[j]) = Part(j)
    BY <2>1, <2>2 DEF Utf8Step
  <2> QED
    BY <2>1, <2>3
<1> HIDE DEF I
<1>3. \A j \in 0..(k - 1) : j \in I
  BY <1>0, <1>1, <1>2, InductTo
<1>4. z[m + (k - 1)] = Part(k - 1)
  <2>1. k - 1 \in I
    BY <1>0, <1>3
  <2> QED
    BY <2>1 DEF I
<1>5. z[m + k] = Utf8Step(Part(k - 1), c[k]) /\ Append(SubSeq(c, 1, k - 1), c[k]) = SubSeq(c, 1, k)
  <2>1. k \in 1..k
    BY <1>0
  <2> QED
    BY <1>s, <1>4, <2>1
<1>6. SubSeq(c, 1, k) = c
  BY <1>0
<1>7. Utf8Step(Part(k - 1), c[k]) = [chars |-> Append(chars, c), rest |-> <<>>]
  BY <1>5, <1>6 DEF Utf8Step
<1> QED
  BY <1>5, <1>7 DEF HasRead

(* Decoding the bytes of a text gives the text.                            *)
LEMMA Utf8Inverse ==
    ASSUME NEW q \in Seq(Chars)
    PROVE  Utf8Decoded(Utf8(q)) = q
<1> DEFINE N == Len(q)
           bytes == Utf8(q)
<1>0. N \in Nat /\ q \in Seq(Seq(Byte)) /\ bytes \in Seq(Byte)
  BY CharFacts, Utf8Facts
<1>1. PICK u \in [0..N -> Seq(Byte)] : Utf8Trace(q, u) /\ bytes = u[N]
  BY <1>0, Utf8Steps
<1> DEFINE z == CHOOSE y : SeenRec(bytes, y)
           end == z[Len(bytes)]
<1>2. SeenRec(bytes, z)
  BY <1>0, SeenExists
<1>3. Utf8Decoded(bytes) = IF end.rest = <<>> THEN end.chars ELSE Append(end.chars, end.rest)
  BY DEF Utf8Decoded, SeenRec
<1> HIDE DEF z
<1>4. SeenTrace(bytes, z)
  BY <1>0, <1>2, SeenSteps
<1> HIDE DEF bytes
<1> DEFINE Read(n) == [chars |-> SubSeq(q, 1, n), rest |-> <<>>]
           I == {n \in 0..N : z[Len(u[n])] = Read(n)}
<1>5. 0 \in I
  <2>1. u[0] = <<>> /\ Len(<<>>) = 0 /\ SubSeq(q, 1, 0) = <<>>
    BY <1>0, <1>1 DEF Utf8Trace
  <2> QED
    BY <1>0, <1>4, <2>1 DEF SeenTrace, NoneSeen
<1>6. ASSUME NEW n \in 1..N, n - 1 \in I  PROVE n \in I
  <2> DEFINE m == Len(u[n - 1])
             c == q[n]
  <2>1. n \in 0..N /\ n - 1 \in 0..N /\ u[n - 1] \in Seq(Byte) /\ c \in Chars
    OBVIOUS
  <2>2. c \in Seq(Byte)
    BY <2>1, CharFacts
  <2>3. u[n] = u[n - 1] \o c
    BY <1>1 DEF Utf8Trace
  <2>4. Begins(u[n], bytes)
    <3>1. N \in 0..N /\ n <= N
      BY <1>0
    <3> QED
      BY <1>0, <1>1, <2>1, <3>1, Utf8Prefixes
  <2>5. m \in Nat /\ Len(u[n]) = m + Len(c)
    BY <2>1, <2>2, <2>3
  <2>6. \A j \in 1..Len(c) : bytes[m + j] = c[j]
    <3> TAKE j \in 1..Len(c)
    <3>1. m + j \in 1..Len(u[n]) /\ u[n][m + j] = c[j]
      BY <2>1, <2>2, <2>3, <2>5
    <3> QED
      BY <2>4, <3>1 DEF Begins
  <2>7. Len(bytes) \in Nat /\ m + Len(c) <= Len(bytes)
    <3>1. Len(bytes) \in Nat /\ Len(u[n]) <= Len(bytes)
      BY <1>0, <2>4 DEF Begins
    <3> QED
      BY <2>5, <3>1
  <2>8. z[m] = [chars |-> SubSeq(q, 1, n - 1), rest |-> <<>>]
    BY <1>6
  <2>9. SubSeq(q, 1, n - 1) \in Seq(Seq(Byte)) /\ Append(SubSeq(q, 1, n - 1), c) = SubSeq(q, 1, n)
    BY <1>0
  <2> DEFINE before == SubSeq(q, 1, n - 1)
  <2> HIDE DEF m, c, before
  <2>10. z[m + Len(c)] = [chars |-> Append(before, c), rest |-> <<>>]
    <3>1. z[m] = [chars |-> before, rest |-> <<>>] /\ before \in Seq(Seq(Byte))
      BY <2>8, <2>9 DEF before
    <3>2. Holds(bytes, m, c)
      BY <2>6, <2>7 DEF Holds
    <3>3. c \in Chars /\ m \in Nat /\ Len(bytes) \in Nat
      BY <2>1, <2>5, <2>7
    <3>4. HasRead(z, m, before)
      BY <3>1 DEF HasRead
    <3>5. HasRead(z, m + Len(c), Append(before, c))
      BY <1>4, <3>1, <3>2, <3>3, <3>4, CharRead
    <3> QED
      BY <3>5 DEF HasRead
  <2> QED
    BY <2>1, <2>5, <2>9, <2>10 DEF before
<1> HIDE DEF I
<1>7. \A n \in 0..N : n \in I
  BY <1>0, <1>5, <1>6, InductTo
<1>8. z[Len(u[N])] = Read(N)
  <2>1. N \in I
    BY <1>0, <1>7
  <2> QED
    BY <2>1 DEF I
<1>9. end = [chars |-> q, rest |-> <<>>]
  <2>1. SubSeq(q, 1, N) = q
    BY <1>0
  <2> QED
    BY <1>1, <1>8, <2>1
<1> QED
  BY <1>3, <1>9 DEF bytes
----------------------------------------------------------------------------
(* Writing.                                                                *)
Larger(a, b) == IF a > b THEN a ELSE b
Writers == {w \in [buf : Seq(Byte), off : Nat, ok : BOOLEAN] : w.off <= Len(w.buf)}
Kept(w, w2) == \A i \in 1..w.off : w2.buf[i] = w.buf[i]
Wrote(w, w2, bytes) ==
    /\ w2.off = w.off + Len(bytes)
    /\ Len(w2.buf) = Larger(Len(w.buf), w2.off)
    /\ Holds(w2.buf, w.off, bytes)
    /\ Kept(w, w2)

LEMMA SizeFacts ==
    /\ SessionIDLen \in Nat /\ SessionIDLen > 0 /\ ClientIDLen \in Nat /\ ClientIDLen > 0
    /\ SeqWidth \in Nat /\ SeqWidth > 0 /\ CountWidth \in Nat /\ CountWidth > 0
    /\ SizeWidth \in Nat /\ SizeWidth > 0
    /\ FieldsLen = SessionIDLen + SeqWidth + 2 + SizeWidth
<1>1. \A n \in {SessionIDLen, ClientIDLen, SeqWidth, CountWidth, SizeWidth} : n \in Nat \ {0}
  BY CodecAssumption
<1>2. \A n \in {SessionIDLen, ClientIDLen, SeqWidth, CountWidth, SizeWidth} : n \in Nat /\ n > 0
  BY <1>1
<1> QED
  BY <1>2 DEF FieldsLen

LEMMA Spliced ==
    ASSUME NEW buf \in Seq(Byte), NEW off \in Nat, off <= Len(buf), NEW bytes \in Seq(Byte),
           NEW end \in off..Len(buf)
    PROVE  LET new == SubSeq(buf, 1, off) \o bytes \o SubSeq(buf, end + 1, Len(buf))
           IN  /\ new \in Seq(Byte)
               /\ Len(new) = off + Len(bytes) + (Len(buf) - end)
               /\ \A i \in 1..off : new[i] = buf[i]
               /\ \A i \in 1..Len(bytes) : new[off + i] = bytes[i]
<1> DEFINE front == SubSeq(buf, 1, off)
           back  == SubSeq(buf, end + 1, Len(buf))
           mid   == front \o bytes
<1>1. front \in Seq(Byte) /\ Len(front) = off /\ \A i \in 1..off : front[i] = buf[i]
  OBVIOUS
<1>2. back \in Seq(Byte) /\ Len(back) = Len(buf) - end
  OBVIOUS
<1> HIDE DEF front, back
<1>3. /\ mid \in Seq(Byte) /\ Len(mid) = off + Len(bytes)
      /\ \A i \in 1..off : mid[i] = buf[i]
      /\ \A i \in 1..Len(bytes) : mid[off + i] = bytes[i]
  <2>1. mid \in Seq(Byte) /\ Len(mid) = off + Len(bytes)
    BY <1>1
  <2>2. \A i \in 1..off : mid[i] = front[i]
    BY <1>1
  <2>3. \A i \in 1..Len(bytes) : mid[off + i] = bytes[i]
    <3> TAKE i \in 1..Len(bytes)
    <3>1. off + i \in 1..(Len(front) + Len(bytes)) /\ off + i > Len(front)
          /\ (off + i) - Len(front) = i
      BY <1>1
    <3> QED
      BY <1>1, <3>1
  <2> QED
    BY <1>1, <2>1, <2>2, <2>3
<1> HIDE DEF mid
<1> DEFINE all == mid \o back
<1>4. /\ all \in Seq(Byte) /\ Len(all) = Len(mid) + Len(back)
      /\ \A i \in 1..Len(mid) : all[i] = mid[i]
  <2>1. all \in Seq(Byte)
    BY <1>2, <1>3
  <2>2. mid \in Seq(Byte)
    BY <1>3
  <2>3. Begins(mid, all) /\ Len(all) = Len(mid) + Len(back)
    BY <1>2, <2>2, BeginsJoined
  <2> QED
    BY <2>1, <2>3 DEF Begins
<1> HIDE DEF all
<1>5. \A i \in 1..off : i \in 1..Len(mid)
  BY <1>3
<1>6. \A i \in 1..Len(bytes) : off + i \in 1..Len(mid)
  BY <1>3
<1>7. /\ all \in Seq(Byte)
      /\ Len(all) = off + Len(bytes) + (Len(buf) - end)
      /\ \A i \in 1..off : all[i] = buf[i]
      /\ \A i \in 1..Len(bytes) : all[off + i] = bytes[i]
  BY <1>2, <1>3, <1>4, <1>5, <1>6
<1> QED
  BY <1>7 DEF all, mid, front, back

LEMMA WriterFields ==
    ASSUME NEW w \in Writers
    PROVE  w.buf \in Seq(Byte) /\ w.off \in Nat /\ w.ok \in BOOLEAN /\ w.off <= Len(w.buf)
           /\ Len(w.buf) \in Nat
BY DEF Writers

LEMMA PutFacts ==
    ASSUME NEW w \in Writers, NEW bytes \in Seq(Byte)
    PROVE  Put(w, bytes) \in Writers /\ Put(w, bytes).ok = w.ok /\ Wrote(w, Put(w, bytes), bytes)
<1> DEFINE buf == w.buf
           off == w.off
           end == Smaller(off + Len(bytes), Len(buf))
           new == SubSeq(buf, 1, off) \o bytes \o SubSeq(buf, end + 1, Len(buf))
           w2 == Put(w, bytes)
<1>0. buf \in Seq(Byte) /\ off \in Nat /\ off <= Len(buf) /\ Len(buf) \in Nat /\ Len(bytes) \in Nat
  BY DEF Writers
<1>1. end \in off..Len(buf) /\ off + Len(bytes) + (Len(buf) - end) = Larger(Len(buf), off + Len(bytes))
  BY <1>0 DEF Smaller, Larger
<1>2. Slice(buf, 0, off) = SubSeq(buf, 1, off)
  BY <1>0 DEF Slice, Smaller
<1>3. w2 = [w EXCEPT !.buf = new, !.off = off + Len(bytes)]
  BY <1>2 DEF Put
<1>4. w2.buf = new /\ w2.off = off + Len(bytes) /\ w2.ok = w.ok
      /\ DOMAIN w2 = DOMAIN w
  BY <1>3 DEF Writers
<1>5. /\ new \in Seq(Byte)
      /\ Len(new) = off + Len(bytes) + (Len(buf) - end)
      /\ \A i \in 1..off : new[i] = buf[i]
      /\ \A i \in 1..Len(bytes) : new[off + i] = bytes[i]
  BY <1>0, <1>1, Spliced
<1> HIDE DEF new, end
<1>6. w2 \in Writers
  <2>1. w2.off <= Len(w2.buf)
    BY <1>0, <1>1, <1>4, <1>5 DEF Larger
  <2>2. w2 \in [buf : Seq(Byte), off : Nat, ok : BOOLEAN]
    <3> DEFINE x == off + Len(bytes)
    <3>1. x \in Nat /\ new \in Seq(Byte) /\ w \in [buf : Seq(Byte), off : Nat, ok : BOOLEAN]
      BY <1>0, <1>5 DEF Writers
    <3>2. w2 = [w EXCEPT !.buf = new, !.off = x]
      BY <1>3
    <3> HIDE DEF x, w2
    <3> QED
      BY <3>1, <3>2
  <2> QED
    BY <2>1, <2>2 DEF Writers
<1>7. Wrote(w, w2, bytes)
  <2>1. Len(w2.buf) = Larger(Len(w.buf), w2.off)
    BY <1>1, <1>4, <1>5
  <2>2. w2.off <= Len(w2.buf)
    BY <1>6 DEF Writers
  <2>3. Holds(w2.buf, off, bytes)
    BY <1>0, <1>4, <1>5, <2>2 DEF Holds
  <2>4. Kept(w, w2)
    BY <1>4, <1>5 DEF Kept
  <2> QED
    BY <1>4, <2>1, <2>3, <2>4 DEF Wrote
<1> QED
  BY <1>4, <1>6, <1>7

Packed(w, w2, n, width) ==
    /\ w2 \in Writers
    /\ w2.ok <=> w.ok /\ n < Power[width] /\ w.off + width <= Len(w.buf)
    /\ w2.ok => /\ Wrote(w, w2, BigEndian[width][n])
                /\ Len(w2.buf) = Len(w.buf) /\ w2.off = w.off + width

LEMMA PackFacts ==
    ASSUME NEW w \in Writers, NEW n \in Nat, NEW width \in Nat
    PROVE  Packed(w, Pack(w, n, width), n, width)
<1> DEFINE fits == n < Power[width] /\ w.off + width <= Len(w.buf)
           bytes == BigEndian[width][n]
<1>1. bytes \in Seq(Byte) /\ Len(bytes) = width
  BY BigEndianFacts
<1>2. CASE fits
  <2>1. Pack(w, n, width) = Put(w, bytes)
    BY <1>2 DEF Pack
  <2> HIDE DEF bytes
  <2>2. Put(w, bytes) \in Writers /\ Put(w, bytes).ok = w.ok /\ Wrote(w, Put(w, bytes), bytes)
    BY <1>1, PutFacts
  <2>3. Put(w, bytes).off = w.off + width /\ Len(Put(w, bytes).buf) = Len(w.buf)
    <3> DEFINE w2 == Put(w, bytes)
    <3>1. w2.off = w.off + width /\ Len(w2.buf) = Larger(Len(w.buf), w2.off)
      BY <1>1, <2>2 DEF Wrote
    <3>2. w2.off <= Len(w.buf) /\ w2.off \in Nat /\ Len(w.buf) \in Nat
      BY <1>2, <3>1, WriterFields
    <3> HIDE DEF w2
    <3>3. Len(w2.buf) = Len(w.buf)
      BY <3>1, <3>2 DEF Larger
    <3> QED
      BY <3>1, <3>3 DEF w2
  <2> QED
    BY <1>2, <2>1, <2>2, <2>3 DEF bytes, Packed
<1>3. CASE ~fits
  <2>1. Pack(w, n, width) = [w EXCEPT !.ok = FALSE]
    BY <1>3 DEF Pack
  <2>2. [w EXCEPT !.ok = FALSE] \in Writers /\ [w EXCEPT !.ok = FALSE].ok = FALSE
    BY DEF Writers
  <2> QED
    BY <1>3, <2>1, <2>2 DEF Packed
<1> QED
  BY <1>2, <1>3

LEMMA KeptTrans ==
    ASSUME NEW a \in Writers, NEW b \in Writers, NEW c, Kept(a, b), Kept(b, c), a.off <= b.off
    PROVE  Kept(a, c)
<1>1. \A i \in 1..a.off : i \in 1..b.off
  BY WriterFields
<1> QED
  BY <1>1 DEF Kept

(* What is in front of the offset stays.                                   *)
LEMMA HeldKept ==
    ASSUME NEW w \in Writers, NEW w2 \in Writers, Kept(w, w2), w.off <= w2.off,
           NEW off \in Nat, NEW bytes \in Seq(Byte), Holds(w.buf, off, bytes),
           off + Len(bytes) <= w.off
    PROVE  Holds(w2.buf, off, bytes)
<1>1. \A i \in 1..Len(bytes) : off + i \in 1..w.off
  BY WriterFields
<1>2. off + Len(bytes) <= Len(w2.buf)
  <2>1. w2.off <= Len(w2.buf) /\ w2.off \in Nat /\ w.off \in Nat /\ Len(w2.buf) \in Nat
    BY WriterFields
  <2> QED
    BY <2>1
<1> QED
  BY <1>1, <1>2 DEF Holds, Kept

LEMMA WroteKept ==
    ASSUME NEW a \in Writers, NEW b \in Writers, NEW c \in Writers, NEW bytes \in Seq(Byte),
           Wrote(a, b, bytes), Kept(b, c), b.off <= c.off
    PROVE  Holds(c.buf, a.off, bytes)
<1>1. Holds(b.buf, a.off, bytes) /\ b.off = a.off + Len(bytes)
  BY DEF Wrote
<1>2. a.off \in Nat /\ a.off + Len(bytes) <= b.off
  BY <1>1, WriterFields
<1> QED
  BY <1>1, <1>2, HeldKept
----------------------------------------------------------------------------
(* Frames.                                                                 *)
PlenAt(off, f) == off + SizeWidth + SessionIDLen + SeqWidth + 2 + Len(Utf8(f.target))
EndAt(off, f)  == PlenAt(off, f) + SizeWidth + Len(f.payload)

FrameHeld(p, off, f) ==
    /\ Holds(p, off, BigEndian[SizeWidth][MarshalSize(f)])
    /\ Holds(p, off + SizeWidth, f.session_id)
    /\ Holds(p, off + SizeWidth + SessionIDLen, BigEndian[SeqWidth][f.seq])
    /\ Holds(p, FlagsOff(off), BigEndian[1][f.flags])
    /\ Holds(p, FlagsOff(off) + 1, BigEndian[1][Len(Utf8(f.target))])
    /\ Holds(p, FlagsOff(off) + 2, Utf8(f.target))
    /\ Holds(p, PlenAt(off, f), BigEndian[SizeWidth][Len(f.payload)])
    /\ Holds(p, PlenAt(off, f) + SizeWidth, f.payload)

(* Its numbers fit into their fields.                                      *)
NumbersFit(f) ==
    /\ Len(Utf8(f.target)) < Base
    /\ f.seq < Power[SeqWidth]
    /\ MarshalSize(f) < Power[SizeWidth]

LEMMA FrameFacts ==
    ASSUME NEW f \in Frame
    PROVE  /\ f.session_id \in Seq(Byte) /\ Len(f.session_id) = SessionIDLen
           /\ f.seq \in Nat /\ f.flags \in Byte /\ f.flags \in Nat /\ f.flags < Power[1]
           /\ f.target \in Seq(Chars) /\ f.payload \in Seq(Byte)
           /\ Utf8(f.target) \in Seq(Byte)
           /\ Len(Utf8(f.target)) \in Nat /\ Len(f.payload) \in Nat /\ Len(f.target) \in Nat
           /\ Len(f.target) <= Len(Utf8(f.target))
           /\ MarshalSize(f) = FieldsLen + Len(f.target) + Len(f.payload)
           /\ MarshalSize(f) \in Nat
           /\ EncodedLen(f) = FieldsLen + Len(Utf8(f.target)) + Len(f.payload)
           /\ Len(f.payload) <= MarshalSize(f) /\ MarshalSize(f) <= EncodedLen(f)
<1>1. /\ f.session_id \in [1..SessionIDLen -> Byte] /\ f.seq \in Nat /\ f.flags \in Byte
      /\ f.target \in Seq(Chars) /\ f.payload \in Seq(Byte)
  BY DEF Frame
<1>2. f.session_id \in Seq(Byte) /\ Len(f.session_id) = SessionIDLen
  BY <1>1, SizeFacts
<1>3. f.flags \in Nat /\ f.flags < Power[1]
  <2>1. Power[1] = Base /\ Base \in Nat
    BY PowerOne, BaseFacts
  <2> QED
    BY <1>1, <2>1 DEF Byte
<1>4. Utf8(f.target) \in Seq(Byte) /\ Len(Utf8(f.target)) >= Len(f.target)
  BY <1>1, Utf8Facts
<1>5. Len(Utf8(f.target)) \in Nat /\ Len(f.payload) \in Nat /\ Len(f.target) \in Nat
  BY <1>1, <1>4
<1>6. FieldsLen \in Nat
  BY SizeFacts
<1>7. MarshalSize(f) = FieldsLen + Len(f.target) + Len(f.payload)
      /\ EncodedLen(f) = FieldsLen + Len(Utf8(f.target)) + Len(f.payload)
  BY DEF MarshalSize, EncodedLen
<1>8. MarshalSize(f) \in Nat /\ Len(f.payload) <= MarshalSize(f) /\ MarshalSize(f) <= EncodedLen(f)
  <2> DEFINE x == Len(f.target)
             y == Len(Utf8(f.target))
             z == Len(f.payload)
             m == MarshalSize(f)
             e == EncodedLen(f)
  <2>1. x \in Nat /\ y \in Nat /\ z \in Nat /\ x <= y
    BY <1>4, <1>5
  <2>2. m = FieldsLen + x + z /\ e = FieldsLen + y + z
    BY <1>7
  <2> HIDE DEF x, y, z, m, e
  <2>3. m \in Nat /\ z <= m /\ m <= e
    BY <1>6, <2>1, <2>2
  <2> QED
    BY <2>3 DEF z, m, e
<1> QED
  BY <1>1, <1>2, <1>3, <1>4, <1>5, <1>7, <1>8

(* A frame is added when its numbers fit and there is room for it up to    *)
(* its payload; its offset is then where the next one goes.                *)
FrameAdded(w, w2, f) ==
    /\ w2 \in Writers
    /\ w2.ok <=> w.ok /\ NumbersFit(f) /\ PlenAt(w.off, f) + SizeWidth <= Len(w.buf)
    /\ w2.ok => /\ w2.off = EndAt(w.off, f)
                /\ Len(w2.buf) = Larger(Len(w.buf), w2.off)
                /\ Kept(w, w2)
                /\ FrameHeld(w2.buf, w.off, f)

LEMMA AddFrameFacts ==
    ASSUME NEW w \in Writers, NEW f \in Frame
    PROVE  FrameAdded(w, AddFrame(w, f), f)
<1> DEFINE tb == Utf8(f.target)
           w1 == Pack(w, MarshalSize(f), SizeWidth)
           w2 == Put(w1, f.session_id)
           w3 == Pack(w2, f.seq, SeqWidth)
           w4 == Pack(w3, f.flags, 1)
           w5 == Pack(w4, Len(tb), 1)
           w6 == Put(w5, tb)
           w7 == Pack(w6, Len(f.payload), SizeWidth)
           w8 == Put(w7, f.payload)
           b1 == BigEndian[SizeWidth][MarshalSize(f)]
           b3 == BigEndian[SeqWidth][f.seq]
           b4 == BigEndian[1][f.flags]
           b5 == BigEndian[1][Len(tb)]
           b7 == BigEndian[SizeWidth][Len(f.payload)]
<1>a. AddFrame(w, f) = w8
  BY DEF AddFrame, MarshalInto
<1>t. /\ tb \in Seq(Byte) /\ f.session_id \in Seq(Byte) /\ f.payload \in Seq(Byte)
      /\ b1 \in Seq(Byte) /\ b3 \in Seq(Byte) /\ b4 \in Seq(Byte) /\ b5 \in Seq(Byte)
      /\ b7 \in Seq(Byte)
      /\ Len(f.session_id) = SessionIDLen
  BY FrameFacts, SizeFacts, BigEndianFacts
<1>1. Packed(w, w1, MarshalSize(f), SizeWidth)
  BY FrameFacts, SizeFacts, PackFacts
<1> HIDE DEF w1
<1>i1. w1 \in Writers
  BY <1>1 DEF Packed
<1>2. w2 \in Writers /\ w2.ok = w1.ok /\ Wrote(w1, w2, f.session_id)
  BY <1>i1, <1>t, PutFacts
<1> HIDE DEF w2
<1>3. Packed(w2, w3, f.seq, SeqWidth)
  BY <1>2, FrameFacts, SizeFacts, PackFacts
<1> HIDE DEF w3
<1>i3. w3 \in Writers
  BY <1>3 DEF Packed
<1>4. Packed(w3, w4, f.flags, 1)
  <2>1. f.flags \in Nat /\ 1 \in Nat
    BY FrameFacts
  <2> QED
    BY <1>i3, <2>1, PackFacts
<1> HIDE DEF w4
<1>i4. w4 \in Writers
  BY <1>4 DEF Packed
<1>5. Packed(w4, w5, Len(tb), 1)
  <2>1. Len(tb) \in Nat /\ 1 \in Nat
    BY FrameFacts
  <2> QED
    BY <1>i4, <2>1, PackFacts
<1> HIDE DEF w5
<1>i5. w5 \in Writers
  BY <1>5 DEF Packed
<1>6. w6 \in Writers /\ w6.ok = w5.ok /\ Wrote(w5, w6, tb)
  BY <1>i5, <1>t, PutFacts
<1> HIDE DEF w6
<1>7. Packed(w6, w7, Len(f.payload), SizeWidth)
  <2>1. Len(f.payload) \in Nat /\ SizeWidth \in Nat
    BY FrameFacts, SizeFacts
  <2> QED
    BY <1>6, <2>1, PackFacts
<1> HIDE DEF w7
<1>i7. w7 \in Writers
  BY <1>7 DEF Packed
<1>8. w8 \in Writers /\ w8.ok = w7.ok /\ Wrote(w7, w8, f.payload)
  BY <1>i7, <1>t, PutFacts
<1> HIDE DEF w8
<1> DEFINE N == Len(tb)
           P == Len(f.payload)
           M == MarshalSize(f)
           L == Len(w.buf)
           o == w.off
<1>n. /\ L \in Nat /\ o \in Nat /\ o <= L /\ N \in Nat /\ P \in Nat /\ M \in Nat /\ P <= M
      /\ SizeWidth \in Nat /\ SeqWidth \in Nat /\ SessionIDLen \in Nat
      /\ f.flags < Power[1] /\ Power[1] = Base /\ Power[SizeWidth] \in Nat
  BY WriterFields, FrameFacts, SizeFacts, PowerOne, PowerFacts
<1>f. /\ PlenAt(o, f) = o + SizeWidth + SessionIDLen + SeqWidth + 2 + N
      /\ EndAt(o, f) = PlenAt(o, f) + SizeWidth + P
      /\ FlagsOff(o) = o + SizeWidth + SessionIDLen + SeqWidth
  BY DEF PlenAt, EndAt, FlagsOff
<1>e. /\ w1.ok <=> w.ok /\ M < Power[SizeWidth] /\ o + SizeWidth <= L
      /\ w2.ok = w1.ok
      /\ w3.ok <=> w2.ok /\ f.seq < Power[SeqWidth] /\ w2.off + SeqWidth <= Len(w2.buf)
      /\ w4.ok <=> w3.ok /\ f.flags < Power[1] /\ w3.off + 1 <= Len(w3.buf)
      /\ w5.ok <=> w4.ok /\ N < Power[1] /\ w4.off + 1 <= Len(w4.buf)
      /\ w6.ok = w5.ok
      /\ w7.ok <=> w6.ok /\ P < Power[SizeWidth] /\ w6.off + SizeWidth <= Len(w6.buf)
      /\ w8.ok = w7.ok
  BY <1>1, <1>2, <1>3, <1>4, <1>5, <1>6, <1>7, <1>8 DEF Packed
<1>l. /\ w1.ok => Len(w1.buf) = L /\ w1.off = o + SizeWidth
      /\ w3.ok => Len(w3.buf) = Len(w2.buf) /\ w3.off = w2.off + SeqWidth
      /\ w4.ok => Len(w4.buf) = Len(w3.buf) /\ w4.off = w3.off + 1
      /\ w5.ok => Len(w5.buf) = Len(w4.buf) /\ w5.off = w4.off + 1
      /\ w7.ok => Len(w7.buf) = Len(w6.buf) /\ w7.off = w6.off + SizeWidth
  BY <1>1, <1>3, <1>4, <1>5, <1>7 DEF Packed
<1>x. /\ w2.off = w1.off + SessionIDLen /\ Len(w2.buf) = Larger(Len(w1.buf), w2.off)
      /\ w6.off = w5.off + N /\ Len(w6.buf) = Larger(Len(w5.buf), w6.off)
      /\ w8.off = w7.off + P /\ Len(w8.buf) = Larger(Len(w7.buf), w8.off)
  BY <1>t, <1>2, <1>6, <1>8 DEF Wrote
<1>b. \A u \in Writers : u.ok \in BOOLEAN
  BY WriterFields
<1>B. NumbersFit(f) <=> N < Base /\ f.seq < Power[SeqWidth] /\ M < Power[SizeWidth]
  BY DEF NumbersFit
<1> HIDE DEF N, P, M, L, o, tb
<1>10. ASSUME w8.ok
       PROVE  /\ w1.ok /\ w3.ok /\ w4.ok /\ w5.ok /\ w7.ok /\ w.ok /\ NumbersFit(f)
              /\ w2.off = o + SizeWidth + SessionIDLen /\ w3.off = FlagsOff(o)
              /\ w4.off = FlagsOff(o) + 1 /\ w5.off = FlagsOff(o) + 2
              /\ w6.off = PlenAt(o, f) /\ w7.off = PlenAt(o, f) + SizeWidth
              /\ w8.off = EndAt(o, f)
              /\ PlenAt(o, f) + SizeWidth <= L /\ Len(w7.buf) = L
  <2>1. w1.ok /\ w2.ok /\ w3.ok /\ w4.ok /\ w5.ok /\ w6.ok /\ w7.ok
    BY <1>10, <1>e
  <2>2. NumbersFit(f)
    BY <2>1, <1>e, <1>n, <1>B
  <2>3. w1.off = o + SizeWidth /\ w2.off = o + SizeWidth + SessionIDLen
    BY <2>1, <1>l, <1>x
  <2>4. w3.off = FlagsOff(o)
    BY <2>1, <2>3, <1>l, <1>f
  <2>5. w4.off = FlagsOff(o) + 1
    BY <2>1, <2>4, <1>l
  <2>g. FlagsOff(o) \in Nat /\ PlenAt(o, f) \in Nat
    BY <1>f, <1>n
  <2>6. w5.off = FlagsOff(o) + 2
    BY <2>1, <2>5, <1>l, <2>g
  <2>7. w6.off = PlenAt(o, f)
    BY <2>6, <1>x, <1>f, <1>n
  <2>8. w7.off = PlenAt(o, f) + SizeWidth /\ w8.off = EndAt(o, f)
    BY <2>1, <2>7, <1>l, <1>x, <1>f
  <2>9. Len(w6.buf) = Larger(Larger(L, w2.off), w6.off)
    BY <2>1, <1>l, <1>x
  <2>10. w6.off + SizeWidth <= Len(w6.buf)
    BY <2>1, <1>e
  <2>11. w2.off <= PlenAt(o, f) /\ w2.off \in Nat /\ SizeWidth > 0
    BY <2>3, <1>f, <1>n, SizeFacts
  <2>12. PlenAt(o, f) + SizeWidth <= L /\ Len(w6.buf) = L
    BY <2>7, <2>9, <2>10, <2>11, <2>g, <1>n DEF Larger
  <2> QED
    BY <2>1, <2>2, <2>3, <2>4, <2>5, <2>6, <2>7, <2>8, <2>12, <1>e, <1>l
<1>11. ASSUME w.ok, NumbersFit(f), PlenAt(o, f) + SizeWidth <= L  PROVE w8.ok
  <2>0. N < Base /\ f.seq < Power[SeqWidth] /\ M < Power[SizeWidth]
    BY <1>11, <1>B
  <2>1. w1.ok
    BY <1>11, <1>e, <1>n, <1>f, <2>0
  <2>2. w2.ok /\ w2.off = o + SizeWidth + SessionIDLen
    BY <2>1, <1>e, <1>l, <1>x
  <2>2a. Len(w2.buf) = L
    <3>1. w2.off <= L /\ w2.off \in Nat /\ Len(w1.buf) = L
      BY <2>1, <2>2, <1>l, <1>11, <1>f, <1>n
    <3> QED
      BY <3>1, <1>x, <1>n DEF Larger
  <2>3. w3.ok
    <3>1. w2.off + SeqWidth <= Len(w2.buf)
      BY <2>2, <2>2a, <1>11, <1>f, <1>n
    <3> QED
      BY <3>1, <2>0, <2>2, <1>e
  <2>3a. w3.off = o + SizeWidth + SessionIDLen + SeqWidth /\ Len(w3.buf) = L
    BY <2>2, <2>2a, <2>3, <1>l
  <2>4. w4.ok
    <3>1. w3.off + 1 <= Len(w3.buf)
      BY <2>3a, <1>11, <1>f, <1>n
    <3> QED
      BY <3>1, <2>3, <1>e, <1>n
  <2>4a. w4.off = o + SizeWidth + SessionIDLen + SeqWidth + 1 /\ Len(w4.buf) = L
    BY <2>3a, <2>4, <1>l
  <2>5. w5.ok
    <3>1. w4.off + 1 <= Len(w4.buf)
      BY <2>4a, <1>11, <1>f, <1>n
    <3> QED
      BY <3>1, <2>0, <2>4, <1>e, <1>n
  <2>5a. w5.off = o + SizeWidth + SessionIDLen + SeqWidth + 2 /\ Len(w5.buf) = L
    BY <2>4a, <2>5, <1>l, <1>n
  <2>6. w6.ok /\ w6.off = PlenAt(o, f)
    BY <2>5, <2>5a, <1>e, <1>x, <1>f
  <2>6a. Len(w6.buf) = L
    <3>1. w6.off <= L /\ w6.off \in Nat
      BY <2>6, <1>11, <1>f, <1>n
    <3> QED
      BY <3>1, <2>5a, <1>x, <1>n DEF Larger
  <2>7. P < Power[SizeWidth]
    BY <2>0, <1>n
  <2> QED
    BY <2>6, <2>6a, <2>7, <1>11, <1>e
<1>12. ASSUME w8.ok
       PROVE  /\ w8.off = EndAt(o, f) /\ Len(w8.buf) = Larger(L, w8.off)
              /\ Kept(w, w8) /\ FrameHeld(w8.buf, o, f)
  <2>0. w1.ok /\ w3.ok /\ w4.ok /\ w5.ok /\ w7.ok
    BY <1>10, <1>12
  <2>1. /\ w1.off = o + SizeWidth
        /\ w2.off = o + SizeWidth + SessionIDLen
        /\ w3.off = FlagsOff(o) /\ w4.off = FlagsOff(o) + 1 /\ w5.off = FlagsOff(o) + 2
        /\ w6.off = PlenAt(o, f) /\ w7.off = PlenAt(o, f) + SizeWidth
        /\ w8.off = EndAt(o, f) /\ Len(w7.buf) = L
    BY <1>10, <1>12, <1>l
  <2>2. Len(w8.buf) = Larger(L, w8.off)
    BY <2>1, <1>x
  <2>3. /\ Wrote(w, w1, b1) /\ Wrote(w1, w2, f.session_id) /\ Wrote(w2, w3, b3)
        /\ Wrote(w3, w4, b4) /\ Wrote(w4, w5, b5) /\ Wrote(w5, w6, tb) /\ Wrote(w6, w7, b7)
        /\ Wrote(w7, w8, f.payload)
    BY <2>0, <1>1, <1>2, <1>3, <1>4, <1>5, <1>6, <1>7, <1>8 DEF Packed
  <2> DEFINE c1 == w1.off
             c2 == w2.off
             c3 == w3.off
             c4 == w4.off
             c5 == w5.off
             c6 == w6.off
             c7 == w7.off
             c8 == w8.off
  <2>g. FlagsOff(o) \in Nat /\ PlenAt(o, f) \in Nat /\ PlenAt(o, f) = FlagsOff(o) + 2 + N
    BY <1>f, <1>n
  <2>o. /\ o <= c1 /\ c1 <= c2 /\ c2 <= c3 /\ c3 <= c4 /\ c4 <= c5 /\ c5 <= c6
        /\ c6 <= c7 /\ c7 <= c8
        /\ c1 \in Nat /\ c2 \in Nat /\ c3 \in Nat /\ c4 \in Nat /\ c5 \in Nat /\ c6 \in Nat
        /\ c7 \in Nat /\ c8 \in Nat
    <3>1. o <= c1 /\ c1 <= c2 /\ c2 <= c3 /\ c1 \in Nat /\ c2 \in Nat /\ c3 \in Nat
      BY <2>1, <2>g, <1>f, <1>n
    <3>2. c3 <= c4 /\ c4 <= c5 /\ c5 <= c6 /\ c4 \in Nat /\ c5 \in Nat /\ c6 \in Nat
      BY <2>1, <2>g, <1>n
    <3>3. c6 <= c7 /\ c7 <= c8 /\ c7 \in Nat /\ c8 \in Nat
      BY <2>1, <2>g, <1>f, <1>n
    <3> QED
      BY <3>1, <3>2, <3>3
  <2>k. /\ Kept(w, w1) /\ Kept(w1, w2) /\ Kept(w2, w3) /\ Kept(w3, w4) /\ Kept(w4, w5)
        /\ Kept(w5, w6) /\ Kept(w6, w7) /\ Kept(w7, w8)
    BY <2>3 DEF Wrote
  <2> HIDE DEF b1, b3, b4, b5, b7
  <2>k7. Kept(w7, w8) /\ w7.off <= w8.off
    BY <2>k, <2>o
  <2>k6. Kept(w6, w8) /\ w6.off <= w8.off
    BY <2>k, <2>k7, <2>o, <1>6, <1>i7, KeptTrans
  <2>k5. Kept(w5, w8) /\ w5.off <= w8.off
    BY <2>k, <2>k6, <2>o, <1>i5, <1>6, KeptTrans
  <2>k4. Kept(w4, w8) /\ w4.off <= w8.off
    BY <2>k, <2>k5, <2>o, <1>i4, <1>i5, KeptTrans
  <2>k3. Kept(w3, w8) /\ w3.off <= w8.off
    BY <2>k, <2>k4, <2>o, <1>i3, <1>i4, KeptTrans
  <2>k2. Kept(w2, w8) /\ w2.off <= w8.off
    BY <2>k, <2>k3, <2>o, <1>2, <1>i3, KeptTrans
  <2>k1. Kept(w1, w8) /\ w1.off <= w8.off
    BY <2>k, <2>k2, <2>o, <1>i1, <1>2, KeptTrans
  <2>k0. Kept(w, w8)
    BY <2>k, <2>k1, <2>o, <1>i1, KeptTrans DEF o
  <2>h1. Holds(w8.buf, w.off, b1)
    BY <2>k1, <2>3, <1>i1, <1>8, <1>t, WroteKept
  <2>h2. Holds(w8.buf, w1.off, f.session_id)
    BY <2>k2, <2>3, <1>i1, <1>2, <1>8, <1>t, WroteKept
  <2>h3. Holds(w8.buf, w2.off, b3)
    BY <2>k3, <2>3, <1>2, <1>i3, <1>8, <1>t, WroteKept
  <2>h4. Holds(w8.buf, w3.off, b4)
    BY <2>k4, <2>3, <1>i3, <1>i4, <1>8, <1>t, WroteKept
  <2>h5. Holds(w8.buf, w4.off, b5)
    BY <2>k5, <2>3, <1>i4, <1>i5, <1>8, <1>t, WroteKept
  <2>h6. Holds(w8.buf, w5.off, tb)
    BY <2>k6, <2>3, <1>i5, <1>6, <1>8, <1>t, WroteKept
  <2>h7. Holds(w8.buf, w6.off, b7)
    BY <2>k7, <2>3, <1>6, <1>i7, <1>8, <1>t, WroteKept
  <2>h8. Holds(w8.buf, w7.off, f.payload)
    BY <2>3 DEF Wrote
  <2>f. FrameHeld(w8.buf, o, f)
    BY <2>1, <2>h1, <2>h2, <2>h3, <2>h4, <2>h5, <2>h6, <2>h7, <2>h8
       DEF FrameHeld, b1, b3, b4, b5, b7, tb, o
  <2> QED
    BY <2>1, <2>2, <2>k0, <2>f
<1> QED
  BY <1>a, <1>8, <1>10, <1>11, <1>12 DEF FrameAdded, o, L
----------------------------------------------------------------------------
(* Batches.                                                                *)
Header(frames) ==
    Pack(Put(Put(Writer(PlainSize(frames)), <<0>>), ClientId), Len(frames), CountWidth)
HeaderLen == 1 + ClientIDLen + CountWidth
WriterRec(frames, w) ==
    w = [n \in 0..Len(frames) |-> IF n = 0 THEN Header(frames) ELSE AddFrame(w[n - 1], frames[n])]
WriterTrace(frames, w) ==
    w[0] = Header(frames) /\ \A n \in 1..Len(frames) : w[n] = AddFrame(w[n - 1], frames[n])

LEMMA AddFrameTyped ==
    ASSUME NEW w \in Writers, NEW f \in Frame
    PROVE  AddFrame(w, f) \in Writers
BY AddFrameFacts DEF FrameAdded

LEMMA WriterExists ==
    ASSUME NEW frames \in Seq(Frame), Header(frames) \in Writers
    PROVE  \E w \in [0..Len(frames) -> Writers] : WriterRec(frames, w)
<1> DEFINE N == Len(frames)
           h == Header(frames)
           F == [n \in 1..N |-> [s \in Writers |-> AddFrame(s, frames[n])]]
<1>0. N \in Nat /\ \A n \in 1..N : frames[n] \in Frame
  OBVIOUS
<1>1. \A n \in 1..N : \A s \in Writers : F[n][s] \in Writers
  BY <1>0, AddFrameTyped
<1>2. PICK w \in [0..N -> Writers] : Recurs(F, h, N, w)
  <2> HIDE DEF F, N, h
  <2>1. h \in Writers
    BY DEF h
  <2> QED
    BY <1>0, <1>1, <2>1, TraceExists
<1>3. w[0] = h /\ \A n \in 1..N : w[n] = AddFrame(w[n - 1], frames[n])
  <2>1. \A n \in 1..N : n - 1 \in 0..N
    OBVIOUS
  <2> HIDE DEF h
  <2> QED
    BY <1>2, <2>1 DEF Recurs
<1>4. \A n \in 0..N : n = 0 \/ n \in 1..N
  OBVIOUS
<1>5. WriterRec(frames, w)
  <2> HIDE DEF F
  <2> QED
    BY <1>3, <1>4 DEF WriterRec
<1> QED
  BY <1>5

LEMMA WriterSteps ==
    ASSUME NEW frames, Len(frames) \in Nat, NEW w, WriterRec(frames, w)
    PROVE  WriterTrace(frames, w)
<1> DEFINE G(n) == IF n = 0 THEN Header(frames) ELSE AddFrame(w[n - 1], frames[n])
<1>1. w = [n \in 0..Len(frames) |-> G(n)]
  BY DEF WriterRec
<1> HIDE DEF G
<1>2. \A n \in 0..Len(frames) : w[n] = G(n)
  BY <1>1
<1>3. 0 \in 0..Len(frames) /\ \A n \in 1..Len(frames) : n \in 0..Len(frames) /\ n # 0
  OBVIOUS
<1> QED
  BY <1>2, <1>3 DEF G, WriterTrace

LEMMA PlaintextSteps ==
    ASSUME NEW frames \in Seq(Frame), Header(frames) \in Writers
    PROVE  \E w : WriterTrace(frames, w) /\ Plaintext(frames) = w[Len(frames)]
<1> DEFINE w == CHOOSE v : WriterRec(frames, v)
<1>1. WriterRec(frames, w)
  BY WriterExists
<1>2. Plaintext(frames) = w[Len(frames)]
  BY DEF Plaintext, WriterRec, Header
<1> HIDE DEF w
<1>3. WriterTrace(frames, w)
  BY <1>1, WriterSteps
<1> QED
  BY <1>2, <1>3

(* Where the frames lie, and how much room there is for them.              *)
Offsets(frames, start, at) ==
    at[0] = start /\ \A n \in 1..Len(frames) : at[n] = EndAt(at[n - 1], frames[n])

Announced(frames) == [i \in DOMAIN frames |-> SizeWidth + MarshalSize(frames[i])]
Taken(frames) == [i \in DOMAIN frames |-> SizeWidth + EncodedLen(frames[i])]
Extra(frames) == [i \in DOMAIN frames |-> Len(Utf8(frames[i].target)) - Len(frames[i].target)]

LEMMA SumsTyped ==
    ASSUME NEW frames \in Seq(Frame)
    PROVE  /\ Announced(frames) \in Seq(Int) /\ Len(Announced(frames)) = Len(frames)
           /\ Taken(frames) \in Seq(Int) /\ Len(Taken(frames)) = Len(frames)
           /\ Extra(frames) \in Seq(Int) /\ Len(Extra(frames)) = Len(frames)
<1>1. \A i \in DOMAIN frames :
        /\ SizeWidth + MarshalSize(frames[i]) \in Int
        /\ SizeWidth + EncodedLen(frames[i]) \in Int
        /\ Len(Utf8(frames[i].target)) - Len(frames[i].target) \in Int
  <2> TAKE i \in DOMAIN frames
  <2> DEFINE f == frames[i]
             a == MarshalSize(f)
             b == Len(Utf8(f.target))
             c == Len(f.target)
             d == Len(f.payload)
  <2>1. f \in Frame
    OBVIOUS
  <2> HIDE DEF f
  <2>2. a \in Nat /\ b \in Nat /\ c \in Nat /\ d \in Nat /\ EncodedLen(f) = FieldsLen + b + d
    BY <2>1, FrameFacts
  <2> HIDE DEF a, b, c, d
  <2>3. SizeWidth \in Nat /\ FieldsLen \in Nat
    BY SizeFacts
  <2>4. SizeWidth + a \in Int /\ SizeWidth + EncodedLen(f) \in Int /\ b - c \in Int
    BY <2>2, <2>3
  <2> QED
    BY <2>4 DEF f, a, b, c
<1>2. DOMAIN frames = 1..Len(frames) /\ Len(frames) \in Nat
  OBVIOUS
<1>3. ASSUME NEW q, q \in [1..Len(frames) -> Int]
      PROVE  q \in Seq(Int) /\ Len(q) = Len(frames)
  BY <1>2, <1>3
<1>4. Announced(frames) \in [1..Len(frames) -> Int]
  BY <1>1, <1>2 DEF Announced
<1>5. Taken(frames) \in [1..Len(frames) -> Int]
  BY <1>1, <1>2 DEF Taken
<1>6. Extra(frames) \in [1..Len(frames) -> Int]
  BY <1>1, <1>2 DEF Extra
<1> QED
  BY <1>3, <1>4, <1>5, <1>6

LEMMA EndIs ==
    ASSUME NEW off \in Int, NEW f \in Frame
    PROVE  /\ EndAt(off, f) = off + (SizeWidth + EncodedLen(f))
           /\ PlenAt(off, f) + SizeWidth = EndAt(off, f) - Len(f.payload)
           /\ off < PlenAt(off, f) + SizeWidth
           /\ PlenAt(off, f) + SizeWidth <= EndAt(off, f)
           /\ EncodedLen(f) = MarshalSize(f) + (Len(Utf8(f.target)) - Len(f.target))
           /\ EncodedLen(f) \in Nat /\ MarshalSize(f) \in Nat /\ MarshalSize(f) <= EncodedLen(f)
           /\ Len(f.payload) \in Nat /\ SizeWidth \in Nat
<1> DEFINE x == Len(f.target)
           y == Len(Utf8(f.target))
           z == Len(f.payload)
           m == MarshalSize(f)
           e == EncodedLen(f)
<1>1. /\ x \in Nat /\ y \in Nat /\ z \in Nat /\ m \in Nat /\ m <= e
      /\ m = FieldsLen + x + z /\ e = FieldsLen + y + z
  BY FrameFacts
<1>2. /\ PlenAt(off, f) = off + SizeWidth + SessionIDLen + SeqWidth + 2 + y
      /\ EndAt(off, f) = PlenAt(off, f) + SizeWidth + z
  BY DEF PlenAt, EndAt
<1> HIDE DEF x, y, z, m, e
<1> DEFINE p == PlenAt(off, f)
           q == EndAt(off, f)
<1>3. p = off + SizeWidth + SessionIDLen + SeqWidth + 2 + y /\ q = p + SizeWidth + z
  BY <1>2
<1> HIDE DEF p, q
<1>4. /\ q = off + (SizeWidth + e) /\ p + SizeWidth = q - z /\ off < p + SizeWidth
      /\ p + SizeWidth <= q /\ e = m + (y - x) /\ e \in Nat
  BY <1>1, <1>3, SizeFacts
<1>5. SizeWidth \in Nat
  BY SizeFacts
<1> QED
  BY <1>1, <1>4, <1>5 DEF x, y, z, m, e, p, q

Ascending(at, N) ==
    \A n \in 0..N : at[n] \in Nat /\ \A k \in 0..n : at[k] \in Nat /\ at[k] <= at[n]

LEMMA OffsetsAscend ==
    ASSUME NEW frames \in Seq(Frame), NEW start \in Nat, NEW at, Offsets(frames, start, at)
    PROVE  Ascending(at, Len(frames))
<1> DEFINE N == Len(frames)
           I == {n \in 0..N : at[n] \in Nat /\ \A k \in 0..n : at[k] \in Nat /\ at[k] <= at[n]}
<1>0. N \in Nat
  OBVIOUS
<1>1. 0 \in I
  <2>1. at[0] \in Nat /\ 0 \in 0..N /\ \A k \in 0..0 : k = 0
    BY <1>0 DEF Offsets
  <2> QED
    BY <2>1
<1>2. ASSUME NEW n \in 1..N, n - 1 \in I  PROVE n \in I
  <2> DEFINE x == at[n - 1]
             y == at[n]
  <2>1. x \in Nat /\ \A k \in 0..(n - 1) : at[k] \in Nat /\ at[k] <= x
    BY <1>2
  <2>2. y = EndAt(x, frames[n]) /\ frames[n] \in Frame
    BY DEF Offsets
  <2>4. n \in 0..N /\ \A k \in 0..n : k = n \/ k \in 0..(n - 1)
    OBVIOUS
  <2> HIDE DEF x
  <2>3. y \in Nat /\ x <= y
    <3> DEFINE e == EncodedLen(frames[n])
    <3>1. x \in Int
      BY <2>1
    <3>2. y = x + (SizeWidth + e) /\ e \in Nat /\ SizeWidth \in Nat
      BY <2>2, <3>1, EndIs
    <3> HIDE DEF y, e
    <3> QED
      BY <2>1, <3>2
  <2>5. \A k \in 0..n : at[k] \in Nat /\ at[k] <= y
    <3> TAKE k \in 0..n
    <3>1. CASE k = n
      BY <2>3, <3>1
    <3>2. CASE k \in 0..(n - 1)
      <4>1. at[k] \in Nat /\ at[k] <= x
        BY <2>1, <3>2
      <4> HIDE DEF y
      <4> QED
        BY <2>1, <2>3, <4>1
    <3> QED
      BY <2>4, <3>1, <3>2
  <2> QED
    BY <2>3, <2>4, <2>5
<1> HIDE DEF I
<1>3. \A n \in 0..N : n \in I
  BY <1>0, <1>1, <1>2, InductTo
<1> QED
  BY <1>3 DEF I, Ascending

LEMMA OffsetsExist ==
    ASSUME NEW frames \in Seq(Frame), NEW start \in Nat
    PROVE  \E at : /\ Offsets(frames, start, at)
                   /\ at[Len(frames)] = start + Total(Taken(frames))
<1> DEFINE N == Len(frames)
<1>1. Taken(frames) \in Seq(Int) /\ Len(Taken(frames)) = N /\ N \in Nat
  BY SumsTyped
<1>2. PICK t \in [0..N -> Int] : TotalTrace(Taken(frames), t)
  BY <1>1, TotalExistsTrace
<1>3. Total(Taken(frames)) = t[N]
  BY <1>1, <1>2, TotalIs
<1> DEFINE at == [n \in 0..N |-> start + t[n]]
<1>4. at[0] = start
  BY <1>1, <1>2 DEF TotalTrace
<1>5. ASSUME NEW n \in 1..N  PROVE at[n] = EndAt(at[n - 1], frames[n])
  <2> DEFINE e == EncodedLen(frames[n])
             x == t[n - 1]
  <2>0. n - 1 \in 0..N /\ n \in 0..N /\ frames[n] \in Frame /\ n \in 1..Len(Taken(frames))
        /\ n \in DOMAIN frames
    BY <1>1
  <2>1. t[n] = t[n - 1] + Taken(frames)[n]
    BY <1>2, <2>0 DEF TotalTrace
  <2>2. Taken(frames)[n] = SizeWidth + e
    BY <2>0 DEF Taken
  <2>3. x \in Int /\ at[n - 1] = start + x /\ at[n] = start + (x + (SizeWidth + e))
    BY <2>0, <2>1, <2>2
  <2> HIDE DEF at, x
  <2>4. start + x \in Int
    BY <2>3
  <2>5. EndAt(start + x, frames[n]) = (start + x) + (SizeWidth + e) /\ e \in Nat /\ SizeWidth \in Nat
    BY <2>0, <2>4, EndIs
  <2> HIDE DEF e
  <2>6. (start + x) + (SizeWidth + e) = start + (x + (SizeWidth + e))
    BY <2>3, <2>5
  <2> QED
    BY <2>3, <2>5, <2>6
<1>6. at[N] = start + Total(Taken(frames))
  BY <1>1, <1>3
<1> HIDE DEF at
<1>7. Offsets(frames, start, at)
  BY <1>4, <1>5 DEF Offsets
<1> QED
  BY <1>6, <1>7

(* What the targets have more bytes than characters is what the frames     *)
(* take more than was announced for them.                                  *)
LEMMA SumsDiffer ==
    ASSUME NEW frames \in Seq(Frame)
    PROVE  /\ Total(Taken(frames)) = Total(Announced(frames)) + Total(Extra(frames))
           /\ Total(Announced(frames)) \in Nat /\ Total(Extra(frames)) \in Nat
<1> DEFINE N == Len(frames)
           A == Announced(frames)
           T == Taken(frames)
           E == Extra(frames)
<1>1. /\ A \in Seq(Int) /\ T \in Seq(Int) /\ E \in Seq(Int)
      /\ Len(A) = N /\ Len(T) = N /\ Len(E) = N /\ N \in Nat
  BY SumsTyped
<1>5. ASSUME NEW n \in 1..N
      PROVE  T[n] = A[n] + E[n] /\ A[n] \in Nat /\ E[n] \in Nat
  <2> DEFINE f == frames[n]
             a == MarshalSize(f)
             b == Len(Utf8(f.target))
             c == Len(f.target)
             e == EncodedLen(f)
  <2>0. f \in Frame /\ n \in DOMAIN frames
    BY <1>1
  <2>1. A[n] = SizeWidth + a /\ E[n] = b - c /\ T[n] = SizeWidth + e
    BY <2>0 DEF Announced, Extra, Taken
  <2> HIDE DEF f, A, E, T
  <2>2. a \in Nat /\ b \in Nat /\ c \in Nat /\ c <= b
    BY <2>0, FrameFacts
  <2>3. e = a + (b - c) /\ SizeWidth \in Nat
    <3>1. 0 \in Int
      OBVIOUS
    <3> QED
      BY <2>0, <3>1, EndIs
  <2> HIDE DEF a, b, c, e
  <2> QED
    BY <2>1, <2>2, <2>3
<1> HIDE DEF A, T, E
<1>2. PICK a \in [0..N -> Int] : TotalTrace(A, a)
  BY <1>1, TotalExistsTrace
<1>3. PICK t \in [0..N -> Int] : TotalTrace(T, t)
  BY <1>1, TotalExistsTrace
<1>4. PICK e \in [0..N -> Int] : TotalTrace(E, e)
  BY <1>1, TotalExistsTrace
<1>6. Total(A) = a[N] /\ Total(T) = t[N] /\ Total(E) = e[N]
  BY <1>1, <1>2, <1>3, <1>4, TotalIs
<1> DEFINE I == {n \in 0..N : t[n] = a[n] + e[n] /\ a[n] \in Nat /\ e[n] \in Nat}
<1>7. 0 \in I
  BY <1>1, <1>2, <1>3, <1>4 DEF TotalTrace
<1>8. ASSUME NEW n \in 1..N, n - 1 \in I  PROVE n \in I
  <2>1. t[n] = t[n - 1] + T[n] /\ a[n] = a[n - 1] + A[n] /\ e[n] = e[n - 1] + E[n]
    BY <1>1, <1>2, <1>3, <1>4 DEF TotalTrace
  <2>2. t[n - 1] = a[n - 1] + e[n - 1] /\ a[n - 1] \in Nat /\ e[n - 1] \in Nat /\ n \in 0..N
    BY <1>8
  <2>3. T[n] = A[n] + E[n] /\ A[n] \in Nat /\ E[n] \in Nat
    BY <1>5
  <2>4. t[n] = a[n] + e[n] /\ a[n] \in Nat /\ e[n] \in Nat
    <3> DEFINE x == a[n - 1]
               y == e[n - 1]
               c == A[n]
               d == E[n]
    <3>1. /\ x \in Nat /\ y \in Nat /\ c \in Nat /\ d \in Nat
          /\ t[n] = (x + y) + (c + d) /\ a[n] = x + c /\ e[n] = y + d
      BY <2>1, <2>2, <2>3
    <3> HIDE DEF x, y, c, d
    <3> QED
      BY <3>1
  <2> QED
    BY <2>2, <2>4
<1> HIDE DEF I
<1>9. \A n \in 0..N : n \in I
  BY <1>1, <1>7, <1>8, InductTo
<1>10. N \in I
  BY <1>1, <1>9
<1> QED
  BY <1>6, <1>10 DEF I, A, E, T

LEMMA WriterTyped ==
    ASSUME NEW size \in Nat
    PROVE  /\ Writer(size) \in Writers /\ Writer(size).ok = TRUE
           /\ Writer(size).off = 0 /\ Len(Writer(size).buf) = size
<1> DEFINE buf == [i \in 1..size |-> 0]
<1>1. buf \in Seq(Byte) /\ Len(buf) = size
  BY BaseFacts
<1>2. Writer(size) = [buf |-> buf, off |-> 0, ok |-> TRUE]
  BY DEF Writer
<1> HIDE DEF buf
<1> QED
  BY <1>1, <1>2 DEF Writers

LEMMA PlainSizeIs ==
    ASSUME NEW frames \in Seq(Frame)
    PROVE  /\ PlainSize(frames) = HeaderLen + Total(Announced(frames))
           /\ PlainSize(frames) \in Nat /\ HeaderLen <= PlainSize(frames)
           /\ HeaderLen = 1 + ClientIDLen + CountWidth /\ HeaderLen \in Nat
<1>1. PlainSize(frames) = HeaderLen + Total(Announced(frames))
  BY DEF PlainSize, HeaderLen, Announced
<1>2. HeaderLen = 1 + ClientIDLen + CountWidth /\ HeaderLen \in Nat
  BY SizeFacts DEF HeaderLen
<1>3. Total(Announced(frames)) \in Nat
  BY SumsDiffer
<1> QED
  BY <1>1, <1>2, <1>3

HeaderHeld(p, n) ==
    Holds(p, 1, ClientId) /\ Holds(p, 1 + ClientIDLen, BigEndian[CountWidth][n])

LEMMA ClientIdTyped == ClientId \in Seq(Byte) /\ Len(ClientId) = ClientIDLen
<1>1. ClientId \in [1..ClientIDLen -> Byte] /\ ClientIDLen \in Nat
  BY CodecAssumption, SizeFacts DEF Byte
<1> QED
  BY <1>1

LEMMA HeaderFacts ==
    ASSUME NEW frames \in Seq(Frame)
    PROVE  LET h == Header(frames)
           IN  /\ h \in Writers
               /\ h.ok <=> Len(frames) < Power[CountWidth]
               /\ h.ok => /\ h.off = HeaderLen /\ Len(h.buf) = PlainSize(frames)
                          /\ HeaderHeld(h.buf, Len(frames))
<1> DEFINE N == Len(frames)
           size == PlainSize(frames)
           zero == <<0>>
           w0 == Writer(size)
           w1 == Put(w0, zero)
           w2 == Put(w1, ClientId)
           w3 == Pack(w2, N, CountWidth)
           b == BigEndian[CountWidth][N]
<1>h. Header(frames) = w3
  BY DEF Header
<1>n. N \in Nat /\ size \in Nat /\ HeaderLen <= size /\ HeaderLen = 1 + ClientIDLen + CountWidth
  BY PlainSizeIs
<1>t. /\ zero \in Seq(Byte) /\ Len(zero) = 1
      /\ ClientId \in Seq(Byte) /\ Len(ClientId) = ClientIDLen
      /\ b \in Seq(Byte) /\ Len(b) = CountWidth
      /\ ClientIDLen \in Nat /\ CountWidth \in Nat
  <2>1. zero \in Seq(Byte) /\ Len(zero) = 1
    BY BaseFacts
  <2>2. b \in Seq(Byte) /\ Len(b) = CountWidth
    BY <1>n, SizeFacts, BigEndianFacts
  <2> QED
    BY <2>1, <2>2, ClientIdTyped, SizeFacts
<1>0. w0 \in Writers /\ w0.ok = TRUE /\ w0.off = 0 /\ Len(w0.buf) = size
  BY <1>n, WriterTyped
<1> HIDE DEF w0, zero, N, size
<1>1. w1 \in Writers /\ w1.ok = w0.ok /\ Wrote(w0, w1, zero)
  BY <1>0, <1>t, PutFacts
<1> HIDE DEF w1
<1>2. w2 \in Writers /\ w2.ok = w1.ok /\ Wrote(w1, w2, ClientId)
  BY <1>1, <1>t, PutFacts
<1> HIDE DEF w2
<1>3. Packed(w2, w3, N, CountWidth)
  BY <1>2, <1>n, <1>t, PackFacts
<1> HIDE DEF w3
<1>4. w1.off = 1 /\ Len(w1.buf) = size
  <2>1. w1.off = 0 + 1 /\ Len(w1.buf) = Larger(size, w1.off)
    BY <1>0, <1>1, <1>t DEF Wrote
  <2> QED
    BY <2>1, <1>n, <1>t DEF Larger
<1>5. w2.off = 1 + ClientIDLen /\ Len(w2.buf) = size
  <2>1. w2.off = 1 + ClientIDLen /\ Len(w2.buf) = Larger(size, w2.off)
    BY <1>2, <1>4, <1>t DEF Wrote
  <2> QED
    BY <2>1, <1>n, <1>t DEF Larger
<1>6. w3 \in Writers /\ (w3.ok <=> N < Power[CountWidth])
  <2>1. w2.off + CountWidth <= Len(w2.buf)
    BY <1>5, <1>n
  <2> QED
    BY <1>0, <1>1, <1>2, <1>3, <2>1 DEF Packed
<1>7. ASSUME w3.ok
      PROVE  w3.off = HeaderLen /\ Len(w3.buf) = size /\ HeaderHeld(w3.buf, N)
  <2>1. Wrote(w2, w3, b) /\ Len(w3.buf) = size /\ w3.off = HeaderLen
    BY <1>3, <1>5, <1>7, <1>n DEF Packed
  <2>2. Holds(w3.buf, 1 + ClientIDLen, b)
    BY <1>5, <2>1 DEF Wrote
  <2>3. Kept(w2, w3) /\ w2.off <= w3.off
    BY <1>5, <2>1, <1>n, <1>t DEF Wrote
  <2>4. Holds(w3.buf, w1.off, ClientId)
    BY <1>1, <1>2, <1>6, <1>t, <2>3, WroteKept
  <2> QED
    BY <1>4, <2>1, <2>2, <2>4 DEF HeaderHeld, b
<1> QED
  BY <1>h, <1>6, <1>7 DEF N, size

(* What is in front of the offset stays.                                   *)
LEMMA FrameHeldKept ==
    ASSUME NEW w \in Writers, NEW w2 \in Writers, Kept(w, w2), w.off <= w2.off,
           NEW off \in Nat, NEW f \in Frame, FrameHeld(w.buf, off, f), EndAt(off, f) <= w.off
    PROVE  FrameHeld(w2.buf, off, f)
<1> DEFINE tb == Utf8(f.target)
           P == f.payload
           b1 == BigEndian[SizeWidth][MarshalSize(f)]
           b3 == BigEndian[SeqWidth][f.seq]
           b4 == BigEndian[1][f.flags]
           b5 == BigEndian[1][Len(tb)]
           b7 == BigEndian[SizeWidth][Len(P)]
           fo == FlagsOff(off)
           pl == PlenAt(off, f)
<1>1. /\ tb \in Seq(Byte) /\ f.session_id \in Seq(Byte) /\ P \in Seq(Byte)
      /\ Len(f.session_id) = SessionIDLen /\ Len(tb) \in Nat /\ Len(P) \in Nat
  BY FrameFacts
<1>2. /\ b1 \in Seq(Byte) /\ Len(b1) = SizeWidth
      /\ b3 \in Seq(Byte) /\ Len(b3) = SeqWidth
      /\ b4 \in Seq(Byte) /\ Len(b4) = 1
      /\ b5 \in Seq(Byte) /\ Len(b5) = 1
      /\ b7 \in Seq(Byte) /\ Len(b7) = SizeWidth
  <2>1. MarshalSize(f) \in Nat /\ f.seq \in Nat /\ f.flags \in Nat
    BY FrameFacts
  <2>2. 1 \in Nat /\ SizeWidth \in Nat /\ SeqWidth \in Nat
    BY SizeFacts
  <2> HIDE DEF tb, P
  <2> QED
    BY <1>1, <2>1, <2>2, BigEndianFacts
<1>3. /\ fo = off + SizeWidth + SessionIDLen + SeqWidth /\ pl = fo + 2 + Len(tb)
      /\ EndAt(off, f) = pl + SizeWidth + Len(P)
  <2>1. /\ fo = off + SizeWidth + SessionIDLen + SeqWidth
        /\ pl = off + SizeWidth + SessionIDLen + SeqWidth + 2 + Len(tb)
        /\ EndAt(off, f) = pl + SizeWidth + Len(P)
    BY DEF FlagsOff, PlenAt, EndAt
  <2> HIDE DEF fo, pl, tb, P
  <2> QED
    BY <2>1, <1>1, SizeFacts
<1>4. /\ Holds(w.buf, off, b1) /\ Holds(w.buf, off + SizeWidth, f.session_id)
      /\ Holds(w.buf, off + SizeWidth + SessionIDLen, b3)
      /\ Holds(w.buf, fo, b4) /\ Holds(w.buf, fo + 1, b5) /\ Holds(w.buf, fo + 2, tb)
      /\ Holds(w.buf, pl, b7) /\ Holds(w.buf, pl + SizeWidth, P)
  BY DEF FrameHeld
<1> DEFINE a == Len(tb)
           c == Len(P)
           o == w.off
<1>5. a \in Nat /\ c \in Nat /\ pl = fo + 2 + a /\ pl + SizeWidth + c <= o /\ o \in Nat
  BY <1>1, <1>3, WriterFields
<1> HIDE DEF tb, P, b1, b3, b4, b5, b7, fo, pl, a, c, o
<1>6. /\ fo \in Nat /\ fo + 1 \in Nat /\ fo + 2 \in Nat /\ pl \in Nat /\ pl + SizeWidth \in Nat
      /\ off + SizeWidth \in Nat /\ off + SizeWidth + SessionIDLen \in Nat
      /\ off + SizeWidth <= o /\ off + SizeWidth + SessionIDLen <= o
      /\ off + SizeWidth + SessionIDLen + SeqWidth <= o
      /\ fo + 1 <= o /\ (fo + 1) + 1 <= o /\ (fo + 2) + a <= o /\ pl + SizeWidth <= o
      /\ (pl + SizeWidth) + c <= o
  BY <1>3, <1>5, SizeFacts
<1>7. Holds(w2.buf, off, b1)
  BY <1>2, <1>4, <1>6, HeldKept DEF o
<1>8. Holds(w2.buf, off + SizeWidth, f.session_id)
  BY <1>1, <1>4, <1>6, HeldKept DEF o
<1>9. Holds(w2.buf, off + SizeWidth + SessionIDLen, b3)
  BY <1>2, <1>4, <1>6, HeldKept DEF o
<1>10. Holds(w2.buf, fo, b4)
  BY <1>2, <1>4, <1>6, HeldKept DEF o
<1>11. Holds(w2.buf, fo + 1, b5)
  BY <1>2, <1>4, <1>6, HeldKept DEF o
<1>12. Holds(w2.buf, fo + 2, tb)
  BY <1>1, <1>4, <1>6, HeldKept DEF o, a
<1>13. Holds(w2.buf, pl, b7)
  BY <1>2, <1>4, <1>6, HeldKept DEF o
<1>14. Holds(w2.buf, pl + SizeWidth, P)
  BY <1>1, <1>4, <1>6, HeldKept DEF o, c
<1> QED
  BY <1>7, <1>8, <1>9, <1>10, <1>11, <1>12, <1>13, <1>14
     DEF FrameHeld, tb, P, b1, b3, b4, b5, b7, fo, pl

(* The first n frames have been written, if there was room for them.       *)
Room(frames, at, n) ==
    \A k \in 1..n : /\ NumbersFit(frames[k])
                   /\ PlenAt(at[k - 1], frames[k]) + SizeWidth <= PlainSize(frames)
Lie(p, frames, at, n) == \A k \in 1..n : FrameHeld(p, at[k - 1], frames[k])
Written(frames, at, w, n) ==
    /\ w \in Writers
    /\ w.ok <=> Len(frames) < Power[CountWidth] /\ Room(frames, at, n)
    /\ w.ok => /\ w.off = at[n]
               /\ Len(w.buf) = Larger(PlainSize(frames), w.off)
               /\ HeaderHeld(w.buf, Len(frames))
               /\ Lie(w.buf, frames, at, n)

LEMMA WrittenFirst ==
    ASSUME NEW frames \in Seq(Frame), NEW at, Offsets(frames, HeaderLen, at)
    PROVE  Written(frames, at, Header(frames), 0)
<1> DEFINE h == Header(frames)
<1>1. /\ h \in Writers
      /\ h.ok <=> Len(frames) < Power[CountWidth]
      /\ h.ok => /\ h.off = HeaderLen /\ Len(h.buf) = PlainSize(frames)
                 /\ HeaderHeld(h.buf, Len(frames))
  BY HeaderFacts
<1>2. PlainSize(frames) \in Nat /\ HeaderLen <= PlainSize(frames) /\ HeaderLen \in Nat
  BY PlainSizeIs
<1>3. at[0] = HeaderLen
  BY DEF Offsets
<1>4. Larger(PlainSize(frames), HeaderLen) = PlainSize(frames)
  BY <1>2 DEF Larger
<1>5. \A k \in 1..0 : FALSE
  OBVIOUS
<1> HIDE DEF h
<1>6. Room(frames, at, 0) /\ Lie(h.buf, frames, at, 0)
  BY <1>5 DEF Room, Lie
<1>7. Written(frames, at, h, 0)
  BY <1>1, <1>3, <1>4, <1>6 DEF Written
<1> QED
  BY <1>7 DEF h

LEMMA WrittenStep ==
    ASSUME NEW frames \in Seq(Frame), NEW at, Offsets(frames, HeaderLen, at),
           NEW n \in 1..Len(frames), NEW w, Written(frames, at, w, n - 1)
    PROVE  Written(frames, at, AddFrame(w, frames[n]), n)
<1> DEFINE f == frames[n]
           w2 == AddFrame(w, f)
           S == PlainSize(frames)
           x == at[n - 1]
           y == at[n]
<1>0. f \in Frame /\ w \in Writers /\ Ascending(at, Len(frames)) /\ HeaderLen \in Nat
  BY OffsetsAscend, PlainSizeIs DEF Written
<1>1. FrameAdded(w, w2, f)
  BY <1>0, AddFrameFacts
<1>2. y = EndAt(x, f)
  BY DEF Offsets
<1>3. x \in Nat /\ y \in Nat /\ x <= y /\ S \in Nat
  <2>1. n - 1 \in 0..Len(frames) /\ n \in 0..Len(frames) /\ n - 1 \in 0..n
    OBVIOUS
  <2> QED
    BY <1>0, <2>1, PlainSizeIs DEF Ascending
<1>e. x < PlenAt(x, f) + SizeWidth /\ PlenAt(x, f) + SizeWidth <= y
      /\ PlenAt(x, f) + SizeWidth \in Int
  <2> DEFINE p == PlenAt(x, f)
             z == Len(f.payload)
  <2>1. x \in Int
    BY <1>3
  <2>2. x < p + SizeWidth /\ p + SizeWidth <= y /\ p + SizeWidth = y - z /\ z \in Nat
    <3> HIDE DEF f, x, y
    <3> QED
      BY <1>0, <1>2, <2>1, EndIs
  <2> HIDE DEF p, z, x, y, f
  <2> QED
    BY <2>2, <1>3 DEF p
<1>4. \A k \in 1..n : k = n \/ k \in 1..(n - 1)
  OBVIOUS
<1>4a. n \in 1..n /\ \A k \in 1..(n - 1) : k \in 1..n
  OBVIOUS
<1>5. /\ w.ok <=> Len(frames) < Power[CountWidth] /\ Room(frames, at, n - 1)
      /\ w.ok => /\ w.off = x
                 /\ Len(w.buf) = Larger(S, w.off)
                 /\ HeaderHeld(w.buf, Len(frames))
                 /\ Lie(w.buf, frames, at, n - 1)
  BY DEF Written
<1>r. Room(frames, at, n) <=>
        Room(frames, at, n - 1) /\ NumbersFit(f) /\ PlenAt(x, f) + SizeWidth <= S
  BY <1>4, <1>4a DEF Room
<1>6. /\ w2 \in Writers
      /\ w2.ok <=> w.ok /\ NumbersFit(f) /\ PlenAt(w.off, f) + SizeWidth <= Len(w.buf)
      /\ w2.ok => /\ w2.off = EndAt(w.off, f)
                  /\ Len(w2.buf) = Larger(Len(w.buf), w2.off)
                  /\ Kept(w, w2)
                  /\ FrameHeld(w2.buf, w.off, f)
  BY <1>1 DEF FrameAdded
<1> HIDE DEF w2, S, x, y, f
<1>7. w.ok => (PlenAt(w.off, f) + SizeWidth <= Len(w.buf) <=> PlenAt(x, f) + SizeWidth <= S)
  <2> SUFFICES ASSUME w.ok
               PROVE  PlenAt(w.off, f) + SizeWidth <= Len(w.buf) <=> PlenAt(x, f) + SizeWidth <= S
    OBVIOUS
  <2>1. w.off = x /\ Len(w.buf) = Larger(S, x)
    BY <1>5
  <2> DEFINE p == PlenAt(x, f) + SizeWidth
  <2>2. p \in Int /\ x < p
    BY <1>e
  <2> HIDE DEF p
  <2>3. p <= Larger(S, x) <=> p <= S
    BY <2>2, <1>3 DEF Larger
  <2> QED
    BY <2>1, <2>3 DEF p
<1>8. w2.ok <=> Len(frames) < Power[CountWidth] /\ Room(frames, at, n)
  BY <1>5, <1>6, <1>7, <1>r
<1>9. ASSUME w2.ok
      PROVE  /\ w2.off = y /\ Len(w2.buf) = Larger(S, y)
             /\ HeaderHeld(w2.buf, Len(frames)) /\ Lie(w2.buf, frames, at, n)
  <2>1. w.ok /\ w.off = x /\ Len(w.buf) = Larger(S, x) /\ HeaderHeld(w.buf, Len(frames))
        /\ Lie(w.buf, frames, at, n - 1)
    BY <1>5, <1>6, <1>9
  <2>2. w2.off = y /\ Len(w2.buf) = Larger(Len(w.buf), y) /\ Kept(w, w2) /\ FrameHeld(w2.buf, x, f)
    BY <1>2, <1>6, <1>9, <2>1
  <2>3. Len(w2.buf) = Larger(S, y)
    BY <2>1, <2>2, <1>3 DEF Larger
  <2>4. w.off <= w2.off
    BY <2>1, <2>2, <1>3
  <2>5. HeaderHeld(w2.buf, Len(frames))
    <3> DEFINE b == BigEndian[CountWidth][Len(frames)]
    <3>1. Len(frames) \in Nat /\ CountWidth \in Nat /\ ClientIDLen \in Nat
      BY SizeFacts
    <3>2. b \in Seq(Byte) /\ Len(b) = CountWidth
      BY <3>1, BigEndianFacts
    <3> HIDE DEF b
    <3>3. at[0] = HeaderLen /\ at[0] <= x
      <4>1. n - 1 \in 0..Len(frames) /\ 0 \in 0..(n - 1)
        OBVIOUS
      <4> QED
        BY <1>0, <4>1 DEF Ascending, Offsets, x
    <3>4. 1 \in Nat /\ 1 + ClientIDLen \in Nat /\ 1 + ClientIDLen <= w.off
          /\ 1 + ClientIDLen + CountWidth <= w.off
      BY <1>3, <2>1, <3>1, <3>3 DEF HeaderLen
    <3>5. Holds(w.buf, 1, ClientId) /\ Holds(w.buf, 1 + ClientIDLen, b)
      BY <2>1 DEF HeaderHeld, b
    <3>6. Holds(w2.buf, 1, ClientId)
      BY <1>0, <1>6, <2>2, <2>4, <3>4, <3>5, ClientIdTyped, HeldKept
    <3>7. Holds(w2.buf, 1 + ClientIDLen, b)
      BY <1>0, <1>6, <2>2, <2>4, <3>2, <3>4, <3>5, HeldKept
    <3> QED
      BY <3>6, <3>7 DEF HeaderHeld, b
  <2>6. Lie(w2.buf, frames, at, n)
    <3> SUFFICES ASSUME NEW k \in 1..n
                 PROVE  FrameHeld(w2.buf, at[k - 1], frames[k])
      BY DEF Lie
    <3>1. CASE k = n
      BY <2>2, <3>1 DEF x, f
    <3>2. CASE k \in 1..(n - 1)
      <4>1. FrameHeld(w.buf, at[k - 1], frames[k])
        BY <2>1, <3>2 DEF Lie
      <4>2. k \in 1..Len(frames) /\ k - 1 \in 0..Len(frames) /\ k \in 0..(n - 1)
            /\ n - 1 \in 0..Len(frames)
        BY <3>2
      <4>3. EndAt(at[k - 1], frames[k]) = at[k] /\ at[k] <= x /\ at[k - 1] \in Nat
        BY <1>0, <4>2 DEF Ascending, Offsets, x
      <4>4. frames[k] \in Frame /\ EndAt(at[k - 1], frames[k]) <= w.off
        BY <2>1, <4>2, <4>3
      <4> QED
        BY <1>0, <1>6, <2>2, <2>4, <4>1, <4>3, <4>4, FrameHeldKept
    <3> QED
      BY <1>4, <3>1, <3>2
  <2> QED
    BY <2>2, <2>3, <2>5, <2>6
<1>10. Written(frames, at, w2, n)
  BY <1>6, <1>8, <1>9 DEF Written, S, y
<1> QED
  BY <1>10 DEF w2, f

LEMMA RoomIsEncodable ==
    ASSUME NEW frames \in Seq(Frame), NEW at, Offsets(frames, HeaderLen, at),
           at[Len(frames)] = HeaderLen + Total(Taken(frames))
    PROVE  Encodable(frames) <=>
             Len(frames) < Power[CountWidth] /\ Room(frames, at, Len(frames))
<1> DEFINE N == Len(frames)
           S == PlainSize(frames)
           l == frames[N]
           z == Len(l.payload)
           E == Total(Extra(frames))
           A == Total(Announced(frames))
           P(k) == PlenAt(at[k - 1], frames[k]) + SizeWidth
<1>0. N \in Nat /\ Ascending(at, N) /\ A \in Nat /\ E \in Nat /\ HeaderLen \in Nat
      /\ S = HeaderLen + A /\ at[N] = HeaderLen + (A + E) /\ S \in Nat
  BY OffsetsAscend, SumsDiffer, PlainSizeIs
<1>1. ASSUME NEW k \in 1..N
      PROVE  /\ frames[k] \in Frame /\ at[k - 1] < P(k) /\ P(k) <= at[k]
             /\ P(k) = at[k] - Len(frames[k].payload) /\ Len(frames[k].payload) \in Nat
             /\ P(k) \in Int /\ at[k - 1] \in Nat /\ at[k] \in Nat
  <2> DEFINE f == frames[k]
             x == at[k - 1]
             y == at[k]
             p == PlenAt(x, f)
             q == Len(f.payload)
  <2>1. k \in 0..N /\ k - 1 \in 0..N /\ f \in Frame
    BY <1>0
  <2>2. x \in Nat /\ y \in Nat /\ y = EndAt(x, f)
    BY <1>0, <2>1 DEF Ascending, Offsets
  <2>3. x \in Int
    BY <2>2
  <2>4. x < p + SizeWidth /\ p + SizeWidth <= y /\ p + SizeWidth = y - q /\ q \in Nat
    <3> HIDE DEF f, x, y
    <3> QED
      BY <2>1, <2>2, <2>3, EndIs
  <2>5. p + SizeWidth \in Int
    <3> HIDE DEF p, q, x, y, f
    <3> QED
      BY <2>2, <2>4
  <2> QED
    BY <2>1, <2>2, <2>4, <2>5
<1>2. /\ Encodable(frames) <=>
           N < Power[CountWidth] /\ (\A k \in 1..N : NumbersFit(frames[k]))
           /\ (N # 0 => E <= z)
      /\ Room(frames, at, N) <=>
           (\A k \in 1..N : NumbersFit(frames[k])) /\ \A k \in 1..N : P(k) <= S
  <2>1. DOMAIN frames = 1..N /\ (frames # <<>> <=> N # 0) /\ Last(frames) = l
    BY DEF Last
  <2>2. Surplus(frames) = E
    BY DEF Surplus, Extra
  <2> HIDE DEF l, E, N, S
  <2> QED
    BY <2>1, <2>2 DEF Encodable, Room, NumbersFit, N, S
<1> SUFFICES (\A k \in 1..N : P(k) <= S) <=> (N # 0 => E <= z)
  BY <1>2
<1>3. CASE N = 0
  BY <1>3
<1>4. CASE N # 0
  <2>1. N \in 1..N
    BY <1>0, <1>4
  <2>2. P(N) = at[N] - z /\ z \in Nat /\ P(N) \in Int
    BY <1>1, <2>1
  <2> HIDE DEF z, E, A, S
  <2>3. P(N) <= S <=> E <= z
    <3> DEFINE p == P(N)
    <3>1. p = (HeaderLen + (A + E)) - z
      BY <1>0, <2>2
    <3> HIDE DEF p
    <3>2. p <= S <=> E <= z
      BY <1>0, <2>2, <3>1
    <3> QED
      BY <3>2 DEF p
  <2>4. ASSUME P(N) <= S, NEW k \in 1..N  PROVE P(k) <= S
    <3> DEFINE p == P(k)
               m == P(N)
               x == at[k]
               y == at[N - 1]
    <3>1. CASE k = N
      BY <2>4, <3>1
    <3>2. CASE k # N
      <4>1. N - 1 \in 0..N /\ k \in 0..(N - 1)
        BY <1>0, <2>1, <3>2
      <4>2. x <= y /\ x \in Nat /\ y \in Nat
        BY <1>0, <1>1, <2>1, <4>1 DEF Ascending
      <4>3. p <= x /\ y < m /\ p \in Int /\ m \in Int /\ m <= S
        BY <1>1, <2>1, <2>4
      <4> HIDE DEF p, m, x, y
      <4>4. p <= S
        BY <1>0, <4>2, <4>3
      <4> QED
        BY <4>4 DEF p
    <3> QED
      BY <3>1, <3>2
  <2> HIDE DEF P
  <2> QED
    BY <1>4, <2>1, <2>3, <2>4
<1> QED
  BY <1>3, <1>4

LEMMA HoldsTail ==
    ASSUME NEW p \in Seq(Byte), NEW off \in Nat, NEW b \in Seq(Byte),
           NEW o, o = off + 1, Holds(p, o, b), Len(p) > 0
    PROVE  Holds(Tail(p), off, b)
<1>1. Len(Tail(p)) = Len(p) - 1 /\ Len(p) \in Nat /\ Len(b) \in Nat
  BY DEF Holds
<1>2. \A i \in 1..(Len(p) - 1) : Tail(p)[i] = p[i + 1]
  OBVIOUS
<1>3. (off + 1) + Len(b) <= Len(p) /\ \A i \in 1..Len(b) : p[(off + 1) + i] = b[i]
  BY DEF Holds
<1>4. off + Len(b) <= Len(Tail(p))
  BY <1>1, <1>3
<1>5. \A i \in 1..Len(b) : off + i \in 1..(Len(p) - 1) /\ (off + i) + 1 = (off + 1) + i
  BY <1>1, <1>3
<1>6. \A i \in 1..Len(b) : Tail(p)[off + i] = b[i]
  BY <1>2, <1>3, <1>5
<1> QED
  BY <1>4, <1>6 DEF Holds

LEMMA FrameHeldTail ==
    ASSUME NEW p \in Seq(Byte), Len(p) > 0, NEW off \in Nat, NEW f \in Frame,
           FrameHeld(p, off + 1, f)
    PROVE  FrameHeld(Tail(p), off, f)
<1> DEFINE tb == Utf8(f.target)
           b1 == BigEndian[SizeWidth][MarshalSize(f)]
           b3 == BigEndian[SeqWidth][f.seq]
           b4 == BigEndian[1][f.flags]
           b5 == BigEndian[1][Len(tb)]
           b7 == BigEndian[SizeWidth][Len(f.payload)]
           fo == FlagsOff(off)
           pl == PlenAt(off, f)
           a  == Len(tb)
           o  == off + 1
<1>1. /\ tb \in Seq(Byte) /\ f.session_id \in Seq(Byte) /\ f.payload \in Seq(Byte)
      /\ b1 \in Seq(Byte) /\ b3 \in Seq(Byte) /\ b4 \in Seq(Byte) /\ b5 \in Seq(Byte)
      /\ b7 \in Seq(Byte)
  BY FrameFacts, SizeFacts, BigEndianFacts
<1>2. /\ fo = off + SizeWidth + SessionIDLen + SeqWidth
      /\ FlagsOff(o) = o + SizeWidth + SessionIDLen + SeqWidth
      /\ pl = off + SizeWidth + SessionIDLen + SeqWidth + 2 + a
      /\ PlenAt(o, f) = o + SizeWidth + SessionIDLen + SeqWidth + 2 + a
      /\ a \in Nat
  BY FrameFacts DEF FlagsOff, PlenAt
<1>3. /\ Holds(p, o, b1) /\ Holds(p, o + SizeWidth, f.session_id)
      /\ Holds(p, o + SizeWidth + SessionIDLen, b3)
      /\ Holds(p, FlagsOff(o), b4) /\ Holds(p, FlagsOff(o) + 1, b5)
      /\ Holds(p, FlagsOff(o) + 2, tb)
      /\ Holds(p, PlenAt(o, f), b7) /\ Holds(p, PlenAt(o, f) + SizeWidth, f.payload)
  BY DEF FrameHeld
<1> DEFINE fo2 == FlagsOff(o)
           pl2 == PlenAt(o, f)
<1> HIDE DEF tb, b1, b3, b4, b5, b7, fo, pl, a, fo2, pl2
<1>4. fo2 = fo + 1 /\ pl2 = pl + 1 /\ fo \in Nat /\ pl \in Nat
  BY <1>2, SizeFacts DEF fo2, pl2
<1>5. /\ fo2 + 1 = (fo + 1) + 1 /\ fo2 + 2 = (fo + 2) + 1
      /\ pl2 + SizeWidth = (pl + SizeWidth) + 1
      /\ o + SizeWidth = (off + SizeWidth) + 1
      /\ o + SizeWidth + SessionIDLen = (off + SizeWidth + SessionIDLen) + 1
      /\ fo + 1 \in Nat /\ fo + 2 \in Nat /\ pl + SizeWidth \in Nat
      /\ off + SizeWidth \in Nat /\ off + SizeWidth + SessionIDLen \in Nat
  BY <1>4, SizeFacts
<1>6. /\ Holds(p, o, b1) /\ Holds(p, o + SizeWidth, f.session_id)
      /\ Holds(p, o + SizeWidth + SessionIDLen, b3)
      /\ Holds(p, fo2, b4) /\ Holds(p, fo2 + 1, b5) /\ Holds(p, fo2 + 2, tb)
      /\ Holds(p, pl2, b7) /\ Holds(p, pl2 + SizeWidth, f.payload)
  BY <1>3 DEF fo2, pl2
<1>7. Holds(Tail(p), off, b1)
  BY <1>1, <1>6, HoldsTail
<1>8. Holds(Tail(p), off + SizeWidth, f.session_id)
  BY <1>1, <1>5, <1>6, HoldsTail
<1>9. Holds(Tail(p), off + SizeWidth + SessionIDLen, b3)
  BY <1>1, <1>5, <1>6, HoldsTail
<1>10. Holds(Tail(p), fo, b4)
  BY <1>1, <1>4, <1>6, HoldsTail
<1>11. Holds(Tail(p), fo + 1, b5)
  BY <1>1, <1>5, <1>6, HoldsTail
<1>12. Holds(Tail(p), fo + 2, tb)
  BY <1>1, <1>5, <1>6, HoldsTail
<1>13. Holds(Tail(p), pl, b7)
  BY <1>1, <1>4, <1>6, HoldsTail
<1>14. Holds(Tail(p), pl + SizeWidth, f.payload)
  BY <1>1, <1>5, <1>6, HoldsTail
<1> QED
  BY <1>7, <1>8, <1>9, <1>10, <1>11, <1>12, <1>13, <1>14
     DEF FrameHeld, tb, b1, b3, b4, b5, b7, fo, pl

(* A batch as it is sealed: the client's id, the count, and the frames.    *)
Sealed(p, frames) ==
    /\ p \in Seq(Byte) /\ Len(frames) < Power[CountWidth]
    /\ Holds(p, 0, ClientId) /\ Holds(p, ClientIDLen, BigEndian[CountWidth][Len(frames)])
    /\ \A k \in 1..Len(frames) : NumbersFit(frames[k])
    /\ Len(p) = ClientIDLen + CountWidth + Total(Taken(frames))
    /\ \E at : /\ Offsets(frames, ClientIDLen + CountWidth, at)
               /\ Lie(p, frames, at, Len(frames))

LEMMA Shifted ==
    ASSUME NEW frames \in Seq(Frame), NEW at, Offsets(frames, HeaderLen, at),
           NEW p \in Seq(Byte), Len(p) > 0, Lie(p, frames, at, Len(frames))
    PROVE  \E up : /\ Offsets(frames, ClientIDLen + CountWidth, up)
                   /\ Lie(Tail(p), frames, up, Len(frames))
<1> DEFINE N == Len(frames)
           up == [n \in 0..N |-> at[n] - 1]
           c == ClientIDLen + CountWidth
<1>0. N \in Nat /\ HeaderLen = 1 + c /\ c \in Nat /\ HeaderLen \in Nat
  BY SizeFacts DEF HeaderLen
<1>1. Ascending(at, N)
  BY <1>0, OffsetsAscend
<1> HIDE DEF c
<1>2. \A n \in 0..N : at[n] \in Nat /\ at[n] >= HeaderLen
  BY <1>0, <1>1 DEF Ascending, Offsets
<1>3. \A n \in 0..N : up[n] \in Nat /\ at[n] = up[n] + 1
  BY <1>0, <1>2
<1>4. up[0] = c
  BY <1>0 DEF Offsets
<1> HIDE DEF up
<1>5. ASSUME NEW k \in 1..N
      PROVE  up[k] = EndAt(up[k - 1], frames[k]) /\ FrameHeld(Tail(p), up[k - 1], frames[k])
  <2> DEFINE x == up[k - 1]
             f == frames[k]
             e == EncodedLen(f)
  <2>1. k \in 0..N /\ k - 1 \in 0..N /\ f \in Frame
    BY <1>0
  <2>2. x \in Nat /\ at[k - 1] = x + 1 /\ up[k] \in Nat /\ at[k] = up[k] + 1
    BY <1>3, <2>1
  <2>3. at[k] = EndAt(x + 1, f) /\ FrameHeld(p, x + 1, f)
    BY <2>2 DEF Offsets, Lie
  <2> HIDE DEF x, f
  <2>4. FrameHeld(Tail(p), x, f)
    BY <2>1, <2>2, <2>3, FrameHeldTail
  <2>5. x + 1 \in Int /\ x \in Int
    BY <2>2
  <2>6. EndAt(x, f) = x + (SizeWidth + e) /\ e \in Nat /\ SizeWidth \in Nat
    BY <2>1, <2>5, EndIs
  <2>7. EndAt(x + 1, f) = (x + 1) + (SizeWidth + e)
    BY <2>1, <2>5, EndIs
  <2> HIDE DEF e
  <2>8. up[k] = EndAt(x, f)
    BY <2>2, <2>3, <2>6, <2>7
  <2> QED
    BY <2>4, <2>8 DEF x, f
<1> QED
  BY <1>4, <1>5 DEF Offsets, Lie, c

(* A batch can be encoded exactly when it is Encodable, and what is sealed *)
(* then is the batch.                                                      *)
LEMMA PlaintextFacts ==
    ASSUME NEW frames \in Seq(Frame)
    PROVE  /\ ~TooMany(frames) /\ Plaintext(frames).ok <=> Encodable(frames)
           /\ Encodable(frames) => Sealed(Tail(Plaintext(frames).buf), frames)
<1> DEFINE N == Len(frames)
           pt == Plaintext(frames)
           buf == pt.buf
           T == Total(Taken(frames))
<1>0. N \in Nat /\ Header(frames) \in Writers /\ HeaderLen = 1 + ClientIDLen + CountWidth
      /\ HeaderLen \in Nat /\ PlainSize(frames) \in Nat /\ Power[CountWidth] \in Nat
      /\ CountWidth \in Nat /\ ClientIDLen \in Nat
  <2>1. Header(frames) \in Writers
    BY HeaderFacts
  <2>2. CountWidth \in Nat /\ ClientIDLen \in Nat
    BY SizeFacts
  <2>3. Power[CountWidth] \in Nat
    BY <2>2, PowerFacts
  <2> QED
    BY <2>1, <2>2, <2>3, PlainSizeIs
<1>1. PICK w : WriterTrace(frames, w) /\ pt = w[N]
  BY <1>0, PlaintextSteps
<1>2. PICK at : Offsets(frames, HeaderLen, at) /\ at[N] = HeaderLen + T
  BY <1>0, OffsetsExist
<1> DEFINE I == {n \in 0..N : Written(frames, at, w[n], n)}
<1>3. 0 \in I
  BY <1>0, <1>1, <1>2, WrittenFirst DEF WriterTrace
<1>4. ASSUME NEW n \in 1..N, n - 1 \in I  PROVE n \in I
  <2>1. Written(frames, at, w[n - 1], n - 1) /\ n \in 0..N
    BY <1>4
  <2>2. w[n] = AddFrame(w[n - 1], frames[n])
    BY <1>1 DEF WriterTrace
  <2> QED
    BY <1>2, <2>1, <2>2, WrittenStep
<1> HIDE DEF I
<1>5. \A n \in 0..N : n \in I
  BY <1>0, <1>3, <1>4, InductTo
<1>6. Written(frames, at, pt, N)
  BY <1>0, <1>1, <1>5 DEF I
<1>7. Encodable(frames) <=> Len(frames) < Power[CountWidth] /\ Room(frames, at, Len(frames))
  BY <1>2, RoomIsEncodable
<1>8. pt.ok <=> Encodable(frames)
  BY <1>6, <1>7 DEF Written
<1>9. Encodable(frames) => ~TooMany(frames)
  BY <1>0, <1>7 DEF TooMany
<1>10. ASSUME Encodable(frames)  PROVE Sealed(Tail(buf), frames)
  <2>1. /\ pt.off = at[N] /\ Len(buf) = Larger(PlainSize(frames), at[N])
        /\ HeaderHeld(buf, N) /\ Lie(buf, frames, at, N) /\ pt \in Writers
    BY <1>6, <1>8, <1>10 DEF Written
  <2>2. buf \in Seq(Byte)
    BY <2>1, WriterFields
  <2> HIDE DEF pt, buf, T
  <2>3. T \in Nat /\ PlainSize(frames) <= at[N]
    <3>1. T = Total(Announced(frames)) + Total(Extra(frames))
          /\ Total(Announced(frames)) \in Nat /\ Total(Extra(frames)) \in Nat
      BY SumsDiffer DEF T
    <3>2. PlainSize(frames) = HeaderLen + Total(Announced(frames))
      BY PlainSizeIs
    <3> QED
      BY <1>0, <1>2, <3>1, <3>2
  <2>4. Len(buf) = HeaderLen + T /\ Len(buf) > 0
    BY <1>0, <1>2, <2>1, <2>3 DEF Larger
  <2>5. Tail(buf) \in Seq(Byte) /\ Len(Tail(buf)) = ClientIDLen + CountWidth + T
    <3>1. Tail(buf) \in Seq(Byte) /\ Len(Tail(buf)) = Len(buf) - 1
      BY <2>2, <2>4
    <3> QED
      BY <1>0, <2>3, <2>4, <3>1
  <2>6. Holds(Tail(buf), 0, ClientId)
    <3>1. Holds(buf, 1, ClientId) /\ 1 = 0 + 1
      BY <2>1 DEF HeaderHeld
    <3> QED
      BY <2>2, <2>4, <3>1, ClientIdTyped, HoldsTail
  <2>7. Holds(Tail(buf), ClientIDLen, BigEndian[CountWidth][N])
    <3> DEFINE b == BigEndian[CountWidth][N]
    <3>1. Holds(buf, 1 + ClientIDLen, b) /\ 1 + ClientIDLen = ClientIDLen + 1
      BY <1>0, <2>1 DEF HeaderHeld
    <3>2. b \in Seq(Byte)
      BY <1>0, BigEndianFacts
    <3> HIDE DEF b
    <3>3. Holds(Tail(buf), ClientIDLen, b)
      BY <1>0, <2>2, <2>4, <3>1, <3>2, HoldsTail
    <3> QED
      BY <3>3 DEF b
  <2>8. \E up : /\ Offsets(frames, ClientIDLen + CountWidth, up)
                /\ Lie(Tail(buf), frames, up, N)
    BY <1>2, <2>1, <2>2, <2>4, Shifted
  <2>9. \A k \in 1..N : NumbersFit(frames[k])
    BY <1>7, <1>10 DEF Room
  <2>10. N < Power[CountWidth]
    BY <1>7, <1>10
  <2> QED
    BY <2>5, <2>6, <2>7, <2>8, <2>9, <2>10 DEF Sealed, T
<1> QED
  BY <1>8, <1>9, <1>10
----------------------------------------------------------------------------
(* Reading.                                                                *)
LEMMA SliceHeld ==
    ASSUME NEW p \in Seq(Byte), NEW off \in Nat, NEW b \in Seq(Byte), Holds(p, off, b),
           NEW n, n = Len(b)
    PROVE  Slice(p, off, n) = b
<1> DEFINE s == SubSeq(p, off + 1, off + n)
<1>1. n \in Nat /\ off + n <= Len(p) /\ Len(p) \in Nat /\ \A i \in 1..n : p[off + i] = b[i]
  BY DEF Holds
<1>2. Slice(p, off, n) = s
  BY <1>1 DEF Slice, Smaller
<1>3. s \in Seq(Byte) /\ Len(s) = n
  BY <1>1
<1>4. \A i \in 1..n : s[i] = b[i]
  <2> TAKE i \in 1..n
  <2>1. s[i] = p[off + i]
    BY <1>1
  <2> QED
    BY <1>1, <2>1
<1> HIDE DEF s
<1>5. s = b
  BY <1>1, <1>3, <1>4
<1> QED
  BY <1>2, <1>5

LEMMA ByteHeld ==
    ASSUME NEW p \in Seq(Byte), NEW off \in Nat, NEW v \in Nat, v < Base,
           Holds(p, off, BigEndian[1][v])
    PROVE  p[off + 1] = v
<1> DEFINE b == BigEndian[1][v]
           x == v % Base
<1>1. Len(b) = 1 /\ Unpacked(b) = v
  <2>1. v < Power[1] /\ 1 \in Nat
    BY PowerOne
  <2> QED
    BY <2>1, BigEndianFacts
<1>2. b = Append(<<>>, x)
  <2>1. BigEndian[0 + 1][v] = Append(BigEndian[0][v \div Base], v % Base)
    BY BigEndianRecurs
  <2>2. v \div Base \in Nat
    BY BaseFacts, DivTyped
  <2>3. BigEndian[0][v \div Base] = <<>>
    BY <2>2, BigEndianRecurs
  <2>4. 0 + 1 = 1
    OBVIOUS
  <2> QED
    BY <2>1, <2>3, <2>4
<1>3. x \in Nat
  BY BaseFacts, DivTyped
<1>4. Unpacked(Append(<<>>, x)) = Unpacked(<<>>) * Base + x
  <2>1. <<>> \in Seq(Nat)
    OBVIOUS
  <2> HIDE DEF x
  <2> QED
    BY <1>3, <2>1, UnpackedAppend
<1>5. Unpacked(<<>>) = 0
  <2> DEFINE e == BigEndian[0][0]
  <2>1. e = <<>>
    BY BigEndianRecurs
  <2>2. Unpacked(e) = 0
    <3>1. 0 \in Nat /\ 0 < Power[0]
      BY PowerFacts
    <3> QED
      BY <3>1, BigEndianFacts
  <2> QED
    BY <2>1, <2>2
<1>6. x = v
  <2> HIDE DEF x, b
  <2> QED
    BY <1>1, <1>2, <1>3, <1>4, <1>5, BaseFacts
<1>7. b[1] = x
  <2> HIDE DEF x, b
  <2> QED
    BY <1>2
<1>8. p[off + 1] = b[1]
  <2> HIDE DEF b
  <2>1. Holds(p, off, b)
    BY DEF b
  <2> QED
    BY <1>1, <2>1 DEF Holds
<1> QED
  BY <1>6, <1>7, <1>8

FrameRead(p, off, f) ==
    FrameFits(p, off) /\ FrameAt(p, off) = f /\ NextOff(p, off) = EndAt(off, f)

LEMMA ReadFrameFacts ==
    ASSUME NEW p \in Seq(Byte), NEW off \in Nat, NEW f \in Frame, NumbersFit(f),
           FrameHeld(p, off, f)
    PROVE  FrameRead(p, off, f)
<1> DEFINE tb == Utf8(f.target)
           P == f.payload
           b1 == BigEndian[SizeWidth][MarshalSize(f)]
           b3 == BigEndian[SeqWidth][f.seq]
           b4 == BigEndian[1][f.flags]
           b5 == BigEndian[1][Len(tb)]
           b7 == BigEndian[SizeWidth][Len(P)]
           fo == FlagsOff(off)
           pl == PlenAt(off, f)
           m == MarshalSize(f)
           e == EncodedLen(f)
           a == Len(tb)
           c == Len(P)
<1>1. /\ tb \in Seq(Byte) /\ f.session_id \in Seq(Byte) /\ P \in Seq(Byte)
      /\ Len(f.session_id) = SessionIDLen /\ a \in Nat /\ c \in Nat
      /\ m \in Nat /\ c <= m /\ m <= e /\ e \in Nat /\ f.seq \in Nat
      /\ f.flags \in Nat /\ f.flags < Base /\ a < Base /\ m < Power[SizeWidth]
      /\ f.seq < Power[SeqWidth]
  <2>1. f.flags < Base
    BY FrameFacts, PowerOne
  <2>2. e \in Nat
    <3>1. 0 \in Int
      OBVIOUS
    <3> QED
      BY <3>1, EndIs
  <2> QED
    BY <2>1, <2>2, FrameFacts DEF NumbersFit
<1>2. /\ SizeWidth \in Nat /\ SeqWidth \in Nat /\ SessionIDLen \in Nat
      /\ Power[SizeWidth] \in Nat
  BY SizeFacts, PowerFacts
<1>3. /\ b1 \in Seq(Byte) /\ Len(b1) = SizeWidth /\ Unpacked(b1) = m
      /\ b3 \in Seq(Byte) /\ Len(b3) = SeqWidth /\ Unpacked(b3) = f.seq
      /\ b7 \in Seq(Byte) /\ Len(b7) = SizeWidth /\ Unpacked(b7) = c
  <2>1. c < Power[SizeWidth]
    <3> HIDE DEF c, m
    <3> QED
      BY <1>1, <1>2
  <2> HIDE DEF tb, P
  <2> QED
    BY <1>1, <1>2, <2>1, BigEndianFacts
<1>4. /\ Holds(p, off, b1) /\ Holds(p, off + SizeWidth, f.session_id)
      /\ Holds(p, off + SizeWidth + SessionIDLen, b3)
      /\ Holds(p, fo, b4) /\ Holds(p, fo + 1, b5) /\ Holds(p, fo + 2, tb)
      /\ Holds(p, pl, b7) /\ Holds(p, pl + SizeWidth, P)
  BY DEF FrameHeld
<1>5. fo = off + SizeWidth + SessionIDLen + SeqWidth
      /\ pl = off + SizeWidth + SessionIDLen + SeqWidth + 2 + a
      /\ EndAt(off, f) = pl + SizeWidth + c
      /\ EndAt(off, f) = off + (SizeWidth + e)
  <2>1. off \in Int
    OBVIOUS
  <2>2. EndAt(off, f) = off + (SizeWidth + e)
    BY <2>1, EndIs
  <2> QED
    BY <2>2 DEF FlagsOff, PlenAt, EndAt
<1> HIDE DEF tb, P, b1, b3, b4, b5, b7, fo, pl, m, e, a, c
<1>6. /\ fo \in Nat /\ fo + 1 \in Nat /\ fo + 2 \in Nat /\ pl \in Nat /\ pl + SizeWidth \in Nat
      /\ off + SizeWidth \in Nat /\ off + SizeWidth + SessionIDLen \in Nat
      /\ pl = fo + 2 + a /\ fo - SeqWidth = off + SizeWidth + SessionIDLen
  BY <1>1, <1>2, <1>5
<1>7. p[fo + 1] = f.flags
  BY <1>1, <1>4, <1>6, ByteHeld DEF b4
<1>8. p[(fo + 1) + 1] = a
  BY <1>1, <1>4, <1>6, ByteHeld DEF b5, a
<1>9. p[fo + 2] = a
  <2>1. (fo + 1) + 1 = fo + 2
    BY <1>6
  <2> QED
    BY <1>8, <2>1
<1>10. PlenOff(p, off) = pl
  BY <1>6, <1>9 DEF PlenOff, fo
<1>11. /\ Slice(p, off, SizeWidth) = b1
       /\ Slice(p, off + SizeWidth, SessionIDLen) = f.session_id
       /\ Slice(p, fo - SeqWidth, SeqWidth) = b3
       /\ Slice(p, fo + 2, a) = tb
       /\ Slice(p, pl, SizeWidth) = b7
       /\ Slice(p, pl + SizeWidth, c) = P
  <2>1. Slice(p, off, SizeWidth) = b1
    BY <1>3, <1>4, SliceHeld
  <2>2. Slice(p, off + SizeWidth, SessionIDLen) = f.session_id
    BY <1>1, <1>4, <1>6, SliceHeld
  <2> DEFINE o3 == off + SizeWidth + SessionIDLen
  <2>o. o3 \in Nat /\ fo - SeqWidth = o3 /\ Holds(p, o3, b3) /\ pl \in Nat
    BY <1>4, <1>6
  <2> HIDE DEF o3
  <2>n. SeqWidth = Len(b3) /\ SizeWidth = Len(b7) /\ b3 \in Seq(Byte) /\ b7 \in Seq(Byte)
    BY <1>3
  <2>p. Holds(p, pl, b7)
    BY <1>4
  <2>3. Slice(p, o3, SeqWidth) = b3
    BY <2>o, <2>n, SliceHeld
  <2>4. Slice(p, fo + 2, a) = tb
    BY <1>1, <1>4, <1>6, SliceHeld DEF a
  <2>5. Slice(p, pl, SizeWidth) = b7
    BY <2>o, <2>n, <2>p, SliceHeld
  <2>6. Slice(p, pl + SizeWidth, c) = P
    BY <1>1, <1>4, <1>6, SliceHeld DEF c
  <2> QED
    BY <2>o, <2>1, <2>2, <2>3, <2>4, <2>5, <2>6
<1>12. NextOff(p, off) = EndAt(off, f)
  BY <1>3, <1>5, <1>10, <1>11 DEF NextOff
<1>13. AnnouncedOff(p, off) = off + SizeWidth + m
  BY <1>3, <1>11 DEF AnnouncedOff
<1>14. FrameFits(p, off)
  <2> DEFINE l == Len(p)
  <2>1. pl + SizeWidth + c <= l /\ l \in Nat
    BY <1>4 DEF Holds, c
  <2> HIDE DEF l
  <2>2. l >= off + SizeWidth /\ l >= off + SizeWidth + m /\ l >= fo + 2 /\ l >= pl + SizeWidth
    <3>1. l >= pl + SizeWidth /\ l >= fo + 2
      BY <1>1, <1>2, <1>6, <2>1
    <3>2. l >= off + (SizeWidth + e)
      BY <1>5, <2>1
    <3> QED
      BY <1>1, <1>2, <3>1, <3>2, <2>1
  <2> QED
    BY <1>10, <1>13, <2>2 DEF FrameFits, l, fo
<1>15. FrameAt(p, off) = f
  <2>1. Utf8Decoded(tb) = f.target
    <3>1. f.target \in Seq(Chars)
      BY FrameFacts
    <3> QED
      BY <3>1, Utf8Inverse DEF tb
  <2>2. FrameAt(p, off) =
          [session_id |-> f.session_id, seq |-> f.seq, flags |-> f.flags,
           target |-> f.target, payload |-> f.payload]
    BY <1>3, <1>7, <1>9, <1>10, <1>11, <2>1 DEF FrameAt, fo, P
  <2>3. f = [session_id |-> f.session_id, seq |-> f.seq, flags |-> f.flags,
             target |-> f.target, payload |-> f.payload]
    BY DEF Frame
  <2> QED
    BY <2>2, <2>3
<1> QED
  BY <1>12, <1>14, <1>15 DEF FrameRead

(* What decode_batch has read after n frames.                              *)
ReadRec(p, count, r) ==
    r = [n \in 0..count |->
            IF n = 0 THEN [ok |-> Len(p) >= ClientIDLen + CountWidth,
                           off |-> ClientIDLen + CountWidth, frames |-> <<>>]
            ELSE ReadFrame(r[n - 1], p)]
IsRead(r, frames, at, n) ==
    r[n] = [ok |-> TRUE, off |-> at[n], frames |-> SubSeq(frames, 1, n)]

LEMMA ReadStep ==
    ASSUME NEW p \in Seq(Byte), NEW frames \in Seq(Frame), NEW at,
           Offsets(frames, ClientIDLen + CountWidth, at), Lie(p, frames, at, Len(frames)),
           \A k \in 1..Len(frames) : NumbersFit(frames[k]),
           NEW n \in 1..Len(frames)
    PROVE  ReadFrame([ok |-> TRUE, off |-> at[n - 1], frames |-> SubSeq(frames, 1, n - 1)], p)
             = [ok |-> TRUE, off |-> at[n], frames |-> SubSeq(frames, 1, n)]
<1> DEFINE x == at[n - 1]
           f == frames[n]
           before == SubSeq(frames, 1, n - 1)
           r == [ok |-> TRUE, off |-> x, frames |-> before]
<1>0. f \in Frame /\ n - 1 \in 0..Len(frames) /\ Append(before, f) = SubSeq(frames, 1, n)
  OBVIOUS
<1>1. x \in Nat
  <2>1. ClientIDLen + CountWidth \in Nat
    BY SizeFacts
  <2>2. Ascending(at, Len(frames))
    BY <2>1, OffsetsAscend
  <2> QED
    BY <1>0, <2>2 DEF Ascending
<1>2. EndAt(x, f) = at[n] /\ FrameHeld(p, x, f) /\ NumbersFit(f)
  BY DEF Offsets, Lie
<1>3. FrameRead(p, x, f)
  <2> HIDE DEF x, f
  <2> QED
    BY <1>0, <1>1, <1>2, ReadFrameFacts
<1>4. r.ok /\ r.off = x /\ r.frames = before
  OBVIOUS
<1> HIDE DEF r, x, f, before
<1>5. ReadFrame(r, p) = [ok |-> TRUE, off |-> at[n], frames |-> Append(before, f)]
  BY <1>2, <1>3, <1>4 DEF ReadFrame, FrameRead
<1> QED
  BY <1>0, <1>5 DEF r, x, f, before

LEMMA ReadExists ==
    ASSUME NEW p \in Seq(Byte), NEW frames \in Seq(Frame), NEW at,
           Offsets(frames, ClientIDLen + CountWidth, at), Lie(p, frames, at, Len(frames)),
           \A k \in 1..Len(frames) : NumbersFit(frames[k]),
           Len(p) >= ClientIDLen + CountWidth
    PROVE  \E r : ReadRec(p, Len(frames), r)
<1> DEFINE N == Len(frames)
           Is(n) == [ok |-> TRUE, off |-> at[n], frames |-> SubSeq(frames, 1, n)]
           r == [n \in 0..N |-> Is(n)]
           G(n) == IF n = 0 THEN [ok |-> Len(p) >= ClientIDLen + CountWidth,
                                  off |-> ClientIDLen + CountWidth, frames |-> <<>>]
                   ELSE ReadFrame(r[n - 1], p)
<1>1. Is(0) = G(0)
  <2>1. SubSeq(frames, 1, 0) = <<>> /\ at[0] = ClientIDLen + CountWidth
    BY DEF Offsets
  <2> QED
    BY <2>1
<1>2. ASSUME NEW n \in 1..N  PROVE Is(n) = G(n)
  <2>1. ReadFrame(Is(n - 1), p) = Is(n)
    BY ReadStep
  <2>2. n - 1 \in 0..N /\ n # 0
    OBVIOUS
  <2> HIDE DEF Is
  <2> QED
    BY <2>1, <2>2
<1>3. \A n \in 0..N : n = 0 \/ n \in 1..N
  OBVIOUS
<1>4. r = [n \in 0..N |-> G(n)]
  <2> HIDE DEF Is, G
  <2>1. \A n \in 0..N : Is(n) = G(n)
    BY <1>1, <1>2, <1>3
  <2> QED
    BY <2>1
<1>5. ReadRec(p, N, r)
  <2> HIDE DEF r
  <2> QED
    BY <1>4 DEF ReadRec
<1> QED
  BY <1>5

LEMMA ReadSteps ==
    ASSUME NEW p, NEW count \in Nat, NEW r, ReadRec(p, count, r)
    PROVE  /\ r[0] = [ok |-> Len(p) >= ClientIDLen + CountWidth,
                      off |-> ClientIDLen + CountWidth, frames |-> <<>>]
           /\ \A n \in 1..count : r[n] = ReadFrame(r[n - 1], p)
<1> DEFINE G(n) == IF n = 0 THEN [ok |-> Len(p) >= ClientIDLen + CountWidth,
                                  off |-> ClientIDLen + CountWidth, frames |-> <<>>]
                   ELSE ReadFrame(r[n - 1], p)
<1>1. r = [n \in 0..count |-> G(n)]
  BY DEF ReadRec
<1> HIDE DEF G
<1>2. \A n \in 0..count : r[n] = G(n)
  BY <1>1
<1>3. 0 \in 0..count /\ \A n \in 1..count : n \in 0..count /\ n # 0
  OBVIOUS
<1>4. r[0] = G(0) /\ \A n \in 1..count : r[n] = G(n)
  BY <1>2, <1>3
<1> QED
  BY <1>3, <1>4 DEF G

(* A batch is decoded to what was sealed.                                  *)
LEMMA DecodedFacts ==
    ASSUME NEW p, NEW frames \in Seq(Frame), Sealed(p, frames)
    PROVE  Decoded(p) = [client_id |-> ClientId, ok |-> TRUE, frames |-> frames]
<1> DEFINE N == Len(frames)
           b == BigEndian[CountWidth][N]
           off == ClientIDLen + CountWidth
<1>0. /\ N \in Nat /\ p \in Seq(Byte) /\ N < Power[CountWidth]
      /\ Holds(p, 0, ClientId) /\ Holds(p, ClientIDLen, b)
      /\ \A k \in 1..N : NumbersFit(frames[k])
  BY DEF Sealed
<1>1. PICK at : Offsets(frames, off, at) /\ Lie(p, frames, at, N)
  BY DEF Sealed
<1>2. b \in Seq(Byte) /\ Len(b) = CountWidth /\ Unpacked(b) = N
  BY <1>0, SizeFacts, BigEndianFacts
<1> HIDE DEF b
<1>3. Len(p) >= off
  BY <1>0, <1>2 DEF Holds
<1>4. Slice(p, ClientIDLen, CountWidth) = b
  BY <1>0, <1>2, SizeFacts, SliceHeld
<1>5. Slice(p, 0, ClientIDLen) = ClientId
  BY <1>0, ClientIdTyped, SliceHeld
<1> DEFINE count == Unpacked(Slice(p, ClientIDLen, CountWidth))
           r == CHOOSE s : ReadRec(p, count, s)
<1>6. count = N
  BY <1>2, <1>4
<1>7. Decoded(p) = [client_id |-> Slice(p, 0, ClientIDLen), ok |-> r[count].ok,
                    frames |-> r[count].frames]
  BY DEF Decoded, ReadRec
<1> HIDE DEF count
<1>8. ReadRec(p, count, r)
  <2>1. \E s : ReadRec(p, N, s)
    BY <1>0, <1>1, <1>3, ReadExists
  <2> QED
    BY <1>6, <2>1
<1> HIDE DEF r
<1>9. /\ r[0] = [ok |-> Len(p) >= ClientIDLen + CountWidth,
                 off |-> ClientIDLen + CountWidth, frames |-> <<>>]
      /\ \A n \in 1..N : r[n] = ReadFrame(r[n - 1], p)
  BY <1>0, <1>6, <1>8, ReadSteps
<1> DEFINE I == {n \in 0..N : IsRead(r, frames, at, n)}
<1>10. 0 \in I
  <2>1. SubSeq(frames, 1, 0) = <<>> /\ at[0] = off
    BY <1>1 DEF Offsets
  <2>2. (Len(p) >= ClientIDLen + CountWidth) = TRUE
    BY <1>3
  <2>3. r[0] = [ok |-> TRUE, off |-> at[0], frames |-> SubSeq(frames, 1, 0)]
    BY <1>9, <2>1, <2>2, Zenon
  <2>4. 0 \in 0..N
    BY <1>0
  <2> QED
    BY <2>3, <2>4 DEF IsRead
<1>11. ASSUME NEW n \in 1..N, n - 1 \in I  PROVE n \in I
  <2>1. r[n - 1] = [ok |-> TRUE, off |-> at[n - 1], frames |-> SubSeq(frames, 1, n - 1)]
    BY <1>11 DEF IsRead
  <2>2. r[n] = ReadFrame(r[n - 1], p)
    BY <1>9
  <2>3. ReadFrame([ok |-> TRUE, off |-> at[n - 1], frames |-> SubSeq(frames, 1, n - 1)], p)
          = [ok |-> TRUE, off |-> at[n], frames |-> SubSeq(frames, 1, n)]
    BY <1>0, <1>1, ReadStep
  <2>4. n \in 0..N
    OBVIOUS
  <2> QED
    BY <2>1, <2>2, <2>3, <2>4 DEF IsRead
<1> HIDE DEF I
<1>12. \A n \in 0..N : n \in I
  BY <1>0, <1>10, <1>11, InductTo
<1>13. r[N] = [ok |-> TRUE, off |-> at[N], frames |-> frames]
  <2>1. N \in I /\ SubSeq(frames, 1, N) = frames
    BY <1>0, <1>12
  <2> QED
    BY <2>1 DEF I, IsRead
<1>14. r[N].ok = TRUE /\ r[N].frames = frames
  BY <1>13
<1> QED
  BY <1>5, <1>6, <1>7, <1>14, Zenon
----------------------------------------------------------------------------
(* The encoder and the decoder, batch by batch.                            *)
Flags == {"empty", "raw", "zstd", "flate", "other", "forged"}

(* What is on the wire is the plaintext of the batch, and what was decoded *)
(* the batch.                                                              *)
BatchInv ==
    /\ batch \in Seq(Frame)
    /\ wire \in [flag : Flags, body : Seq(Byte)]
    /\ status \in {"idle", "raised", "sealed", "decoded", "rejected"}
    /\ status = "raised" => TooMany(batch) \/ ~Plaintext(batch).ok
    /\ status = "sealed" => /\ ~TooMany(batch) /\ Plaintext(batch).ok
                            /\ wire.body = Tail(Plaintext(batch).buf)
    /\ status = "rejected" => wire.flag \in {"forged", "other"}
    /\ got = IF status = "decoded" /\ wire.flag # "empty"
             THEN [client_id |-> ClientId, frames |-> batch] ELSE Nothing

(* While compression is skipped, the big batches it was not tried on are   *)
(* among those counted since the counter was last a multiple of            *)
(* RecheckAfter, when it is tried.                                         *)
Place(n) == n % RecheckAfter
SkipInv ==
    /\ skip_counter \in 0..(SkipCompressionAfter + RecheckAfter - 1)
    /\ failures \in Nat /\ untried \in Nat
    /\ \/ /\ skip_active = FALSE /\ untried = 0
          /\ failures = skip_counter /\ failures < SkipCompressionAfter
       \/ /\ skip_active = TRUE /\ failures = SkipCompressionAfter
          /\ IF Place(skip_counter) = 0 THEN untried < RecheckAfter
             ELSE untried < Place(skip_counter)

LEMMA LimitFacts ==
    /\ SkipCompressionAfter \in Nat /\ SkipCompressionAfter > 0
    /\ RecheckAfter \in Nat /\ RecheckAfter > 0 /\ CompressMinSize \in Nat
<1>1. SkipCompressionAfter \in Nat \ {0} /\ RecheckAfter \in Nat \ {0} /\ CompressMinSize \in Nat
  BY CodecAssumption
<1> QED
  BY <1>1

LEMMA ModUnique ==
    ASSUME NEW R \in Nat, R > 0, NEW n \in Nat, NEW q \in Int, NEW m \in 0..(R - 1), n = q * R + m
    PROVE  n % R = m
<1> DEFINE d == n \div R
           r == n % R
<1>1. d \in Int /\ r \in 0..(R - 1) /\ n = R * d + r
  OBVIOUS
<1> HIDE DEF d, r
<1>2. ASSUME NEW a \in Int, NEW b \in Int, a < b  PROVE a * R + R <= b * R
  <2>1. b - a - 1 \in Nat
    BY <1>2
  <2> DEFINE k == b - a - 1
  <2>2. k * R \in Nat
    BY <2>1
  <2>3. b = a + 1 + k /\ k \in Nat
    BY <2>1
  <2> HIDE DEF k
  <2>4. b * R = a * R + R + k * R
    BY <2>3
  <2> QED
    BY <2>2, <2>4
<1>3. R * d = d * R
  BY <1>1
<1> DEFINE x == d * R
           y == q * R
<1>4. x \in Int /\ y \in Int /\ x + r = y + m
  BY <1>1, <1>3
<1>5. d < q => x + R <= y
  BY <1>1, <1>2
<1>6. q < d => y + R <= x
  BY <1>1, <1>2
<1>7. d = q => x = y
  OBVIOUS
<1> HIDE DEF x, y
<1>8. r = m
  BY <1>1, <1>4, <1>5, <1>6, <1>7
<1> QED
  BY <1>8 DEF r

(* The place moves on by one, round and round, also where the counter is   *)
(* set back.                                                               *)
LEMMA PlaceMoves ==
    ASSUME NEW n \in 0..(SkipCompressionAfter + RecheckAfter - 1)
    PROVE  /\ Place(n) \in 0..(RecheckAfter - 1)
           /\ Counted(n) \in 0..(SkipCompressionAfter + RecheckAfter - 1)
           /\ Place(Counted(n)) = IF Place(n) + 1 = RecheckAfter THEN 0 ELSE Place(n) + 1
           /\ n < SkipCompressionAfter => Counted(n) = n + 1
           /\ n >= SkipCompressionAfter => Counted(n) >= SkipCompressionAfter
<1> DEFINE R == RecheckAfter
           S == SkipCompressionAfter
           c == Counted(n)
<1>1. R \in Nat /\ R > 0 /\ S \in Nat /\ S > 0 /\ n \in Nat /\ n <= S + R - 1
  BY LimitFacts
<1>2. PICK q \in Int, m \in 0..(R - 1) : m = Place(n) /\ n = q * R + m
  <2> DEFINE d == n \div R
             r == n % R
  <2>1. d \in Int /\ r \in 0..(R - 1) /\ n = R * d + r
    BY <1>1
  <2>2. r = Place(n)
    BY DEF Place
  <2> HIDE DEF d, r, R
  <2>3. R * d = d * R
    BY <1>1, <2>1
  <2> QED
    BY <2>1, <2>2, <2>3
<1>3. c = IF n + 1 < S + R THEN n + 1 ELSE n + 1 - R
  BY DEF Counted
<1> HIDE DEF R, S, c
<1>4. c \in Nat /\ c <= S + R - 1 /\ (n < S => c = n + 1) /\ (n >= S => c >= S)
  BY <1>1, <1>3
<1>5. \E p \in Int : c = p * R + (m + 1)
  <2>1. (q - 1) * R = q * R - R /\ q * R \in Int
    BY <1>1, <1>2
  <2>2. n + 1 - R = (q - 1) * R + (m + 1)
    <3> DEFINE x == q * R
               y == (q - 1) * R
    <3>1. y = x - R /\ x \in Int /\ n = x + m
      BY <1>2, <2>1
    <3> HIDE DEF x, y
    <3>2. n + 1 - R = y + (m + 1)
      BY <1>1, <1>2, <3>1
    <3> QED
      BY <3>2 DEF y
  <2>3. n + 1 = q * R + (m + 1)
    BY <1>2, <2>1
  <2>4. CASE n + 1 < S + R
    BY <1>3, <2>3, <2>4
  <2>5. CASE ~(n + 1 < S + R)
    <3>1. q - 1 \in Int
      OBVIOUS
    <3> QED
      BY <1>3, <2>2, <2>5, <3>1
  <2> QED
    BY <2>4, <2>5
<1>6. PICK p \in Int : c = p * R + (m + 1)
  BY <1>5
<1>7. CASE m + 1 = R
  <2>1. c = (p + 1) * R + 0
    BY <1>1, <1>6, <1>7
  <2>2. 0 \in 0..(R - 1) /\ p + 1 \in Int
    BY <1>1
  <2>3. c % R = 0
    BY <1>1, <1>4, <2>1, <2>2, ModUnique
  <2> QED
    BY <1>1, <1>2, <1>4, <1>7, <2>3 DEF Place, R, S, c
<1>8. CASE m + 1 # R
  <2>1. m + 1 \in 0..(R - 1)
    BY <1>1, <1>8
  <2>2. c % R = m + 1
    BY <1>1, <1>4, <1>6, <2>1, ModUnique
  <2> QED
    BY <1>1, <1>2, <1>4, <1>8, <2>2 DEF Place, R, S, c
<1> QED
  BY <1>7, <1>8

LEMMA CompressKept ==
    ASSUME SkipInv, NEW size, ShouldCompress(size), NEW shrinks \in BOOLEAN, Compress(shrinks)
    PROVE  SkipInv'
<1> DEFINE R == RecheckAfter
           S == SkipCompressionAfter
           n == skip_counter
           c == Counted(n)
           x == Place(n)
           y == Place(c)
<1>1. R \in Nat /\ R > 0 /\ S \in Nat /\ S > 0 /\ n \in 0..(S + R - 1)
      /\ failures \in Nat /\ untried \in Nat
  BY LimitFacts DEF SkipInv
<1>2. /\ x \in 0..(R - 1) /\ c \in 0..(S + R - 1)
      /\ y = IF x + 1 = R THEN 0 ELSE x + 1
      /\ n < S => c = n + 1
      /\ n >= S => c >= S
  BY <1>1, PlaceMoves
<1>3. skip_active => x = 0
  BY DEF ShouldCompress, Place
<1>4. \/ /\ skip_active = FALSE /\ untried = 0 /\ failures = n /\ failures < S
      \/ /\ skip_active = TRUE /\ failures = S
         /\ IF x = 0 THEN untried < R ELSE untried < x
  BY DEF SkipInv
<1>5. CASE shrinks
  <2>1. skip_counter' = 0 /\ skip_active' = FALSE /\ failures' = 0 /\ untried' = 0
    BY <1>5 DEF Compress
  <2>2. 0 \in 0..(S + R - 1)
    BY <1>1
  <2> QED
    BY <1>1, <2>1, <2>2 DEF SkipInv
<1>6. CASE ~shrinks
  <2>1. /\ skip_counter' = c /\ skip_active' = (skip_active \/ c >= S)
        /\ failures' = Smaller(failures + 1, S) /\ untried' = 0
    BY <1>6 DEF Compress
  <2> HIDE DEF R, S, n, c, x, y
  <2>2. y = 0 \/ 0 < y
    BY <1>1, <1>2
  <2>3. CASE skip_active = FALSE
    <3>1. c = n + 1 /\ failures = n /\ n \in Nat /\ failures < S
      BY <1>1, <1>2, <1>4, <2>3
    <3>2. CASE c >= S
      <4>a. skip_active' = TRUE
        BY <2>1, <3>2, Zenon
      <4>1. failures' = S /\ skip_active' = TRUE
        BY <1>1, <2>1, <3>1, <3>2, <4>a DEF Smaller
      <4> QED
        BY <1>1, <1>2, <2>1, <2>2, <4>1 DEF SkipInv, R, S, y
    <3>3. CASE ~(c >= S)
      <4>a. skip_active' = FALSE
        BY <2>1, <2>3, <3>3, Zenon
      <4>1. failures' = c /\ skip_active' = FALSE /\ failures' < S
        BY <1>1, <1>2, <2>1, <3>1, <3>3, <4>a DEF Smaller
      <4> QED
        BY <1>1, <1>2, <2>1, <3>1, <4>1 DEF SkipInv, R, S
    <3> QED
      BY <3>2, <3>3
  <2>4. CASE skip_active = TRUE
    <3>a. skip_active' = TRUE
      BY <2>1, <2>4, Zenon
    <3>b. failures = S
      BY <1>4, <2>4
    <3>1. failures' = S /\ skip_active' = TRUE
      BY <1>1, <2>1, <3>a, <3>b DEF Smaller
    <3> QED
      BY <1>1, <1>2, <2>1, <2>2, <3>1 DEF SkipInv, R, S, y
  <2> QED
    BY <1>4, <2>3, <2>4
<1> QED
  BY <1>5, <1>6

LEMMA SkipKept ==
    ASSUME SkipInv, NEW size, ~ShouldCompress(size), Skip(size)
    PROVE  SkipInv'
<1> DEFINE R == RecheckAfter
           S == SkipCompressionAfter
           n == skip_counter
           c == Counted(n)
           x == Place(n)
           y == Place(c)
           big == size - 1 >= CompressMinSize
<1>1. R \in Nat /\ R > 0 /\ S \in Nat /\ S > 0 /\ n \in 0..(S + R - 1)
      /\ failures \in Nat /\ untried \in Nat
  BY LimitFacts DEF SkipInv
<1>2. /\ x \in 0..(R - 1) /\ c \in 0..(S + R - 1)
      /\ y = IF x + 1 = R THEN 0 ELSE x + 1
  BY <1>1, PlaceMoves
<1>3. big => skip_active /\ x # 0
  BY DEF ShouldCompress, Place
<1>4. \/ /\ skip_active = FALSE /\ untried = 0 /\ failures = n /\ failures < S
      \/ /\ skip_active = TRUE /\ failures = S
         /\ IF x = 0 THEN untried < R ELSE untried < x
  BY DEF SkipInv
<1>5. /\ skip_counter' = IF skip_active THEN c ELSE n
      /\ untried' = IF big THEN untried + 1 ELSE 0
      /\ skip_active' = skip_active /\ failures' = failures
  BY DEF Skip
<1> HIDE DEF R, S, n, c, x, y, big
<1>6. CASE skip_active = FALSE
  <2>1. skip_counter' = n /\ untried' = 0 /\ skip_active' = FALSE /\ failures' = n /\ n < S
    BY <1>3, <1>4, <1>5, <1>6
  <2> QED
    BY <1>1, <2>1 DEF SkipInv, R, S
<1>7. CASE skip_active = TRUE
  <2>1. skip_counter' = c /\ skip_active' = TRUE /\ failures' = S
    BY <1>4, <1>5, <1>7
  <2>2. untried' \in Nat /\ IF y = 0 THEN untried' < R ELSE untried' < y
    <3>1. CASE big
      <4>1. x # 0 /\ untried < x /\ untried' = untried + 1
        BY <1>3, <1>4, <1>5, <1>7, <3>1
      <4> QED
        BY <1>1, <1>2, <4>1
    <3>2. CASE ~big
      <4>1. untried' = 0
        BY <1>5, <3>2
      <4> QED
        BY <1>1, <1>2, <4>1
    <3> QED
      BY <3>1, <3>2
  <2> QED
    BY <1>1, <1>2, <2>1, <2>2 DEF SkipInv, R, S, y
<1> QED
  BY <1>4, <1>6, <1>7

LEMMA SkipInvInit == Init => SkipInv
<1> SUFFICES ASSUME Init PROVE SkipInv
  OBVIOUS
<1>1. skip_counter = 0 /\ skip_active = FALSE /\ failures = 0 /\ untried = 0
  BY DEF Init
<1> QED
  BY <1>1, LimitFacts DEF SkipInv

LEMMA SkipInvNext == SkipInv /\ [Next]_vars => SkipInv'
<1> SUFFICES ASSUME SkipInv, [Next]_vars PROVE SkipInv'
  OBVIOUS
<1>1. ASSUME UNCHANGED adaptive  PROVE SkipInv'
  BY <1>1 DEF adaptive, SkipInv, Place
<1>2. ASSUME NEW frames \in Batches, Encode(frames)  PROVE SkipInv'
  <2> DEFINE plain == Plaintext(frames)
             size == Len(plain.buf)
  <2>1. \/ UNCHANGED adaptive
        \/ \E shrinks \in BOOLEAN : ShouldCompress(size) /\ Compress(shrinks)
        \/ ~ShouldCompress(size) /\ Skip(size)
    BY <1>2 DEF Encode
  <2> HIDE DEF size
  <2> QED
    BY <1>1, <2>1, CompressKept, SkipKept
<1>3. CASE Replace
  BY <1>1, <1>3 DEF Replace
<1>4. CASE Decode
  BY <1>1, <1>4 DEF Decode
<1>5. CASE Done
  BY <1>1, <1>5 DEF Done
<1>6. CASE UNCHANGED vars
  BY <1>1, <1>6 DEF vars
<1> QED
  BY <1>2, <1>3, <1>4, <1>5, <1>6 DEF Next

LEMMA SkipInvKept == Spec => []SkipInv
BY SkipInvInit, SkipInvNext, PTL DEF Spec

LEMMA BatchesTyped == \A frames \in Batches : frames \in Seq(Frame)
BY CodecAssumption DEF Frame, Byte

LEMMA BatchInvInit == Init => BatchInv
<1> SUFFICES ASSUME Init PROVE BatchInv
  OBVIOUS
<1>1. /\ status = "idle" /\ batch = <<>> /\ got = Nothing
      /\ wire = [flag |-> "empty", body |-> <<>>]
  BY DEF Init
<1>2. batch \in Seq(Frame) /\ <<>> \in Seq(Byte)
  BY <1>1
<1> QED
  BY <1>1, <1>2 DEF BatchInv, Flags

LEMMA BatchInvNext == BatchInv /\ [Next]_vars => BatchInv'
<1> SUFFICES ASSUME BatchInv, [Next]_vars PROVE BatchInv'
  OBVIOUS
<1>1. ASSUME NEW frames \in Batches, Encode(frames)  PROVE BatchInv'
  <2> DEFINE plain == Plaintext(frames)
             ok == ~TooMany(frames) /\ plain.ok
  <2>1. status = "idle" /\ batch' = frames /\ got' = got /\ got = Nothing
        /\ frames \in Seq(Frame)
    BY <1>1, BatchesTyped DEF Encode, BatchInv
  <2>2. CASE status' = "raised" /\ wire' = wire /\ ~ok
    BY <2>1, <2>2 DEF BatchInv
  <2>3. CASE /\ status' = "sealed" /\ ok
             /\ \E flag \in {"raw", "zstd"} : wire' = [flag |-> flag, body |-> Tail(plain.buf)]
    <3>1. Tail(plain.buf) \in Seq(Byte)
      <4>1. Encodable(frames)
        BY <2>1, <2>3, PlaintextFacts
      <4> QED
        BY <2>1, <4>1, PlaintextFacts DEF Sealed
    <3>2. PICK flag \in {"raw", "zstd"} : wire' = [flag |-> flag, body |-> Tail(plain.buf)]
      BY <2>3
    <3>3. wire' \in [flag : Flags, body : Seq(Byte)] /\ wire'.body = Tail(plain.buf)
      BY <3>1, <3>2 DEF Flags
    <3> QED
      BY <2>1, <2>3, <3>3 DEF BatchInv
  <2>4. \/ status' = "raised" /\ wire' = wire /\ ~ok
        \/ /\ status' = "sealed" /\ ok
           /\ \E flag \in {"raw", "zstd"} : wire' = [flag |-> flag, body |-> Tail(plain.buf)]
    BY <1>1 DEF Encode
  <2> QED
    BY <2>2, <2>3, <2>4
<1>2. CASE Replace
  <2>1. status = "sealed" /\ status' = status /\ batch' = batch /\ got' = got
    BY <1>2 DEF Replace
  <2>2. PICK flag \in Flags : wire' = [wire EXCEPT !.flag = flag]
    BY <1>2 DEF Replace, Flags
  <2>3. wire' \in [flag : Flags, body : Seq(Byte)] /\ wire'.body = wire.body
    BY <2>2 DEF BatchInv
  <2>4. got = Nothing
    BY <2>1 DEF BatchInv
  <2> QED
    BY <2>1, <2>3, <2>4 DEF BatchInv
<1>3. CASE Decode
  <2> DEFINE d == Decoded(wire.body)
  <2>1. status = "sealed" /\ batch' = batch /\ wire' = wire /\ got = Nothing
    BY <1>3 DEF Decode, BatchInv
  <2>2. d.ok = TRUE /\ d.client_id = ClientId /\ d.frames = batch
    <3>1. batch \in Seq(Frame) /\ Sealed(wire.body, batch)
      BY <2>1, PlaintextFacts DEF BatchInv
    <3>2. d = [client_id |-> ClientId, ok |-> TRUE, frames |-> batch]
      BY <3>1, DecodedFacts
    <3> HIDE DEF d
    <3> QED
      BY <3>2
  <2> HIDE DEF d
  <2>3. \/ wire.flag = "empty" /\ got' = Nothing /\ status' = "decoded"
        \/ /\ wire.flag \in {"raw", "zstd", "flate"}
           /\ got' = [client_id |-> ClientId, frames |-> batch] /\ status' = "decoded"
        \/ /\ wire.flag \in {"forged", "other"} /\ status' = "rejected" /\ got' = got
    BY <1>3, <2>2 DEF Decode, d
  <2> QED
    BY <2>1, <2>3 DEF BatchInv
<1>4. CASE Done
  <2>1. status' = "idle" /\ batch' = <<>> /\ got' = Nothing
        /\ wire' = [flag |-> "empty", body |-> <<>>]
    BY <1>4 DEF Done
  <2>2. batch' \in Seq(Frame) /\ <<>> \in Seq(Byte)
    BY <2>1
  <2> QED
    BY <2>1, <2>2 DEF BatchInv, Flags
<1>5. CASE UNCHANGED vars
  BY <1>5 DEF vars, BatchInv
<1> QED
  BY <1>1, <1>2, <1>3, <1>4, <1>5 DEF Next

LEMMA BatchInvKept == Spec => []BatchInv
BY BatchInvInit, BatchInvNext, PTL DEF Spec
----------------------------------------------------------------------------
(* The codec's state, and what was decoded, has its types for batches of   *)
(* any frames (decode_batch).                                              *)
THEOREM CodecTypeCorrect == Spec => []TypeOK
<1>1. BatchInv /\ SkipInv => TypeOK
  <2> SUFFICES ASSUME BatchInv, SkipInv PROVE TypeOK
    OBVIOUS
  <2>1. /\ skip_counter \in 0..(SkipCompressionAfter + RecheckAfter - 1)
        /\ skip_active \in BOOLEAN
    BY DEF SkipInv
  <2>2. Len(got.client_id) = ClientIDLen /\ got.frames \in Seq(Frame)
    <3>1. ZeroId \in [1..ClientIDLen -> {0}] /\ Len(ZeroId) = ClientIDLen
      BY SizeFacts DEF ZeroId
    <3>2. <<>> \in Seq(Frame) /\ batch \in Seq(Frame)
      BY DEF BatchInv
    <3>3. \/ got.client_id = ZeroId /\ got.frames = <<>>
          \/ got.client_id = ClientId /\ got.frames = batch
      BY DEF BatchInv, Nothing
    <3> QED
      BY <3>1, <3>2, <3>3, ClientIdTyped
  <2>3. ASSUME NEW i \in DOMAIN got.frames
        PROVE  /\ Len(got.frames[i].session_id) = SessionIDLen
               /\ got.frames[i].flags \in Byte /\ got.frames[i].seq \in Nat
    <3>1. got.frames[i] \in Frame
      BY <2>2
    <3> QED
      BY <3>1, FrameFacts
  <2>4. status \in {"idle", "raised", "sealed", "decoded", "rejected"}
    BY DEF BatchInv
  <2> QED
    BY <2>1, <2>2, <2>3, <2>4 DEF TypeOK
<1> QED
  BY <1>1, BatchInvKept, SkipInvKept, PTL

(* Whatever could be encoded is decoded to the frames it was made of, and  *)
(* only an envelope that does not open, or has a flag nobody knows, is     *)
(* rejected: for all targets and payloads, however much the bytearray grew *)
(* under marshal_into (encode_batch, decode_batch).                        *)
THEOREM RoundTripKept == Spec => []RoundTrip
<1>1. BatchInv => RoundTrip
  BY DEF BatchInv, RoundTrip
<1> QED
  BY <1>1, BatchInvKept, PTL

(* A batch can be encoded exactly when it is Encodable: its last payload   *)
(* must make up for what its targets have more bytes than characters.      *)
(* What is sealed then has the length that encoded_len announces           *)
(* (encode_batch, marshal_into).                                           *)
THEOREM EncodesExactly == Spec => []EncodesUnless
<1>1. BatchInv => EncodesUnless
  <2> SUFFICES ASSUME BatchInv PROVE EncodesUnless
    OBVIOUS
  <2>1. batch \in Seq(Frame)
    BY DEF BatchInv
  <2>2. status = "raised" => ~Encodable(batch)
    BY <2>1, PlaintextFacts DEF BatchInv
  <2>3. ASSUME status = "sealed"  PROVE Encodable(batch) /\ Sealed(wire.body, batch)
    BY <2>1, <2>3, PlaintextFacts DEF BatchInv
  <2> QED
    BY <2>2, <2>3 DEF EncodesUnless, Sealed, Taken
<1> QED
  BY <1>1, BatchInvKept, PTL

(* Compression is skipped exactly when the last SkipCompressionAfter tries *)
(* failed, and fewer than RecheckAfter big batches in a row go without a   *)
(* try, whatever small ones come between them (encode_batch's adaptive     *)
(* skipping).                                                              *)
THEOREM SkippingKept == Spec => []SkippingBounded
<1>1. SkipInv => SkippingBounded
  <2> SUFFICES ASSUME SkipInv PROVE SkippingBounded
    OBVIOUS
  <2>1. SkipCompressionAfter \in Nat /\ RecheckAfter \in Nat /\ RecheckAfter > 0
    BY LimitFacts
  <2>2. Place(skip_counter) \in 0..(RecheckAfter - 1)
    BY PlaceMoves DEF SkipInv
  <2> QED
    BY <2>1, <2>2 DEF SkipInv, SkippingBounded
<1> QED
  BY <1>1, SkipInvKept, PTL
=============================================================================
