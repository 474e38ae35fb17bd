--------------------------- MODULE ProgramProofs ---------------------------
(***************************************************************************)
(* Theorems about one program, for any config files, environment, answers  *)
(* at its prompts, and any moment at which it is interrupted, told to      *)
(* stop, or killed.                                                        *)
(*                                                                         *)
(* First what the loaders make of a file, above all of the list of         *)
(* deployment ids; then the invariant, which adds to the properties where  *)
(* a program of each mode can be, whose pid is in the pidfile, and what    *)
(* the file holds that was saved.                                          *)
(***************************************************************************)
EXTENDS Program, TLAPS, SequenceTheorems, WellFoundedInduction

LEMMA Least ==
    ASSUME NEW T, T \subseteq Nat, T # {}
    PROVE  \E m \in T : \A k \in T : m <= k
<1> DEFINE R == OpToRel(<, Nat)
<1>1. IsWellFoundedOn(R, Nat)
  BY NatLessThanWellFounded
<1>2. \A i, j \in Nat : i < j => <<i, j>> \in R
  BY DEF OpToRel
<1> HIDE DEF R
<1>3. PICK m \in T : \A k \in T : ~(<<k, m>> \in R)
  BY <1>1, WFMin
<1>4. SUFFICES ASSUME NEW k \in T PROVE m <= k
  OBVIOUS
<1>5. ~ (k < m)
  BY <1>2, <1>3
<1> QED
  BY <1>5

LEMMA Induct ==
    ASSUME NEW S, 0 \in S, \A n \in Nat : n \in S => n + 1 \in S
    PROVE  \A n \in Nat : n \in S
<1> DEFINE T == Nat \ S
<1> SUFFICES ASSUME T # {} PROVE FALSE
  OBVIOUS
<1>1. PICK m \in T : \A k \in T : m <= k
  BY Least
<1>2. m # 0 /\ m - 1 \in Nat /\ m - 1 \notin T
  BY <1>1
<1>3. (m - 1) + 1 = m
  BY <1>1
<1> QED
  BY <1>2, <1>3

(* Largest and smallest elements.                                          *)
LEMMA MinFacts ==
    ASSUME NEW T, T \subseteq Nat, T # {}
    PROVE  Min(T) \in T
<1>1. \E m \in T : \A k \in T : m <= k
  BY Least
<1> QED
  BY <1>1 DEF Min

LEMMA MaxFacts ==
    ASSUME NEW n \in Nat, NEW T, T \subseteq 0..n, T # {}
    PROVE  Max(T) \in T
<1> DEFINE D == {k \in Nat : n - k \in T}
<1>1. PICK t \in T : TRUE
  OBVIOUS
<1>2. n - t \in D
  BY <1>1
<1>3. PICK d \in D : \A k \in D : d <= k
  <2>1. D \subseteq Nat /\ D # {}
    BY <1>2
  <2> QED
    BY <2>1, Least
<1>4. n - d \in T /\ \A t2 \in T : n - d >= t2
  <2>1. ASSUME NEW t2 \in T PROVE n - t2 \in D
    OBVIOUS
  <2>2. ASSUME NEW t2 \in T PROVE n - d >= t2
    <3>1. d <= n - t2
      BY <2>1, <1>3
    <3>2. d \in Int /\ t2 \in Int
      BY <1>3
    <3> HIDE DEF D
    <3> QED
      BY <3>1, <3>2
  <2> QED
    BY <1>3, <2>2
<1> QED
  BY <1>4 DEF Max

LEMMA PairFacts ==
    ASSUME NEW a \in Int, NEW b \in Int
    PROVE  /\ Max({a, b}) \in {a, b} /\ Max({a, b}) >= a /\ Max({a, b}) >= b
           /\ Min({a, b}) \in {a, b} /\ Min({a, b}) <= a /\ Min({a, b}) <= b
<1>1. \E x \in {a, b} : \A y \in {a, b} : x >= y
  OBVIOUS
<1>2. \E x \in {a, b} : \A y \in {a, b} : x =< y
  OBVIOUS
<1> QED
  BY <1>1, <1>2 DEF Max, Min

LEMMA ClampFacts ==
    ASSUME NEW n \in Int
    PROVE  Clamp(n) \in 0..3
<1> DEFINE a == 0
           b == 3
           m == Min({b, n})
<1>1. a \in Int /\ b \in Int
  OBVIOUS
<1> HIDE DEF a, b
<1>2. m \in {b, n} /\ m <= b
  BY <1>1, PairFacts
<1> HIDE DEF m
<1>3. m \in Int
  BY <1>1, <1>2
<1>4. Max({a, m}) \in {a, m} /\ Max({a, m}) >= a
  BY <1>1, <1>3, PairFacts
<1>5. Clamp(n) = Max({a, m})
  BY DEF Clamp, a, b, m
<1> QED
  BY <1>2, <1>3, <1>4, <1>5 DEF a, b
----------------------------------------------------------------------------
(* Deployment ids.                                                         *)
Id == {<<name>> : name \in Text}

LEMMA FilledFacts ==
    ASSUME NEW id \in Seq(Text)
    PROVE  FilledParts(id) \subseteq 1..Len(id)
<1>1. DOMAIN id = 1..Len(id)
  OBVIOUS
<1> QED
  BY <1>1 DEF FilledParts

LEMMA TailTyped ==
    ASSUME NEW id \in Seq(Text)
    PROVE  WithoutTail(id) \in Seq(Text)
<1> DEFINE last == Max(FilledParts(id))
<1>1. CASE FilledParts(id) = {}
  BY <1>1 DEF WithoutTail
<1>2. CASE FilledParts(id) # {}
  <2>1. FilledParts(id) \subseteq 0..Len(id) /\ Len(id) \in Nat
    BY FilledFacts
  <2>2. last \in FilledParts(id)
    BY <1>2, <2>1, MaxFacts
  <2>3. last \in 1..Len(id)
    BY <2>2, FilledFacts
  <2> HIDE DEF last
  <2>4. SubSeq(id, 1, last) \in Seq(Text)
    BY <2>3
  <2>5. WithoutTail(id) = SubSeq(id, 1, last)
    BY <1>2 DEF WithoutTail, last
  <2> QED
    BY <2>4, <2>5
<1> QED
  BY <1>1, <1>2

LEMMA ExecTyped ==
    ASSUME NEW id \in Seq(Text)
    PROVE  WithoutExec(id) \in Seq(Text)
<1>1. CASE Len(id) > 1 /\ Last(id) = "exec"
  <2>1. SubSeq(id, 1, Len(id) - 1) \in Seq(Text)
    BY <1>1
  <2> QED
    BY <1>1, <2>1 DEF WithoutExec, Front
<1> QED
  BY <1>1 DEF WithoutExec

(* A list of parts that is not empty gives one id, whatever the parts.     *)
LEMMA PartChosen ==
    ASSUME NEW v \in Seq(Text)
    PROVE  LET filled == FilledParts(v)
               parts  == IF filled = {} THEN <<Empty>>
                         ELSE SubSeq(v, Min(filled), Max(filled))
           IN  parts \in Seq(Text) /\ Len(parts) >= 1
<1> DEFINE filled == FilledParts(v)
           first  == Min(filled)
           last   == Max(filled)
<1>1. CASE filled = {}
  <2>1. Empty \in Text
    BY ProgramAssumption
  <2>2. <<Empty>> \in Seq(Text) /\ Len(<<Empty>>) = 1
    BY <2>1
  <2> QED
    BY <1>1, <2>2
<1>2. CASE filled # {}
  <2>1. filled \subseteq 1..Len(v) /\ Len(v) \in Nat
    BY FilledFacts
  <2>2. filled \subseteq 0..Len(v) /\ filled \subseteq Nat
    BY <2>1
  <2>3. first \in filled /\ last \in filled
    BY <1>2, <2>1, <2>2, MaxFacts, MinFacts
  <2>4. first <= last
    <3>1. PICK m \in filled : \A k \in filled : m <= k
      BY <1>2, <2>2, Least
    <3>2. \A k \in filled : first <= k
      BY <3>1 DEF Min
    <3> QED
      BY <2>3, <3>2
  <2> HIDE DEF first, last
  <2>5. first \in 1..Len(v) /\ last \in 1..Len(v)
    BY <2>1, <2>3
  <2>6. SubSeq(v, first, last) \in Seq(Text)
    BY <2>5
  <2>7. Len(SubSeq(v, first, last)) = last - first + 1
    BY <2>4, <2>5
  <2>8. last - first + 1 >= 1
    BY <2>4, <2>5
  <2>9. SubSeq(v, Min(filled), Max(filled)) = SubSeq(v, first, last)
    BY DEF first, last
  <2> QED
    BY <1>2, <2>6, <2>7, <2>8, <2>9
<1> QED
  BY <1>1, <1>2

LEMMA Normalised ==
    ASSUME NEW id \in Seq(Text)
    PROVE  _normalize_deployment_id(id) \in Id
<1> DEFINE v      == WithoutExec(WithoutTail(id))
           filled == FilledParts(v)
           parts  == IF filled = {} THEN <<Empty>> ELSE SubSeq(v, Min(filled), Max(filled))
           at     == {i \in 1..(Len(parts) - 1) : parts[i] = "s"}
<1>1. v \in Seq(Text)
  BY TailTyped, ExecTyped
<1> HIDE DEF v
<1>2. parts \in Seq(Text) /\ Len(parts) >= 1
  BY <1>1, PartChosen
<1> HIDE DEF parts
<1>3. CASE at = {}
  <2>1. Last(parts) \in Text
    BY <1>2 DEF Last
  <2>2. _normalize_deployment_id(id) = <<Last(parts)>>
    BY <1>3 DEF _normalize_deployment_id, v, parts
  <2> QED
    BY <2>1, <2>2 DEF Id
<1>4. CASE at # {}
  <2> DEFINE first == Min(at)
  <2>1. at \subseteq Nat
    OBVIOUS
  <2>2. first \in at
    BY <1>4, <2>1, MinFacts
  <2> HIDE DEF first
  <2>3. first + 1 \in 1..Len(parts)
    BY <1>2, <2>2
  <2>4. parts[first + 1] \in Text
    BY <1>2, <2>3
  <2>5. _normalize_deployment_id(id) = <<parts[first + 1]>>
    BY <1>4 DEF _normalize_deployment_id, v, parts, first
  <2> QED
    BY <2>4, <2>5 DEF Id
<1> QED
  BY <1>3, <1>4

(* An id that is one word is in normal form.                               *)
LEMMA NormalForm ==
    ASSUME NEW name \in Text, name # Empty
    PROVE  _normalize_deployment_id(<<name>>) = <<name>>
<1> DEFINE id == <<name>>
<1>1. /\ id \in Seq(Text) /\ Len(id) = 1 /\ id[1] = name
      /\ DOMAIN id = {1} /\ SubSeq(id, 1, 1) = id
  <2>1. id \in Seq(Text) /\ Len(id) = 1 /\ id[1] = name
    OBVIOUS
  <2>2. \A i \in 1..1 : i = 1
    OBVIOUS
  <2>3. 1..1 = {1}
    BY <2>2
  <2>4. DOMAIN id = 1..1
    BY <2>1
  <2>5. SubSeq(id, 1, 1) = id
    <3> DEFINE cut == SubSeq(id, 1, 1)
    <3>1. \A i \in 1..1 : id[i] \in Text
      BY <2>1, <2>2
    <3>2. cut \in Seq(Text) /\ Len(cut) = 1 /\ cut[1] = id[1]
      BY <3>1, SubSeqProperties
    <3> HIDE DEF cut, id
    <3>3. Len(cut) = Len(id) /\ \A i \in 1..Len(cut) : cut[i] = id[i]
      BY <2>1, <2>2, <3>2
    <3>4. cut = id
      BY <2>1, <3>2, <3>3
    <3> QED
      BY <3>4 DEF cut
  <2> QED
    BY <2>1, <2>3, <2>4, <2>5
<1>2. FilledParts(id) = {1}
  BY <1>1 DEF FilledParts
<1>3. Max({1}) = 1 /\ Min({1}) = 1
  <2>1. {1} \subseteq 0..1 /\ {1} \subseteq Nat /\ {1} # {} /\ 1 \in Nat
    OBVIOUS
  <2>2. Max({1}) \in {1} /\ Min({1}) \in {1}
    BY <2>1, MaxFacts, MinFacts
  <2> QED
    BY <2>2
<1> HIDE DEF id
<1>4. WithoutTail(id) = id
  BY <1>1, <1>2, <1>3 DEF WithoutTail
<1>5. WithoutExec(id) = id
  <2>1. ~ (Len(id) > 1)
    BY <1>1
  <2> QED
    BY <2>1 DEF WithoutExec
<1>6. \A i \in 1..(Len(id) - 1) : FALSE
  <2>1. Len(id) - 1 = 0
    BY <1>1
  <2> QED
    BY <2>1
<1>7. {i \in 1..(Len(id) - 1) : id[i] = "s"} = {}
  BY <1>6
<1>8. Last(id) = name
  BY <1>1 DEF Last
<1>9. _normalize_deployment_id(id) = <<Last(id)>>
  BY <1>1, <1>2, <1>3, <1>4, <1>5, <1>7 DEF _normalize_deployment_id
<1> QED
  BY <1>8, <1>9 DEF id

(* _parse_script_keys, one id at a time.                                   *)
Noting(raw, n, f) ==
    f = [i \in 0..n |-> IF i = 0 THEN <<>>
                        ELSE Noted(f[i - 1], _normalize_deployment_id(raw[i]))]

LEMMA NotingUnfold ==
    ASSUME NEW raw, NEW n \in Nat, NEW f, Noting(raw, n, f)
    PROVE  /\ f[0] = <<>>
           /\ \A i \in 1..n : f[i] = Noted(f[i - 1], _normalize_deployment_id(raw[i]))
<1> DEFINE F(j) == IF j = 0 THEN <<>>
                   ELSE Noted(f[j - 1], _normalize_deployment_id(raw[j]))
<1>1. f = [j \in 0..n |-> F(j)]
  BY DEF Noting
<1> HIDE DEF F
<1>2. \A i \in 0..n : f[i] = F(i)
  BY <1>1
<1>3. 0 \in 0..n /\ \A i \in 1..n : i \in 0..n /\ i # 0
  OBVIOUS
<1> QED
  BY <1>2, <1>3 DEF F

LEMMA NotingExists ==
    ASSUME NEW raw
    PROVE  \A n \in Nat : \E f : Noting(raw, n, f)
<1> DEFINE I == {n \in Nat : \E f : Noting(raw, n, f)}
<1>1. 0 \in I
  <2> DEFINE g == [i \in 0..0 |-> <<>>]
  <2>1. \A i \in 0..0 : i = 0
    OBVIOUS
  <2>2. Noting(raw, 0, g)
    BY <2>1 DEF Noting
  <2> QED
    BY <2>2
<1>2. ASSUME NEW n \in Nat, n \in I  PROVE n + 1 \in I
  <2>1. PICK f : Noting(raw, n, f)
    BY <1>2
  <2> DEFINE G(h, i) == IF i = 0 THEN <<>>
                        ELSE Noted(h[i - 1], _normalize_deployment_id(raw[i]))
             g == [i \in 0..(n + 1) |-> G(f, i)]
  <2>2. f[0] = <<>> /\ \A i \in 1..n : f[i] = Noted(f[i - 1], _normalize_deployment_id(raw[i]))
    BY <2>1, NotingUnfold
  <2>3. \A i \in 0..n : i \in 0..(n + 1) /\ (i # 0 => i \in 1..n)
    OBVIOUS
  <2>4. \A i \in 0..n : f[i] = G(f, i)
    BY <2>2, <2>3
  <2> HIDE DEF G
  <2>5. \A i \in 0..n : g[i] = f[i]
    BY <2>3, <2>4
  <2> HIDE DEF g
  <2>6. \A i \in 0..(n + 1) : i # 0 => i - 1 \in 0..n
    OBVIOUS
  <2>7. ASSUME NEW i \in 0..(n + 1)  PROVE G(f, i) = G(g, i)
    BY <2>5, <2>6 DEF G
  <2>8. g = [i \in 0..(n + 1) |-> G(g, i)]
    BY <2>7 DEF g
  <2>9. Noting(raw, n + 1, g)
    BY <2>8 DEF Noting, G
  <2> QED
    BY <2>9
<1> HIDE DEF I
<1>3. \A n \in Nat : n \in I
  BY <1>1, <1>2, Induct
<1> QED
  BY <1>3 DEF I

LEMMA ParseIsNoting ==
    ASSUME NEW raw, Len(raw) \in Nat
    PROVE  \E f : Noting(raw, Len(raw), f) /\ _parse_script_keys(raw) = f[Len(raw)]
<1> DEFINE f == CHOOSE g : Noting(raw, Len(raw), g)
<1>1. Noting(raw, Len(raw), f)
  BY NotingExists
<1>2. _parse_script_keys(raw) = f[Len(raw)]
  BY DEF _parse_script_keys, Noting
<1> QED
  BY <1>1, <1>2

LEMMA AppendFacts ==
    ASSUME NEW S, NEW q \in Seq(S), NEW e \in S
    PROVE  /\ Append(q, e) \in Seq(S) /\ Len(Append(q, e)) = Len(q) + 1
           /\ \A i \in 1..Len(q) : Append(q, e)[i] = q[i]
           /\ Append(q, e)[Len(q) + 1] = e
OBVIOUS

(* One id more: still ids, and no two alike.                               *)
LEMMA NotedFacts ==
    ASSUME NEW seen \in Seq(Id), IsInjective(seen), NEW id \in Id
    PROVE  /\ Noted(seen, id) \in Seq(Id) /\ IsInjective(Noted(seen, id))
           /\ Noted(seen, id) # <<>>
<1>1. DOMAIN seen = 1..Len(seen) /\ Len(seen) \in Nat
  OBVIOUS
<1>2. CASE id \in ToSet(seen)
  <2>1. PICK i \in 1..Len(seen) : id = seen[i]
    BY <1>1, <1>2 DEF ToSet
  <2>2. seen # <<>>
    BY <2>1
  <2> QED
    BY <1>2, <2>2 DEF Noted
<1>3. CASE id \notin ToSet(seen)
  <2> DEFINE new == Append(seen, id)
  <2>1. /\ new \in Seq(Id) /\ Len(new) = Len(seen) + 1
        /\ \A i \in 1..Len(seen) : new[i] = seen[i]
        /\ new[Len(seen) + 1] = id
    BY AppendFacts
  <2>2. Noted(seen, id) = new
    BY <1>3 DEF Noted
  <2> HIDE DEF new
  <2>3. DOMAIN new = 1..(Len(seen) + 1)
    BY <2>1
  <2>4. \A i \in 1..Len(seen) : seen[i] # id
    BY <1>1, <1>3 DEF ToSet
  <2>5. ASSUME NEW a \in DOMAIN new, NEW b \in DOMAIN new, new[a] = new[b], a # b
        PROVE  FALSE
    <3>1. CASE a \in 1..Len(seen) /\ b \in 1..Len(seen)
      <4>1. seen[a] = seen[b]
        BY <2>1, <2>5, <3>1
      <4> QED
        BY <1>1, <2>5, <3>1, <4>1 DEF IsInjective
    <3>2. CASE a = Len(seen) + 1 /\ b \in 1..Len(seen)
      BY <2>1, <2>4, <2>5, <3>2
    <3>3. CASE b = Len(seen) + 1 /\ a \in 1..Len(seen)
      BY <2>1, <2>4, <2>5, <3>3
    <3>4. \A i \in 1..(Len(seen) + 1) : i \in 1..Len(seen) \/ i = Len(seen) + 1
      BY <1>1
    <3> QED
      BY <2>3, <2>5, <3>1, <3>2, <3>3, <3>4
  <2>6. IsInjective(new)
    BY <2>5 DEF IsInjective
  <2>7. new # <<>>
    BY <1>1, <2>1
  <2> QED
    BY <2>1, <2>2, <2>6, <2>7
<1> QED
  BY <1>2, <1>3

(* What is parsed is a list of ids that differ, and not an empty one.      *)
LEMMA Parsed ==
    ASSUME NEW raw \in Seq(Seq(Text))
    PROVE  /\ _parse_script_keys(raw) \in Seq(Id)
           /\ IsInjective(_parse_script_keys(raw))
           /\ raw # <<>> => _parse_script_keys(raw) # <<>>
<1> DEFINE n == Len(raw)
<1>1. n \in Nat /\ \A i \in 1..n : raw[i] \in Seq(Text)
  OBVIOUS
<1>2. PICK f : Noting(raw, n, f) /\ _parse_script_keys(raw) = f[n]
  BY <1>1, ParseIsNoting
<1>3. n = 0 => raw = <<>>
  OBVIOUS
<1> HIDE DEF n
<1>4. f[0] = <<>> /\ \A i \in 1..n : f[i] = Noted(f[i - 1], _normalize_deployment_id(raw[i]))
  BY <1>1, <1>2, NotingUnfold
<1> DEFINE Good(i) == /\ f[i] \in Seq(Id) /\ IsInjective(f[i])
                      /\ i > 0 => f[i] # <<>>
           I == {i \in Nat : i <= n => Good(i)}
<1>5. 0 \in I
  <2>1. <<>> \in Seq(Id) /\ IsInjective(<<>>)
    BY DEF IsInjective
  <2>2. ~ (0 > 0)
    OBVIOUS
  <2>3. Good(0)
    BY <1>4, <2>1, <2>2
  <2> HIDE DEF Good
  <2> QED
    BY <2>3
<1>6. ASSUME NEW i \in Nat, i \in I  PROVE i + 1 \in I
  <2> SUFFICES ASSUME i + 1 <= n PROVE Good(i + 1)
    OBVIOUS
  <2> DEFINE id == _normalize_deployment_id(raw[i + 1])
  <2>1. i + 1 \in 1..n /\ i <= n /\ (i + 1) - 1 = i
    BY <1>1
  <2>2. f[i + 1] = Noted(f[i], id)
    BY <1>4, <2>1
  <2>3. id \in Id
    BY <1>1, <2>1, Normalised
  <2>4. f[i] \in Seq(Id) /\ IsInjective(f[i])
    BY <1>6, <2>1
  <2> HIDE DEF id
  <2> QED
    BY <2>2, <2>3, <2>4, NotedFacts
<1> HIDE DEF I
<1>7. \A i \in Nat : i \in I
  BY <1>5, <1>6, Induct
<1>8. n \in I
  BY <1>1, <1>7
<1>9. Good(n)
  BY <1>1, <1>8 DEF I
<1>10. n # 0 => n > 0
  BY <1>1
<1> QED
  BY <1>2, <1>3, <1>9, <1>10

(* Ids that are in normal form and differ are parsed as they are.          *)
LEMMA ParsedAgain ==
    ASSUME NEW raw \in Seq(Id), IsInjective(raw),
           \A i \in 1..Len(raw) : raw[i] # <<Empty>>
    PROVE  _parse_script_keys(raw) = raw
<1> DEFINE n == Len(raw)
<1>1. n \in Nat /\ DOMAIN raw = 1..n /\ \A i \in 1..n : raw[i] \in Id
  OBVIOUS
<1>2. PICK f : Noting(raw, n, f) /\ _parse_script_keys(raw) = f[n]
  BY <1>1, ParseIsNoting
<1>a. \A i \in 1..n : raw[i] # <<Empty>>
  OBVIOUS
<1> HIDE DEF n
<1>3. f[0] = <<>> /\ \A i \in 1..n : f[i] = Noted(f[i - 1], _normalize_deployment_id(raw[i]))
  BY <1>1, <1>2, NotingUnfold
<1>4. ASSUME NEW i \in 1..n  PROVE _normalize_deployment_id(raw[i]) = raw[i]
  <2>1. PICK name \in Text : raw[i] = <<name>>
    BY <1>1 DEF Id
  <2>2. name # Empty
    BY <1>a, <2>1
  <2> QED
    BY <2>1, <2>2, NormalForm
<1> DEFINE Same(i) == /\ f[i] \in Seq(Id) /\ Len(f[i]) = i
                      /\ \A k \in 1..i : f[i][k] = raw[k]
           I == {i \in Nat : i <= n => Same(i)}
<1>5. 0 \in I
  <2>1. <<>> \in Seq(Id) /\ Len(<<>>) = 0 /\ \A k \in 1..0 : FALSE
    OBVIOUS
  <2> QED
    BY <1>3, <2>1
<1>6. ASSUME NEW i \in Nat, i \in I  PROVE i + 1 \in I
  <2> SUFFICES ASSUME i + 1 <= n PROVE Same(i + 1)
    OBVIOUS
  <2>1. i + 1 \in 1..n /\ i <= n /\ (i + 1) - 1 = i
    BY <1>1
  <2>2. f[i + 1] = Noted(f[i], raw[i + 1])
    BY <1>3, <1>4, <2>1
  <2>3. Same(i)
    BY <1>6, <2>1
  <2>4. \A k \in 1..i : k \in 1..n /\ k # i + 1
    BY <1>1, <2>1
  <2>5. DOMAIN f[i] = 1..i
    BY <2>3
  <2>6. raw[i + 1] \notin ToSet(f[i])
    <3> SUFFICES ASSUME NEW k \in 1..i, f[i][k] = raw[i + 1] PROVE FALSE
      BY <2>5 DEF ToSet
    <3>1. raw[k] = raw[i + 1]
      BY <2>3
    <3> QED
      BY <1>1, <2>1, <2>4, <3>1 DEF IsInjective
  <2>7. f[i + 1] = Append(f[i], raw[i + 1])
    BY <2>2, <2>6 DEF Noted
  <2>8. raw[i + 1] \in Id
    BY <1>1, <2>1
  <2>9. /\ f[i + 1] \in Seq(Id) /\ Len(f[i + 1]) = i + 1
        /\ \A k \in 1..i : f[i + 1][k] = f[i][k]
        /\ f[i + 1][i + 1] = raw[i + 1]
    BY <2>3, <2>7, <2>8, AppendFacts
  <2>10. \A k \in 1..(i + 1) : k \in 1..i \/ k = i + 1
    OBVIOUS
  <2>11. \A k \in 1..(i + 1) : f[i + 1][k] = raw[k]
    BY <2>3, <2>9, <2>10
  <2> QED
    BY <2>9, <2>11
<1> HIDE DEF I
<1>7. \A i \in Nat : i \in I
  BY <1>5, <1>6, Induct
<1>8. Same(n)
  <2>1. n \in I
    BY <1>1, <1>7
  <2> QED
    BY <1>1, <2>1 DEF I
<1>9. raw \in Seq(Id) /\ Len(raw) = n
  BY DEF n
<1>10. f[n] = raw
  BY <1>8, <1>9
<1> QED
  BY <1>2, <1>10
----------------------------------------------------------------------------
(* The loaders.                                                            *)
LEMMA StripFacts ==
    ASSUME NEW word \in Text
    PROVE  /\ Strip(word) \in Text /\ Strip(word) # Blank
           /\ word # Blank => Strip(word) = word
<1>1. Empty # Blank
  BY Zenon DEF Empty, Blank
<1>2. Empty \in Text
  BY ProgramAssumption
<1> QED
  BY <1>1, <1>2 DEF Strip

LEMMA IdsAreTexts == Id \subseteq Seq(Text)
<1> SUFFICES ASSUME NEW name \in Text PROVE <<name>> \in Seq(Text)
  BY DEF Id
<1> QED
  OBVIOUS

LEMMA SeqsGrow ==
    ASSUME NEW S, NEW T, S \subseteq T
    PROVE  Seq(S) \subseteq Seq(T)
<1> SUFFICES ASSUME NEW q \in Seq(S) PROVE q \in Seq(T)
  OBVIOUS
<1>1. Len(q) \in Nat /\ q = [i \in 1..Len(q) |-> q[i]] /\ \A i \in 1..Len(q) : q[i] \in T
  OBVIOUS
<1> QED
  BY <1>1

LEMMA ParsedTyped ==
    ASSUME NEW raw \in Seq(Seq(Text))
    PROVE  _parse_script_keys(raw) \in Seq(Seq(Text))
BY Parsed, IdsAreTexts, SeqsGrow

(* The fields of a config that has been loaded.                            *)
LEMMA ClientLoaded ==
    ASSUME NEW d \in ClientConfig
    PROVE  LET c == load_client_config(d)
           IN  /\ c \in ClientConfig
               /\ c.port = d.port /\ c.user = Strip(d.user) /\ c.pass = Strip(d.pass)
               /\ c.sni = IF d.sni = <<>> THEN <<"www.google.com">> ELSE d.sni
               /\ c.keys = IF d.relay = <<>> THEN _parse_script_keys(d.keys) ELSE <<>>
               /\ c.tunnel_key = d.tunnel_key /\ c.relay = d.relay
               /\ c.coalesce = d.coalesce
               /\ c.slots = IF d.slots = 0 THEN 2 ELSE d.slots
<1> DEFINE c == load_client_config(d)
           google == "www.google.com"
           sni  == IF d.sni = <<>> THEN <<google>> ELSE d.sni
           keys == IF d.relay = <<>> THEN _parse_script_keys(d.keys) ELSE <<>>
<1>1. /\ d.port \in Int /\ d.user \in Text /\ d.pass \in Text /\ d.sni \in Seq(Text)
      /\ d.keys \in Seq(Seq(Text)) /\ d.tunnel_key \in Text /\ d.relay \in Seq(Text)
      /\ d.coalesce \in Int /\ d.slots \in Int
  BY DEF ClientConfig
<1>2. Strip(d.user) \in Text /\ Strip(d.pass) \in Text
  BY <1>1, StripFacts
<1>3. sni \in Seq(Text)
  <2>1. google \in Text
    BY ProgramAssumption
  <2> HIDE DEF google
  <2> QED
    BY <1>1, <2>1
<1>4. keys \in Seq(Seq(Text))
  BY <1>1, ParsedTyped
<1>5. c = [d EXCEPT !.user = Strip(@), !.pass = Strip(@), !.sni = sni, !.keys = keys,
                    !.slots = IF @ = 0 THEN 2 ELSE @]
  BY DEF load_client_config
<1> HIDE DEF c, sni, keys, google
<1>6. c = [port |-> d.port, user |-> Strip(d.user), pass |-> Strip(d.pass), sni |-> sni,
           keys |-> keys, tunnel_key |-> d.tunnel_key, relay |-> d.relay,
           coalesce |-> d.coalesce, slots |-> IF d.slots = 0 THEN 2 ELSE d.slots]
  BY <1>5 DEF ClientConfig
<1>7. c \in ClientConfig
  BY <1>1, <1>2, <1>3, <1>4, <1>6 DEF ClientConfig
<1> QED
  BY <1>6, <1>7 DEF c, sni, keys, google

LEMMA ServerLoaded ==
    ASSUME NEW d \in ServerConfig
    PROVE  LET c == load_server_config(d)
           IN  /\ c \in ServerConfig
               /\ c = [port |-> d.port, tunnel_key |-> d.tunnel_key,
                       proxy |-> [scheme |-> Empty, host |-> d.proxy.host],
                       initial |-> d.initial]
<1> DEFINE c == load_server_config(d)
           p == [scheme |-> Empty, host |-> d.proxy.host]
<1>1. /\ d.port \in Int /\ d.tunnel_key \in Text /\ d.proxy \in Proxy /\ d.initial \in Int
  BY DEF ServerConfig
<1>2. Empty \in Text
  BY ProgramAssumption
<1>3. d.proxy = [scheme |-> d.proxy.scheme, host |-> d.proxy.host]
  BY <1>1 DEF Proxy, NoProxy
<1>4. p \in Proxy
  <2>1. CASE d.proxy = NoProxy
    BY <2>1 DEF Proxy, NoProxy
  <2>2. CASE d.proxy \in [scheme : Text, host : Text \ {Empty}]
    <3>1. d.proxy.host \in Text \ {Empty}
      BY <2>2
    <3> QED
      BY <1>2, <3>1 DEF Proxy
  <2> QED
    BY <1>1, <2>1, <2>2 DEF Proxy
<1>5. [d.proxy EXCEPT !.scheme = Empty] = p
  BY <1>3
<1>6. c = [d EXCEPT !.proxy = p]
  BY <1>5 DEF load_server_config
<1> HIDE DEF c, p
<1>7. c = [port |-> d.port, tunnel_key |-> d.tunnel_key, proxy |-> p, initial |-> d.initial]
  BY <1>6 DEF ServerConfig
<1>8. c \in ServerConfig
  BY <1>1, <1>4, <1>7 DEF ServerConfig
<1> QED
  BY <1>7, <1>8 DEF c, p

LEMMA LoadedTyped ==
    ASSUME how.role \in {"client", "server"}, NEW d \in Config(how.role)
    PROVE  Loaded(d) \in Config(how.role)
BY ClientLoaded, ServerLoaded DEF Loaded, Config

(* What a loader accepts it turns into something the tunnel can run with.  *)
LEMMA LoadedValid ==
    ASSUME how.role \in {"client", "server"}, NEW d \in Config(how.role), Loads(d)
    PROVE  Valid(Loaded(d))
<1>1. CASE how.role = "client"
  <2> DEFINE c == load_client_config(d)
             parsed == _parse_script_keys(d.keys)
  <2>1. d \in ClientConfig /\ ClientLoads(d)
    BY <1>1 DEF Config, Loads
  <2>2. /\ c.port = d.port /\ c.user = Strip(d.user) /\ c.pass = Strip(d.pass)
        /\ c.sni = IF d.sni = <<>> THEN <<"www.google.com">> ELSE d.sni
        /\ c.keys = IF d.relay = <<>> THEN parsed ELSE <<>>
        /\ c.tunnel_key = d.tunnel_key /\ c.relay = d.relay
        /\ c.coalesce = d.coalesce
        /\ c.slots = IF d.slots = 0 THEN 2 ELSE d.slots
    BY <2>1, ClientLoaded
  <2>3. d.user \in Text /\ d.pass \in Text /\ d.keys \in Seq(Seq(Text))
    BY <2>1 DEF ClientConfig
  <2>4. parsed \in Seq(Id) /\ IsInjective(parsed) /\ (d.keys # <<>> => parsed # <<>>)
    BY <2>3, Parsed
  <2> HIDE DEF parsed
  <2>5. \A id \in ToSet(parsed) : Len(id) = 1
    <3>1. ToSet(parsed) \subseteq Id
      BY <2>4 DEF ToSet
    <3>2. \A id \in Id : Len(id) = 1
      BY DEF Id
    <3> QED
      BY <3>1, <3>2
  <2>6. d.relay = <<>> => parsed # <<>> /\ \A id \in ToSet(parsed) : id[1] \in DeploymentIds
    BY <2>1, <2>4 DEF ClientLoads, _validate_deployment_id, parsed
  <2> HIDE DEF c
  <2>7. IsInjective(c.keys) /\ \A id \in ToSet(c.keys) : Len(id) = 1 /\ id[1] \in DeploymentIds
    <3>1. CASE d.relay = <<>>
      BY <2>2, <2>4, <2>5, <2>6, <3>1
    <3>2. CASE d.relay # <<>>
      <4>1. c.keys = <<>>
        BY <2>2, <3>2
      <4>2. IsInjective(<<>>) /\ ToSet(<<>>) = {}
        BY DEF IsInjective, ToSet
      <4> QED
        BY <4>1, <4>2
    <3> QED
      BY <3>1, <3>2
  <2>8. c.keys = <<>> => c.relay # <<>>
    BY <2>2, <2>6
  <2>9. c.sni # <<>>
    <3> DEFINE google == "www.google.com"
    <3>1. <<google>> # <<>>
      OBVIOUS
    <3> QED
      BY <2>2, <3>1
  <2>10. c.slots \in 1..3 /\ c.coalesce >= 0
    BY <2>1, <2>2 DEF ClientLoads
  <2>11. PortAccepted(c.port) /\ KeyAccepted(c.tunnel_key)
    BY <2>1, <2>2 DEF ClientLoads
  <2>12. (c.user = Empty <=> c.pass = Empty) /\ Blank \notin {c.user, c.pass}
    BY <2>1, <2>2, <2>3, StripFacts DEF ClientLoads
  <2>13. Loaded(d) = c
    BY <1>1 DEF Loaded, c
  <2> QED
    BY <2>7, <2>8, <2>9, <2>10, <2>11, <2>12, <2>13 DEF Valid
<1>2. CASE how.role = "server"
  <2> DEFINE c == load_server_config(d)
  <2>1. d \in ServerConfig /\ ServerLoads(d)
    BY <1>2 DEF Config, Loads
  <2>2. c.port = d.port /\ c.tunnel_key = d.tunnel_key
    BY <2>1, ServerLoaded
  <2>3. Loaded(d) = c
    BY <1>2 DEF Loaded
  <2> HIDE DEF c
  <2> QED
    BY <1>2, <2>1, <2>2, <2>3 DEF Valid, ServerLoads
<1> QED
  BY <1>1, <1>2

(* A valid config that is saved: what a loader makes of the file.          *)
LEMMA DumpTyped ==
    ASSUME how.role \in {"client", "server"}, NEW c \in Config(how.role)
    PROVE  Dump(c) \in Config(how.role)
<1>1. CASE how.role = "client"
  <2>1. c \in ClientConfig /\ <<>> \in Seq(Text)
    BY <1>1 DEF Config
  <2>2. [c EXCEPT !.relay = <<>>] \in ClientConfig
    BY <2>1 DEF ClientConfig
  <2> QED
    BY <1>1, <2>2 DEF Config, Dump, ClientDump
<1>2. CASE how.role = "server"
  <2>1. c \in ServerConfig
    BY <1>2 DEF Config
  <2>2. [c EXCEPT !.initial = 0] \in ServerConfig
    BY <2>1 DEF ServerConfig
  <2> QED
    BY <1>2, <2>2 DEF Config, Dump, ServerDump
<1> QED
  BY <1>1, <1>2

LEMMA ClientReloads ==
    ASSUME how.role = "client", NEW c \in ClientConfig, Valid(c)
    PROVE  c.relay = <<>> <=> ClientLoads(ClientDump(c)) /\ load_client_config(ClientDump(c)) = c
<1> DEFINE d == ClientDump(c)
           k == load_client_config(d)
<1>1. d = [c EXCEPT !.relay = <<>>]
  BY DEF ClientDump
<1>2. /\ d \in ClientConfig /\ d.relay = <<>>
      /\ d.port = c.port /\ d.user = c.user /\ d.pass = c.pass /\ d.sni = c.sni
      /\ d.keys = c.keys /\ d.tunnel_key = c.tunnel_key /\ d.coalesce = c.coalesce
      /\ d.slots = c.slots
  <2>1. <<>> \in Seq(Text)
    OBVIOUS
  <2> HIDE DEF d
  <2> QED
    BY <1>1, <2>1 DEF ClientConfig
<1> HIDE DEF d
<1>3. /\ k \in ClientConfig
      /\ k.port = d.port /\ k.user = Strip(d.user) /\ k.pass = Strip(d.pass)
      /\ k.sni = IF d.sni = <<>> THEN <<"www.google.com">> ELSE d.sni
      /\ k.keys = _parse_script_keys(d.keys)
      /\ k.tunnel_key = d.tunnel_key /\ k.relay = d.relay /\ k.coalesce = d.coalesce
      /\ k.slots = IF d.slots = 0 THEN 2 ELSE d.slots
  BY <1>2, ClientLoaded
<1> HIDE DEF k
<1>4. k.relay = <<>>
  BY <1>2, <1>3
<1>5. SUFFICES ASSUME c.relay = <<>>
               PROVE  ClientLoads(d) /\ k = c
  <2>1. k = c => c.relay = <<>>
    BY <1>4
  <2> QED
    BY <2>1 DEF d, k
<1>6. /\ PortAccepted(c.port) /\ KeyAccepted(c.tunnel_key)
      /\ IsInjective(c.keys)
      /\ \A id \in ToSet(c.keys) : Len(id) = 1 /\ id[1] \in DeploymentIds
      /\ c.keys # <<>> /\ c.sni # <<>> /\ c.slots \in 1..3 /\ c.coalesce >= 0
      /\ (c.user = Empty <=> c.pass = Empty)
      /\ c.user # Blank /\ c.pass # Blank
  BY <1>5 DEF Valid
<1>7. /\ c.user \in Text /\ c.pass \in Text /\ c.keys \in Seq(Seq(Text))
  BY DEF ClientConfig
<1>8. Strip(c.user) = c.user /\ Strip(c.pass) = c.pass
  BY <1>6, <1>7, StripFacts
<1>9. c.keys \in Seq(Id) /\ \A i \in 1..Len(c.keys) : c.keys[i] # <<Empty>>
  <2> DEFINE q == c.keys
  <2>1. Len(q) \in Nat /\ DOMAIN q = 1..Len(q) /\ \A i \in 1..Len(q) : q[i] \in Seq(Text)
    BY <1>7
  <2>2. \A i \in 1..Len(q) : q[i] \in ToSet(q)
    BY <2>1 DEF ToSet
  <2>3. ASSUME NEW i \in 1..Len(q)  PROVE q[i] \in Id /\ q[i] # <<Empty>>
    <3> DEFINE id == q[i]
    <3>1. Len(id) = 1 /\ id[1] \in DeploymentIds /\ id \in Seq(Text)
      BY <1>6, <2>1, <2>2
    <3> HIDE DEF id
    <3>2. id = <<id[1]>>
      BY <3>1
    <3>3. id[1] \in Text /\ id[1] # Empty
      BY <3>1, ProgramAssumption
    <3>4. <<Empty>>[1] = Empty
      OBVIOUS
    <3>5. id \in Id /\ id # <<Empty>>
      BY <3>2, <3>3, <3>4 DEF Id
    <3> QED
      BY <3>5 DEF id
  <2>4. q \in Seq(Seq(Text))
    BY <1>7
  <2> HIDE DEF q
  <2>5. q = [i \in 1..Len(q) |-> q[i]]
    BY <2>4
  <2>6. q \in Seq(Id)
    BY <2>1, <2>3, <2>5
  <2> QED
    BY <2>3, <2>6 DEF q
<1>10. _parse_script_keys(c.keys) = c.keys
  BY <1>6, <1>9, ParsedAgain
<1>11. ClientLoads(d)
  <2>1. \A id \in ToSet(_parse_script_keys(d.keys)) : _validate_deployment_id(id)
    BY <1>2, <1>6, <1>10 DEF _validate_deployment_id
  <2>2. d.slots \in 0..3
    BY <1>2, <1>6
  <2> QED
    BY <1>2, <1>6, <1>8, <2>1, <2>2 DEF ClientLoads
<1>12. k.slots = c.slots
  BY <1>2, <1>3, <1>6
<1>13. k.sni = c.sni
  BY <1>2, <1>3, <1>6
<1>14. k = c
  BY <1>2, <1>3, <1>5, <1>8, <1>10, <1>12, <1>13, SMTT(40) DEF ClientConfig
<1> QED
  BY <1>11, <1>14

LEMMA ServerReloads ==
    ASSUME how.role = "server", NEW c \in ServerConfig, Valid(c)
    PROVE  c.proxy.host = Empty /\ c.initial = 0 <=>
               ServerLoads(ServerDump(c)) /\ load_server_config(ServerDump(c)) = c
<1> DEFINE d == ServerDump(c)
           k == load_server_config(d)
<1>1. d = [c EXCEPT !.initial = 0]
  BY DEF ServerDump
<1>2. /\ d \in ServerConfig /\ d.initial = 0
      /\ d.port = c.port /\ d.tunnel_key = c.tunnel_key /\ d.proxy = c.proxy
  <2> HIDE DEF d
  <2> QED
    BY <1>1 DEF ServerConfig
<1> HIDE DEF d
<1>3. k = [port |-> d.port, tunnel_key |-> d.tunnel_key,
           proxy |-> [scheme |-> Empty, host |-> d.proxy.host], initial |-> d.initial]
  BY <1>2, ServerLoaded
<1> HIDE DEF k
<1>4. c.proxy = NoProxy \/ c.proxy \in [scheme : Text, host : Text \ {Empty}]
  BY DEF ServerConfig, Proxy
<1>5. ASSUME c.proxy.host = Empty, c.initial = 0  PROVE ServerLoads(d) /\ k = c
  <2>1. c.proxy = NoProxy
    <3>1. ASSUME c.proxy \in [scheme : Text, host : Text \ {Empty}] PROVE FALSE
      BY <1>5, <3>1
    <3> QED
      BY <1>4, <3>1
  <2>2. ServerLoads(d)
    BY <1>2, <1>5 DEF ServerLoads, Valid
  <2>3. k = [port |-> c.port, tunnel_key |-> c.tunnel_key, proxy |-> c.proxy, initial |-> c.initial]
    BY <1>2, <1>3, <1>5, <2>1 DEF NoProxy
  <2>4. k = c
    BY <2>3 DEF ServerConfig
  <2> QED
    BY <2>2, <2>4
<1>6. ASSUME ServerLoads(d), k = c  PROVE c.proxy.host = Empty /\ c.initial = 0
  <2>1. c.initial = 0 /\ c.proxy.scheme = Empty
    BY <1>2, <1>3, <1>6
  <2>2. ASSUME c.proxy.host # Empty PROVE FALSE
    <3>1. c.proxy.scheme = "socks5"
      BY <1>2, <1>6, <2>2 DEF ServerLoads
    <3>2. Empty # "socks5"
      BY Zenon DEF Empty
    <3> QED
      BY <2>1, <3>1, <3>2
  <2> QED
    BY <2>1, <2>2
<1> QED
  BY <1>5, <1>6 DEF d, k

LEMMA Reloads ==
    ASSUME how.role \in {"client", "server"}, NEW c \in Config(how.role), Valid(c)
    PROVE  Survives(c) <=> Loads(Dump(c)) /\ Loaded(Dump(c)) = c
<1>1. CASE how.role = "client"
  BY <1>1, ClientReloads DEF Config, Survives, Loads, Loaded, Dump
<1>2. CASE how.role = "server"
  BY <1>2, ServerReloads DEF Config, Survives, Loads, Loaded, Dump
<1> QED
  BY <1>1, <1>2
----------------------------------------------------------------------------
(* Which modes lead where: a menu is shown in a shell, a daemon detaches   *)
(* and leaves, and systemd runs daemons.                                   *)
Modes ==
    /\ stage \in {"menu", "saving"} => how.mode = "shell"
    /\ stage \in {"detaching", "detached", "named", "leaving"} => how.mode = "daemon"
    /\ unit # "none" => how.supervised

(* One file is torn at most, the one that is open; a program that ended    *)
(* over it is not started again.                                           *)
Saving ==
    /\ \A p \in Paths : files[p] = Torn <=> saving # Nothing /\ saving.path = p
    /\ stage = "saving" => saving # Nothing
    /\ saving # Nothing => stage \in {"saving", "ended"} /\ how.mode = "shell"

(* A file that was saved holds what is saved of its config.                *)
Kept ==
    \A p \in Paths : origin[p] # Nothing => files[p] = File(Dump(origin[p]))

(* The pidfile, from when it is written to the end of the daemon.          *)
Written == {"named", "starting", "serving", "ending", "leaving"}
Owned ==
    /\ how.mode = "daemon" /\ stage \in Written /\ other = "no" /\ how.pidfile_ok =>
          pidfile = "self"
    /\ pidfile = "self" => how.mode = "daemon"
    /\ pidfile = "self" /\ ~how.supervised =>
          \/ stage \in Written
          \/ stage = "ended" /\ status = "signal"

ProgramInv == TypeOK /\ Modes /\ Saving /\ Kept /\ Owned /\ LoadedIsValid

(* A config is not what stands for none, nor a file.                       *)
LEMMA Apart ==
    /\ Nothing # Torn
    /\ \A d : File(d) # Nothing /\ File(d) # Torn /\ File(d).json = d
    /\ \A d : "json" \in DOMAIN File(d)
    /\ ~ ("json" \in DOMAIN Nothing) /\ ~ ("json" \in DOMAIN Torn)
    /\ \A p, by : [path |-> p, by |-> by] # Nothing
<1>1. DOMAIN Nothing = {"missing"} /\ DOMAIN Torn = {"torn"}
  BY DEF Nothing, Torn
<1>2. \A d : DOMAIN File(d) = {"json"} /\ File(d).json = d
  BY DEF File
<1>3. \A p, by : DOMAIN [path |-> p, by |-> by] = {"path", "by"}
  OBVIOUS
<1> QED
  BY <1>1, <1>2, <1>3

LEMMA ConfigsApart ==
    ASSUME NEW role \in {"client", "server"}, NEW c \in Config(role)
    PROVE  c # Nothing
<1>1. "port" \in DOMAIN c
  BY DEF Config, ClientConfig, ServerConfig
<1>2. ~ ("port" \in DOMAIN Nothing)
  BY DEF Nothing
<1> QED
  BY <1>1, <1>2

LEMMA FilesHold ==
    ASSUME NEW role, NEW f \in {Nothing, Torn} \cup [json : Config(role)], "json" \in DOMAIN f
    PROVE  f.json \in Config(role) /\ f = File(f.json)
<1>1. f \in [json : Config(role)]
  BY Apart
<1> QED
  BY <1>1 DEF File

LEMMA FileTyped ==
    ASSUME NEW role, NEW c \in Config(role)
    PROVE  File(c) \in [json : Config(role)]
BY DEF File

LEMMA HowFacts ==
    ASSUME how \in Setups
    PROVE  /\ how.role \in {"client", "server"} /\ how.mode \in {"shell", "headless", "daemon"}
           /\ how.supervised \in BOOLEAN /\ how.pidfile_ok \in BOOLEAN
           /\ how.supervised => how.mode = "daemon"
BY ProgramAssumption

(* What is typed keeps a config one.                                       *)
LEMMA ClientSet ==
    ASSUME NEW c \in ClientConfig
    PROVE  /\ \A port \in Int, user \in Text, pass \in Text :
                [c EXCEPT !.port = port, !.user = user, !.pass = pass] \in ClientConfig
           /\ \A sni \in Seq(Text) : [c EXCEPT !.sni = sni] \in ClientConfig
           /\ \A keys \in Seq(Seq(Text)) : [c EXCEPT !.keys = keys] \in ClientConfig
           /\ \A key \in Text : [c EXCEPT !.tunnel_key = key] \in ClientConfig
           /\ \A n \in Int : [c EXCEPT !.coalesce = n] \in ClientConfig
           /\ \A n \in Int : [c EXCEPT !.slots = n] \in ClientConfig
           /\ \A key \in Text, n \in Int, m \in Int :
                [c EXCEPT !.tunnel_key = key, !.coalesce = n, !.slots = m] \in ClientConfig
BY DEF ClientConfig

LEMMA ServerSet ==
    ASSUME NEW c \in ServerConfig
    PROVE  /\ \A port \in Int : [c EXCEPT !.port = port] \in ServerConfig
           /\ \A key \in Text : [c EXCEPT !.tunnel_key = key] \in ServerConfig
           /\ \A proxy \in Proxy : [c EXCEPT !.proxy = proxy] \in ServerConfig
BY DEF ServerConfig

LEMMA KeyRemoved ==
    ASSUME NEW keys \in Seq(Seq(Text)), NEW i \in DOMAIN keys
    PROVE  RemoveAt(keys, i) \in Seq(Seq(Text))
<1>1. i \in 1..Len(keys) /\ Len(keys) \in Nat
  OBVIOUS
<1>2. SubSeq(keys, 1, i - 1) \in Seq(Seq(Text))
  BY <1>1
<1>3. SubSeq(keys, i + 1, Len(keys)) \in Seq(Seq(Text))
  BY <1>1
<1> QED
  BY <1>2, <1>3 DEF RemoveAt

LEMMA Edited ==
    ASSUME how \in Setups, config \in {Nothing} \cup Config(how.role), Edit
    PROVE  /\ config' \in Config(how.role) /\ touched' = TRUE
           /\ stage = "menu" /\ config # Nothing
           /\ edits < MaxEdits /\ edits' = edits + 1
           /\ UNCHANGED <<fixed, disk, config_path, net, tty, pid, stage, shutdown,
                          unit, status>>
<1>1. config # Nothing => config \in Config(how.role)
  OBVIOUS
<1>2. /\ \A r \in {"client", "server"} : Editing(r) =>
           /\ how.role = r /\ config \in Config(r) /\ touched' = TRUE
           /\ stage = "menu" /\ config # Nothing
           /\ edits < MaxEdits /\ edits' = edits + 1
           /\ UNCHANGED <<fixed, disk, config_path, net, tty, pid, stage, shutdown,
                          unit, status>>
  BY <1>1 DEF Editing, Prompted, AtPrompt
<1>3. \E r \in {"client", "server"} : Editing(r)
  BY DEF Edit, _edit_socks, _edit_google, _manage_script_keys, _set_tunnel_key,
         _set_coalesce, _set_idle_slots, _edit_listen, _toggle_proxy
<1>4. /\ Ports \subseteq Int /\ Words \subseteq Text /\ Sni \subseteq Seq(Text)
      /\ Ids \subseteq Seq(Text) /\ Proxies \subseteq Proxy /\ NoProxy \in Proxy
      /\ HexKeys \subseteq Text /\ TypedKeys \subseteq Text
  BY ProgramAssumption DEF Proxy
<1>5. config' \in Config(how.role)
  <2>1. CASE _edit_socks
    <3>1. config \in ClientConfig /\ how.role = "client"
      BY <1>2, <2>1 DEF _edit_socks, Config
    <3>2. PICK port \in Ports, user \in Words, pass \in Words :
             config' = [config EXCEPT !.port = port, !.user = user, !.pass = pass]
      BY <2>1 DEF _edit_socks
    <3> QED
      BY <1>4, <3>1, <3>2, ClientSet DEF Config
  <2>2. CASE _edit_google
    <3>1. config \in ClientConfig /\ how.role = "client"
      BY <1>2, <2>2 DEF _edit_google, Config
    <3>2. PICK sni \in Sni : config' = [config EXCEPT !.sni = sni]
      BY <2>2 DEF _edit_google
    <3> QED
      BY <1>4, <3>1, <3>2, ClientSet DEF Config
  <2>3. CASE _manage_script_keys
    <3>1. config \in ClientConfig /\ how.role = "client"
      BY <1>2, <2>3 DEF _manage_script_keys, Config
    <3>2. config.keys \in Seq(Seq(Text))
      BY <3>1 DEF ClientConfig
    <3>3. CASE \E id \in Ids : config' = [config EXCEPT !.keys = Append(@, id)]
      <4>1. PICK id \in Ids : config' = [config EXCEPT !.keys = Append(config.keys, id)]
        BY <3>3
      <4>2. Append(config.keys, id) \in Seq(Seq(Text))
        BY <1>4, <3>2
      <4> QED
        BY <3>1, <4>1, <4>2, ClientSet DEF Config
    <3>4. CASE \E i \in DOMAIN config.keys : config' = [config EXCEPT !.keys = RemoveAt(@, i)]
      <4>1. PICK i \in DOMAIN config.keys :
               config' = [config EXCEPT !.keys = RemoveAt(config.keys, i)]
        BY <3>4
      <4>2. RemoveAt(config.keys, i) \in Seq(Seq(Text))
        BY <3>2, KeyRemoved
      <4> QED
        BY <3>1, <4>1, <4>2, ClientSet DEF Config
    <3> QED
      BY <2>3, <3>3, <3>4 DEF _manage_script_keys
  <2>4. CASE _set_tunnel_key
    <3>1. PICK key \in Text : config' = [config EXCEPT !.tunnel_key = key]
      BY <1>4, <2>4 DEF _set_tunnel_key
    <3>2. PICK r \in {"client", "server"} : how.role = r /\ config \in Config(r)
      BY <1>2, <2>4 DEF _set_tunnel_key
    <3> QED
      BY <3>1, <3>2, ClientSet, ServerSet DEF Config
  <2>5. CASE _set_coalesce
    <3>1. config \in ClientConfig /\ how.role = "client"
      BY <1>2, <2>5 DEF _set_coalesce, Config
    <3>2. PICK n \in {-1, 25} : config' = [config EXCEPT !.coalesce = Max({0, n})]
      BY <2>5 DEF _set_coalesce
    <3> DEFINE m == Max({0, n})
    <3>3. 0 \in Int /\ n \in Int
      OBVIOUS
    <3>4. m \in {0, n}
      BY <3>3, PairFacts
    <3> HIDE DEF m
    <3>5. m \in Int
      BY <3>3, <3>4
    <3>6. config' = [config EXCEPT !.coalesce = m]
      BY <3>2 DEF m
    <3> QED
      BY <3>1, <3>5, <3>6, ClientSet DEF Config
  <2>6. CASE _set_idle_slots
    <3>1. config \in ClientConfig /\ how.role = "client"
      BY <1>2, <2>6 DEF _set_idle_slots, Config
    <3>2. PICK n \in {0, 3, 4} : config' = [config EXCEPT !.slots = Clamp(n)]
      BY <2>6 DEF _set_idle_slots
    <3>3. Clamp(n) \in Int
      <4>1. n \in Int
        OBVIOUS
      <4>2. Clamp(n) \in 0..3
        BY <4>1, ClampFacts
      <4> QED
        BY <4>2
    <3> QED
      BY <3>1, <3>2, <3>3, ClientSet DEF Config
  <2>7. CASE _edit_listen
    <3>1. config \in ServerConfig /\ how.role = "server"
      BY <1>2, <2>7 DEF _edit_listen, Config
    <3>2. PICK port \in Ports : config' = [config EXCEPT !.port = port]
      BY <2>7 DEF _edit_listen
    <3> QED
      BY <1>4, <3>1, <3>2, ServerSet DEF Config
  <2>8. CASE _toggle_proxy
    <3>1. config \in ServerConfig /\ how.role = "server"
      BY <1>2, <2>8 DEF _toggle_proxy, Config
    <3>2. PICK proxy \in Proxy : config' = [config EXCEPT !.proxy = proxy]
      BY <1>4, <2>8 DEF _toggle_proxy
    <3> QED
      BY <3>1, <3>2, ServerSet DEF Config
  <2> QED
    BY <2>1, <2>2, <2>3, <2>4, <2>5, <2>6, <2>7, <2>8 DEF Edit
<1> QED
  BY <1>2, <1>3, <1>5

(* What the environment sets has the type of its field.                    *)
LEMMA Overridden ==
    ASSUME how \in Setups, env \in Environments(how.role), NEW c \in Config(how.role)
    PROVE  apply_env_overrides(c) \in Config(how.role)
<1>1. how.role \in {"client", "server"}
  BY HowFacts
<1>2. /\ DOMAIN env \subseteq DOMAIN EnvFields \cup {"unparsable"}
      /\ \A f \in DOMAIN env \ {"unparsable"} : env[f] \in EnvFields[f]
  BY <1>1, ProgramAssumption
<1>3. /\ "port" \in DOMAIN env => env["port"] \in Int
      /\ "user" \in DOMAIN env => env["user"] \in Text
      /\ "pass" \in DOMAIN env => env["pass"] \in Text
      /\ "sni" \in DOMAIN env => env["sni"] \in Seq(Text)
      /\ "keys" \in DOMAIN env => env["keys"] \in Seq(Seq(Text))
      /\ "tunnel_key" \in DOMAIN env => env["tunnel_key"] \in Text
      /\ "coalesce" \in DOMAIN env => env["coalesce"] \in Int
      /\ "slots" \in DOMAIN env => env["slots"] \in Int
      /\ "proxy" \in DOMAIN env => env["proxy"] \in Proxy
      /\ "relay" \notin DOMAIN env /\ "initial" \notin DOMAIN env
  BY <1>2 DEF EnvFields
<1>4. CASE how.role = "client"
  <2> DEFINE k == client_env_overrides(c)
  <2>1. c \in ClientConfig
    BY <1>4 DEF Config
  <2>2. DOMAIN c = {"port", "user", "pass", "sni", "keys", "tunnel_key", "relay",
                    "coalesce", "slots"}
    BY <2>1 DEF ClientConfig
  <2>3. "slots" \in DOMAIN env => Clamp(env["slots"]) \in Int
    <3>1. ASSUME "slots" \in DOMAIN env PROVE Clamp(env["slots"]) \in 0..3
      BY <1>3, <3>1, ClampFacts
    <3> QED
      BY <3>1
  <2>4. k = [f \in DOMAIN c |-> IF f \notin DOMAIN env THEN c[f]
                               ELSE IF f = "slots" THEN Clamp(env[f]) ELSE env[f]]
    BY DEF client_env_overrides
  <2> HIDE DEF k
  <2>5. /\ c["port"] \in Int /\ c["user"] \in Text /\ c["pass"] \in Text
        /\ c["sni"] \in Seq(Text) /\ c["keys"] \in Seq(Seq(Text))
        /\ c["tunnel_key"] \in Text /\ c["relay"] \in Seq(Text)
        /\ c["coalesce"] \in Int /\ c["slots"] \in Int
    BY <2>1 DEF ClientConfig
  <2>6. /\ k["port"] \in Int /\ k["user"] \in Text /\ k["pass"] \in Text
        /\ k["sni"] \in Seq(Text) /\ k["keys"] \in Seq(Seq(Text))
        /\ k["tunnel_key"] \in Text /\ k["relay"] \in Seq(Text)
        /\ k["coalesce"] \in Int /\ k["slots"] \in Int
    BY <1>3, <2>2, <2>3, <2>4, <2>5
  <2>7. k = [port |-> k["port"], user |-> k["user"], pass |-> k["pass"], sni |-> k["sni"],
             keys |-> k["keys"], tunnel_key |-> k["tunnel_key"], relay |-> k["relay"],
             coalesce |-> k["coalesce"], slots |-> k["slots"]]
    BY <2>2, <2>4
  <2>8. k \in ClientConfig
    BY <2>6, <2>7 DEF ClientConfig
  <2> QED
    BY <1>4, <2>8 DEF Config, apply_env_overrides, k
<1>5. CASE how.role = "server"
  <2> DEFINE k == server_env_overrides(c)
  <2>1. c \in ServerConfig
    BY <1>5 DEF Config
  <2>2. DOMAIN c = {"port", "tunnel_key", "proxy", "initial"}
    BY <2>1 DEF ServerConfig
  <2>3. k = [f \in DOMAIN c |-> IF f \in DOMAIN env THEN env[f] ELSE c[f]]
    BY DEF server_env_overrides
  <2> HIDE DEF k
  <2>4. /\ c["port"] \in Int /\ c["tunnel_key"] \in Text /\ c["proxy"] \in Proxy
        /\ c["initial"] \in Int
    BY <2>1 DEF ServerConfig
  <2>5. /\ k["port"] \in Int /\ k["tunnel_key"] \in Text /\ k["proxy"] \in Proxy
        /\ k["initial"] \in Int
    BY <1>3, <2>2, <2>3, <2>4
  <2>6. k = [port |-> k["port"], tunnel_key |-> k["tunnel_key"], proxy |-> k["proxy"],
             initial |-> k["initial"]]
    BY <2>2, <2>3
  <2>7. k \in ServerConfig
    BY <2>5, <2>6 DEF ServerConfig
  <2> QED
    BY <1>5, <2>7 DEF Config, apply_env_overrides, k
<1> QED
  BY <1>1, <1>4, <1>5
----------------------------------------------------------------------------
(* Steps that leave configs and files alone.                               *)
Idle ==
    \/ Mistype \/ SaveFails \/ Quit \/ StartChosen
    \/ KeyRejected \/ StartTunnel \/ TunnelDone \/ StartServer \/ StartServerFails
    \/ Wake \/ Cleanup
    \/ _daemonize \/ _write_pidfile \/ _setup_signal_handlers \/ _remove_pidfile
    \/ CtrlC \/ Terminate \/ Kill \/ OtherStarts \/ OtherEnds \/ UnitEnds

LEMMA NextIs ==
    Next <=> \/ Edit \/ (\E path \in Paths : OnFile(path)) \/ Start \/ Saved
             \/ UnitRestarts \/ Idle
BY DEF Next, Steps, Idle

LEMMA IdleLeaves == Idle => UNCHANGED <<fixed, disk, conf>>
BY DEF Idle, Mistype, SaveFails, Quit, StartChosen, KeyRejected, StartTunnel, TunnelDone,
       StartServer, StartServerFails, Wake, Cleanup, _daemonize, _write_pidfile,
       _setup_signal_handlers, _remove_pidfile, CtrlC, Terminate, Kill, OtherStarts,
       OtherEnds, UnitEnds, Exits, Prompted, Raises, Serve, Returns, DaemonStep,
       conf, disk, fixed

(* The halves of TypeOK: configs and files, and everything else.           *)
Data ==
    /\ how \in Setups /\ env \in Environments(how.role)
    /\ DOMAIN files = Paths
    /\ \A p \in Paths : files[p] \in {Nothing, Torn} \cup [json : Config(how.role)]
    /\ DOMAIN origin = Paths
    /\ \A p \in Paths : origin[p] \in {Nothing} \cup Config(how.role)
    /\ config \in {Nothing} \cup Config(how.role)
    /\ saving \in {Nothing} \cup [path : Paths, by : {"save", "export", "wizard"}]
    /\ touched \in BOOLEAN /\ config_path \in Paths /\ edits \in 0..MaxEdits

Control ==
    /\ cancelled \in BOOLEAN /\ shutdown \in BOOLEAN
    /\ running \in BOOLEAN /\ listening \in BOOLEAN /\ interrupts \in {0, 1}
    /\ pidfile \in {"none", "self", "other"} /\ other \in {"no", "up", "gone"}
    /\ unit \in {"none", "up", "stopping"}
    /\ stage \in Stages /\ status \in {"none", "ok", "error", "signal"}
    /\ (status = "none") <=> (stage # "ended")
    /\ listening => running /\ stage \in {"serving", "ending"}

HasConfig == stage \notin {"off", "menu", "ended"} => config # Nothing

LEMMA Halves ==
    TypeOK <=> /\ Data /\ Control /\ HasConfig
               /\ (saving # Nothing) <=> (\E p \in Paths : files[p] = Torn)
BY DEF TypeOK, Data, Control, HasConfig

(* What an entry of a menu does that opens a file.                         *)
LEMMA FileOpened ==
    ASSUME Data, NEW path \in Paths,
           \/ _save_config(path) \/ _export_config(path) \/ _setup_wizard(path)
    PROVE  /\ UNCHANGED fixed /\ stage = "menu" /\ edits' \in 0..MaxEdits
           /\ UNCHANGED <<net, tty, pid, shutdown, unit, status>>
           /\ config' \in Config(how.role) /\ touched' \in BOOLEAN
           /\ (config' = config /\ touched' = touched) \/ touched' = TRUE
           /\ \/ /\ UNCHANGED <<disk, stage>> /\ config_path' = config_path
              \/ \E by \in {"save", "export", "wizard"} :
                    /\ stage' = "saving" /\ saving' = [path |-> path, by |-> by]
                    /\ files' = [files EXCEPT ![path] = Torn]
                    /\ origin' = [origin EXCEPT ![path] = Nothing]
                    /\ config_path' # config_path => config_path' = path
<1>1. MaxEdits \in Nat /\ edits \in 0..MaxEdits /\ how.role \in {"client", "server"}
  BY ProgramAssumption, HowFacts DEF Data
<1>2. CASE \E by \in {"save", "export"} : Save(path, by)
  <2>1. PICK by \in {"save", "export"} : Save(path, by)
    BY <1>2
  <2>2. /\ UNCHANGED <<config, config_path, touched>> /\ config # Nothing
        /\ UNCHANGED fixed /\ stage = "menu" /\ edits < MaxEdits /\ edits' = edits + 1
        /\ UNCHANGED <<net, tty, pid, shutdown, unit, status>> /\ Opens(path, by)
    BY <2>1 DEF Save, Prompted, AtPrompt
  <2>3. config' \in Config(how.role) /\ touched' \in BOOLEAN
    BY <2>2 DEF Data
  <2>4. edits' \in 0..MaxEdits
    BY <1>1, <2>2
  <2> QED
    BY <2>2, <2>3, <2>4 DEF Opens
<1>3. CASE _setup_wizard(path)
  <2>1. /\ UNCHANGED fixed /\ stage = "menu" /\ edits < MaxEdits /\ edits' = edits + 1
        /\ UNCHANGED <<net, tty, pid, shutdown, unit, status>>
    BY <1>3 DEF _setup_wizard, Prompted, AtPrompt
  <2>2. PICK c \in Answers(how.role) :
          /\ touched' = TRUE
          /\ IF how.role = "client" /\ c.keys = <<>>
             THEN /\ config' = [c EXCEPT !.tunnel_key = Empty, !.coalesce = 0, !.slots = 2]
                  /\ UNCHANGED <<disk, stage, config_path>>
             ELSE config' = c /\ Opens(path, "wizard") /\ config_path' = path
    BY <1>3 DEF _setup_wizard
  <2>3. c \in Config(how.role)
    BY <1>1, ProgramAssumption
  <2>4. edits' \in 0..MaxEdits
    BY <1>1, <2>1
  <2>5. CASE how.role = "client" /\ c.keys = <<>>
    <3>1. Empty \in Text
      BY ProgramAssumption
    <3>2. [c EXCEPT !.tunnel_key = Empty, !.coalesce = 0, !.slots = 2] \in Config(how.role)
      <4>1. c \in ClientConfig
        BY <2>3, <2>5 DEF Config
      <4>2. [c EXCEPT !.tunnel_key = Empty, !.coalesce = 0, !.slots = 2] \in ClientConfig
        <5>1. \A key \in Text, n \in Int, m \in Int :
                [c EXCEPT !.tunnel_key = key, !.coalesce = n, !.slots = m] \in ClientConfig
          BY <4>1, ClientSet
        <5>2. 0 \in Int /\ 2 \in Int
          OBVIOUS
        <5> QED
          BY <3>1, <5>1, <5>2, Zenon
      <4> QED
        BY <2>5, <4>2 DEF Config
    <3> QED
      BY <2>1, <2>2, <2>4, <2>5, <3>2
  <2>6. CASE ~ (how.role = "client" /\ c.keys = <<>>)
    BY <2>1, <2>2, <2>3, <2>4, <2>6 DEF Opens
  <2> QED
    BY <2>5, <2>6
<1> QED
  BY <1>2, <1>3 DEF _save_config, _export_config

LEMMA FileLoaded ==
    ASSUME Data, NEW path \in Paths, _load_config(path)
    PROVE  /\ config' = Loaded(files[path].json) /\ config' \in Config(how.role)
           /\ Loads(files[path].json) /\ files[path].json \in Config(how.role)
           /\ touched' = FALSE /\ config_path' = path /\ stage = "menu"
           /\ UNCHANGED <<fixed, disk, stage, edits, net, tty, pid, shutdown, unit, status>>
<1>1. /\ CanLoad(path) /\ config' = Loaded(files[path].json) /\ touched' = FALSE
      /\ config_path' = path /\ stage = "menu"
      /\ UNCHANGED <<fixed, disk, stage, edits, net, tty, pid, shutdown, unit, status>>
  BY DEF _load_config, Prompted, AtPrompt
<1>2. how.role \in {"client", "server"}
  BY HowFacts DEF Data
<1>3. files[path].json \in Config(how.role)
  BY <1>1, FilesHold DEF CanLoad, Data
<1> QED
  BY <1>1, <1>2, <1>3, LoadedTyped DEF CanLoad

(* The first config: what the default file gives, changed by variables.    *)
LEMMA Started ==
    ASSUME Data, Start
    PROVE  /\ stage = "off"
           /\ UNCHANGED <<fixed, disk, config_path, edits, net, tty, pid, shutdown, unit>>
           /\ config' \in {Nothing} \cup Config(how.role) /\ touched' \in BOOLEAN
           /\ \/ stage' = "menu" /\ how.mode = "shell" /\ status' = status
              \/ stage' = "detaching" /\ how.mode = "daemon" /\ status' = status
                 /\ config' # Nothing
              \/ stage' = "starting" /\ how.mode = "headless" /\ status' = status
                 /\ config' # Nothing
              \/ stage' = "ended" /\ status' = "error"
           /\ \/ UNCHANGED <<config, touched>>
              \/ config' = Nothing
              \/ touched' = TRUE
              \/ /\ Loads(files[config_path].json)
                 /\ files[config_path].json \in Config(how.role)
                 /\ config' = Loaded(files[config_path].json)
<1> DEFINE d == files[config_path].json
<1>1. /\ how.role \in {"client", "server"} /\ config_path \in Paths
      /\ how.mode \in {"shell", "headless", "daemon"}
  BY HowFacts DEF Data
<1>2. CanLoad(config_path) => /\ d \in Config(how.role) /\ Loads(d)
                              /\ Loaded(d) \in Config(how.role)
  BY <1>1, FilesHold, LoadedTyped DEF CanLoad, Data
<1>3. CanLoad(config_path) => /\ apply_env_overrides(Loaded(d)) \in Config(how.role)
                              /\ apply_env_overrides(Loaded(d)) # Nothing
  BY <1>1, <1>2, Overridden, ConfigsApart DEF Data
<1>4. stage = "off" /\ UNCHANGED <<fixed, disk, config_path, edits, net, tty, pid, shutdown, unit>>
  BY DEF Start
<1>5. CASE how.mode = "shell"
  <2>1. /\ stage' = "menu" /\ UNCHANGED <<touched, status>>
        /\ config' = IF CanLoad(config_path) THEN Loaded(d) ELSE Nothing
    BY <1>5 DEF Start
  <2> QED
    BY <1>2, <1>4, <1>5, <2>1 DEF Data
<1>6. CASE how.mode # "shell" /\ CanLoad(config_path) /\ ~EnvRaises
  <2>1. /\ stage' = IF how.mode = "daemon" THEN "detaching" ELSE "starting"
        /\ config' = apply_env_overrides(Loaded(d))
        /\ touched' = (config' # Loaded(d)) /\ UNCHANGED status
    BY <1>6 DEF Start
  <2>2. config' \in Config(how.role) /\ config' # Nothing
    BY <1>3, <1>6, <2>1
  <2>3. touched' = TRUE \/ config' = Loaded(d)
    BY <2>1
  <2>4. touched' \in BOOLEAN
    BY <2>1
  <2> HIDE DEF d
  <2> QED
    BY <1>1, <1>2, <1>4, <1>6, <2>1, <2>2, <2>3, <2>4 DEF d
<1>7. CASE how.mode # "shell" /\ ~ (CanLoad(config_path) /\ ~EnvRaises)
  BY <1>4, <1>7 DEF Start, Data
<1> QED
  BY <1>5, <1>6, <1>7

LEMMA WasSaved ==
    ASSUME Data, Saving, HasConfig, Saved
    PROVE  /\ stage = "saving" /\ stage' = "menu" /\ saving' = Nothing
           /\ saving # Nothing /\ saving.path \in Paths
           /\ config # Nothing /\ config \in Config(how.role)
           /\ files' = [files EXCEPT ![saving.path] = File(Dump(config))]
           /\ File(Dump(config)) \in [json : Config(how.role)]
           /\ origin' = [origin EXCEPT ![saving.path] = config]
           /\ config_path' \in {config_path, saving.path}
           /\ UNCHANGED <<fixed, config, touched, edits, net, tty, pid, shutdown,
                          unit, status>>
<1>1. stage = "saving" /\ saving # Nothing
  BY DEF Saved, Saving
<1>2. saving.path \in Paths
  BY <1>1 DEF Data
<1>3. config # Nothing /\ config \in Config(how.role)
  BY <1>1 DEF HasConfig, Data
<1>4. Dump(config) \in Config(how.role)
  BY <1>3, HowFacts, DumpTyped DEF Data
<1> QED
  BY <1>1, <1>2, <1>3, <1>4, FileTyped DEF Saved

(* Configs and files keep their types.                                     *)
LEMMA DataSame ==
    ASSUME Data, UNCHANGED <<fixed, disk, conf>>
    PROVE  Data'
BY DEF Data, fixed, disk, conf

LEMMA DataKept ==
    ASSUME Data, Saving, HasConfig, Next
    PROVE  Data'
<1>1. CASE Edit
  <2>1. how \in Setups /\ config \in {Nothing} \cup Config(how.role)
    BY DEF Data
  <2>2. /\ config' \in Config(how.role) /\ touched' = TRUE
        /\ edits < MaxEdits /\ edits' = edits + 1
        /\ UNCHANGED <<fixed, disk, config_path>>
    BY <1>1, <2>1, Edited
  <2>3. edits' \in 0..MaxEdits
    BY <2>2, ProgramAssumption DEF Data
  <2> QED
    BY <2>2, <2>3 DEF Data, fixed, disk
<1>2. ASSUME NEW path \in Paths, OnFile(path)  PROVE Data'
  <2>1. CASE _load_config(path)
    <3>1. /\ config' \in Config(how.role) /\ touched' = FALSE /\ config_path' = path
          /\ UNCHANGED <<fixed, disk, edits>>
      BY <2>1, FileLoaded
    <3> QED
      BY <3>1 DEF Data, fixed, disk
  <2>2. CASE _save_config(path) \/ _export_config(path) \/ _setup_wizard(path)
    <3>1. /\ UNCHANGED fixed /\ edits' \in 0..MaxEdits
          /\ config' \in Config(how.role) /\ touched' \in BOOLEAN
      BY <2>2, FileOpened
    <3>2. CASE UNCHANGED disk /\ config_path' = config_path
      BY <3>1, <3>2 DEF Data, fixed, disk
    <3>3. CASE \E by \in {"save", "export", "wizard"} :
                  /\ saving' = [path |-> path, by |-> by]
                  /\ files' = [files EXCEPT ![path] = Torn]
                  /\ origin' = [origin EXCEPT ![path] = Nothing]
                  /\ config_path' # config_path => config_path' = path
      <4>1. saving' \in [path : Paths, by : {"save", "export", "wizard"}]
        BY <3>3
      <4>2. /\ DOMAIN files' = Paths
            /\ \A p \in Paths : files'[p] \in {Nothing, Torn} \cup [json : Config(how.role)]
        BY <3>3 DEF Data
      <4>3. /\ DOMAIN origin' = Paths
            /\ \A p \in Paths : origin'[p] \in {Nothing} \cup Config(how.role)
        BY <3>3 DEF Data
      <4>4. config_path' \in Paths
        BY <3>3 DEF Data
      <4> QED
        BY <3>1, <4>1, <4>2, <4>3, <4>4 DEF Data, fixed
    <3> QED
      BY <2>2, <3>2, <3>3, FileOpened
  <2> QED
    BY <1>2, <2>1, <2>2 DEF OnFile
<1>3. CASE Start
  <2>1. /\ UNCHANGED <<fixed, disk, config_path, edits>>
        /\ config' \in {Nothing} \cup Config(how.role) /\ touched' \in BOOLEAN
    BY <1>3, Started
  <2> QED
    BY <2>1 DEF Data, fixed, disk
<1>4. CASE Saved
  <2>1. /\ saving' = Nothing /\ saving.path \in Paths /\ config \in Config(how.role)
        /\ files' = [files EXCEPT ![saving.path] = File(Dump(config))]
        /\ File(Dump(config)) \in [json : Config(how.role)]
        /\ origin' = [origin EXCEPT ![saving.path] = config]
        /\ config_path' \in {config_path, saving.path}
        /\ UNCHANGED <<fixed, config, touched, edits>>
    BY <1>4, WasSaved
  <2>2. /\ DOMAIN files' = Paths
        /\ \A p \in Paths : files'[p] \in {Nothing, Torn} \cup [json : Config(how.role)]
    BY <2>1 DEF Data
  <2>3. /\ DOMAIN origin' = Paths
        /\ \A p \in Paths : origin'[p] \in {Nothing} \cup Config(how.role)
    BY <2>1 DEF Data
  <2> QED
    BY <2>1, <2>2, <2>3 DEF Data, fixed
<1>5. CASE UnitRestarts
  BY <1>5 DEF UnitRestarts, Data, fixed, disk
<1>6. CASE Idle
  BY <1>6, IdleLeaves, DataSame
<1> QED
  BY <1>1, <1>2, <1>3, <1>4, <1>5, <1>6, NextIs
----------------------------------------------------------------------------
(* Where a program is, and what comes with it.                             *)
Place == Control /\ HasConfig /\ Modes /\ Owned

LEMMA PlaceIdle ==
    ASSUME Data, Place, Idle
    PROVE  Place'
<1>1. /\ how.mode \in {"shell", "headless", "daemon"} /\ how.role \in {"client", "server"}
      /\ how.supervised => how.mode = "daemon"
      /\ how.supervised \in BOOLEAN /\ how.pidfile_ok \in BOOLEAN
  BY HowFacts DEF Data
<1>2. how' = how /\ config' = config
  BY IdleLeaves DEF fixed, conf
<1> USE DEF Place, Control, HasConfig, Modes, Owned, Written, Stages
<1>3. CASE Mistype
  BY <1>1, <1>2, <1>3 DEF Mistype, AtPrompt, Exits, pid, tty
<1>4. CASE SaveFails
  BY <1>1, <1>2, <1>4 DEF SaveFails, Exits, pid, tty
<1>5. CASE Quit
  BY <1>1, <1>2, <1>5 DEF Quit, AtPrompt, Exits, pid, tty
<1>6. CASE StartChosen
  BY <1>1, <1>2, <1>6 DEF StartChosen, Prompted, AtPrompt, net, pid, tty
<1>7. CASE KeyRejected
  BY <1>1, <1>2, <1>7 DEF KeyRejected, Raises, pid
<1>8. CASE StartTunnel
  <2>1. listening' \in BOOLEAN
    <3>1. PortAccepted(config.port) \in BOOLEAN
      BY DEF PortAccepted
    <3> QED
      BY <1>8, <3>1 DEF StartTunnel
  <2>2. /\ stage = "starting" /\ stage' = "serving" /\ running' = TRUE
        /\ UNCHANGED <<tty, pid, shutdown, unit, status>>
    BY <1>8 DEF StartTunnel, Serve
  <2> QED
    BY <1>1, <1>2, <2>1, <2>2 DEF pid, tty
<1>9. CASE TunnelDone
  <2>1. /\ stage = "serving" /\ stage' = "ending" /\ cancelled' \in BOOLEAN
        /\ UNCHANGED <<net, interrupts, pid, shutdown, unit, status>>
    BY <1>9 DEF TunnelDone
  <2> QED
    BY <1>1, <1>2, <2>1 DEF net, pid
<1>10. CASE StartServer
  BY <1>1, <1>2, <1>10 DEF StartServer, Serve, pid, tty
<1>11. CASE StartServerFails
  <2>1. /\ stage = "starting" /\ running' = FALSE /\ listening' = FALSE
        /\ UNCHANGED <<interrupts, cancelled, pid, shutdown, unit>>
        /\ \/ how.mode = "daemon" /\ stage' = "leaving" /\ status' = status
           \/ how.mode # "daemon" /\ stage' = "ended" /\ status' \in {"ok", "error"}
    BY <1>11 DEF StartServerFails, Raises
  <2>2. stage \in Written /\ stage # "ended"
    BY <2>1
  <2>3. Control' /\ HasConfig' /\ Modes'
    BY <1>1, <1>2, <2>1 DEF pid
  <2>4. Owned'
    <3>1. pidfile' = pidfile /\ other' = other
      BY <2>1 DEF pid
    <3>2. /\ how.mode = "daemon" /\ other = "no" /\ how.pidfile_ok => pidfile = "self"
          /\ pidfile = "self" => how.mode = "daemon"
      BY <2>2
    <3>3. how.mode = "daemon" => stage' \in Written
      BY <2>1
    <3> QED
      BY <1>2, <3>1, <3>2, <3>3
  <2> QED
    BY <2>3, <2>4
<1>12. CASE Wake
  <2>1. /\ stage = "serving" /\ stage' = "ending" /\ cancelled' \in BOOLEAN
        /\ UNCHANGED <<net, interrupts, pid, shutdown, unit, status>>
    BY <1>12 DEF Wake
  <2> QED
    BY <1>1, <1>2, <2>1 DEF net, pid
<1>13. CASE Cleanup
  <2>1. /\ stage = "ending" /\ running' = FALSE /\ listening' = FALSE
        /\ UNCHANGED <<interrupts, cancelled, pid, shutdown, unit>>
        /\ \/ how.mode = "shell" /\ stage' = "menu" /\ status' = status
           \/ how.mode = "headless" /\ stage' = "ended" /\ status' = "ok"
           \/ how.mode = "daemon" /\ stage' = "leaving" /\ status' = status
    BY <1>1, <1>13 DEF Cleanup, Returns
  <2>2. stage \in Written /\ stage # "ended"
    BY <2>1
  <2>3. Control' /\ HasConfig' /\ Modes'
    BY <1>1, <1>2, <2>1 DEF pid
  <2>4. Owned'
    <3>1. pidfile' = pidfile /\ other' = other
      BY <2>1 DEF pid
    <3>2. /\ how.mode = "daemon" /\ other = "no" /\ how.pidfile_ok => pidfile = "self"
          /\ pidfile = "self" => how.mode = "daemon"
      BY <2>2
    <3>3. how.mode = "daemon" => stage' \in Written
      BY <2>1
    <3> QED
      BY <1>2, <3>1, <3>2, <3>3
  <2> QED
    BY <2>3, <2>4
<1>14. CASE _daemonize
  BY <1>1, <1>2, <1>14 DEF _daemonize, DaemonStep, net, tty
<1>15. CASE _write_pidfile
  BY <1>1, <1>2, <1>15 DEF _write_pidfile, DaemonStep, net, tty
<1>16. CASE _setup_signal_handlers
  BY <1>1, <1>2, <1>16 DEF _setup_signal_handlers, DaemonStep, net, tty
<1>17. CASE _remove_pidfile
  BY <1>1, <1>2, <1>17 DEF _remove_pidfile, DaemonStep, net, tty
<1>18. CASE CtrlC
  <2>1. /\ how.mode # "daemon" /\ stage \in {"menu", "saving", "starting", "serving"}
        /\ UNCHANGED <<pid, shutdown, unit>>
    BY <1>18 DEF CtrlC, Exits
  <2>2. CASE interrupts = 0
    <3>1. interrupts' = 1 /\ cancelled' = TRUE /\ UNCHANGED <<net, stage, status>>
      BY <1>18, <2>2 DEF CtrlC
    <3> QED
      BY <1>1, <1>2, <2>1, <3>1 DEF net, pid
  <2>3. CASE interrupts # 0
    <3>1. /\ stage' = "ended" /\ status' \in {"ok", "signal"}
          /\ running' = FALSE /\ listening' = FALSE /\ UNCHANGED tty
      BY <1>18, <2>3 DEF CtrlC, Exits
    <3> QED
      BY <1>1, <1>2, <2>1, <3>1 DEF pid, tty
  <2> QED
    BY <2>2, <2>3
<1>19. CASE Terminate
  <2>1. /\ UNCHANGED <<net, tty, pid, unit>> /\ how.mode = "daemon"
    BY <1>19 DEF Terminate
  <2>2. CASE UNCHANGED <<stage, status>> /\ shutdown' \in BOOLEAN
    BY <1>1, <1>2, <2>1, <2>2 DEF net, pid, tty
  <2>3. CASE /\ stage' = "ended" /\ status' = "signal" /\ shutdown' = shutdown
             /\ stage \notin {"starting", "serving", "ending", "leaving"}
    BY <1>1, <1>2, <2>1, <2>3 DEF net, pid, tty
  <2> QED
    BY <1>19, <2>2, <2>3 DEF Terminate, _handle_signal, HandlersInstalled
<1>20. CASE Kill
  BY <1>1, <1>2, <1>20 DEF Kill, Alive, Exits, pid, tty
<1>21. CASE OtherStarts
  BY <1>1, <1>2, <1>21 DEF OtherStarts, net, tty
<1>22. CASE OtherEnds
  BY <1>1, <1>2, <1>22 DEF OtherEnds, net, tty
<1>23. CASE UnitEnds
  <2>1. /\ UNCHANGED <<net, tty, pid>> /\ unit = "up" /\ unit' = "stopping"
    BY <1>23 DEF UnitEnds
  <2>2. CASE UNCHANGED <<stage, status>> /\ shutdown' \in BOOLEAN
    BY <1>1, <1>2, <2>1, <2>2 DEF net, pid, tty
  <2>3. CASE /\ stage' = "ended" /\ status' = "signal" /\ shutdown' = shutdown
             /\ stage \notin {"starting", "serving", "ending", "leaving"}
    BY <1>1, <1>2, <2>1, <2>3 DEF net, pid, tty
  <2> QED
    BY <1>23, <2>2, <2>3 DEF UnitEnds, _handle_signal, HandlersInstalled
<1> QED
  BY <1>3, <1>4, <1>5, <1>6, <1>7, <1>8, <1>9, <1>10, <1>11, <1>12, <1>13, <1>14, <1>15,
     <1>16, <1>17, <1>18, <1>19, <1>20, <1>21, <1>22, <1>23 DEF Idle

LEMMA PlaceKept ==
    ASSUME Data, Saving, Place, Next
    PROVE  Place'
<1>1. /\ how.mode \in {"shell", "headless", "daemon"} /\ how.role \in {"client", "server"}
      /\ how.supervised => how.mode = "daemon"
  BY HowFacts DEF Data
<1>2. CASE Edit
  <2>1. how \in Setups /\ config \in {Nothing} \cup Config(how.role)
    BY DEF Data
  <2>2. stage = "menu" /\ UNCHANGED <<fixed, net, tty, pid, stage, shutdown, unit, status>>
    BY <1>2, <2>1, Edited
  <2> QED
    BY <2>2 DEF Place, Control, HasConfig, Modes, Owned, fixed, net, tty, pid
<1>3. ASSUME NEW path \in Paths, OnFile(path)  PROVE Place'
  <2>1. CASE _load_config(path)
    <3>1. /\ stage = "menu"
          /\ UNCHANGED <<fixed, stage, net, tty, pid, shutdown, unit, status>>
      BY <2>1, FileLoaded
    <3> QED
      BY <3>1 DEF Place, Control, HasConfig, Modes, Owned, fixed, net, tty, pid
  <2>2. CASE _save_config(path) \/ _export_config(path) \/ _setup_wizard(path)
    <3>1. /\ UNCHANGED <<fixed, net, tty, pid, shutdown, unit, status>> /\ stage = "menu"
          /\ config' \in Config(how.role) /\ stage' \in {"menu", "saving"}
      BY <2>2, FileOpened
    <3>2. config' # Nothing
      BY <1>1, <3>1, ConfigsApart
    <3> QED
      BY <3>1, <3>2 DEF Place, Control, HasConfig, Modes, Owned, Written, Stages,
                        fixed, net, tty, pid
  <2> QED
    BY <1>3, <2>1, <2>2 DEF OnFile
<1>4. CASE Start
  <2>1. /\ stage = "off"
        /\ UNCHANGED <<fixed, net, tty, pid, shutdown, unit>>
        /\ \/ stage' = "menu" /\ how.mode = "shell" /\ status' = status
           \/ stage' = "detaching" /\ how.mode = "daemon" /\ status' = status
              /\ config' # Nothing
           \/ stage' = "starting" /\ how.mode = "headless" /\ status' = status
              /\ config' # Nothing
           \/ stage' = "ended" /\ status' = "error"
    BY <1>4, Started
  <2> QED
    BY <1>1, <2>1 DEF Place, Control, HasConfig, Modes, Owned, Written, Stages,
                      fixed, net, tty, pid
<1>5. CASE Saved
  <2>1. HasConfig
    BY DEF Place
  <2>2. /\ stage = "saving" /\ stage' = "menu" /\ config' = config
        /\ UNCHANGED <<fixed, net, tty, pid, shutdown, unit, status>>
    BY <1>5, <2>1, WasSaved
  <2> QED
    BY <1>1, <2>2 DEF Place, Control, HasConfig, Modes, Owned, Written, Stages,
                      fixed, net, tty, pid
<1>6. CASE UnitRestarts
  BY <1>1, <1>6 DEF UnitRestarts, Place, Control, HasConfig, Modes, Owned, Written, Stages,
                    fixed, net, tty, pid
<1>7. CASE Idle
  BY <1>7, PlaceIdle
<1> QED
  BY <1>2, <1>3, <1>4, <1>5, <1>6, <1>7, NextIs
----------------------------------------------------------------------------
(* Files that are saved.                                                   *)
LEMMA SavingKept ==
    ASSUME Data, Saving, Place, Next
    PROVE  Saving'
<1>1. how.supervised => how.mode = "daemon"
  BY HowFacts DEF Data
<1>2. unit # "none" => how.mode = "daemon"
  BY <1>1 DEF Place, Modes
<1>3. CASE Edit
  <2>1. how \in Setups /\ config \in {Nothing} \cup Config(how.role)
    BY DEF Data
  <2>2. UNCHANGED <<fixed, disk, stage>>
    BY <1>3, <2>1, Edited
  <2> QED
    BY <2>2 DEF Saving, fixed, disk
<1>4. ASSUME NEW path \in Paths, OnFile(path)  PROVE Saving'
  <2>1. CASE _load_config(path)
    <3>1. UNCHANGED <<fixed, disk, stage>>
      BY <2>1, FileLoaded
    <3> QED
      BY <3>1 DEF Saving, fixed, disk
  <2>2. CASE _save_config(path) \/ _export_config(path) \/ _setup_wizard(path)
    <3>1. UNCHANGED fixed /\ stage = "menu"
      BY <2>2, FileOpened
    <3>2. CASE UNCHANGED <<disk, stage>>
      BY <3>1, <3>2 DEF Saving, fixed, disk
    <3>3. CASE \E by \in {"save", "export", "wizard"} :
                  /\ stage' = "saving" /\ saving' = [path |-> path, by |-> by]
                  /\ files' = [files EXCEPT ![path] = Torn]
      <4>1. saving' # Nothing /\ saving'.path = path
        BY <3>3, Apart
      <4>2. \A p \in Paths : files[p] # Torn
        BY <3>1 DEF Saving
      <4>3. \A p \in Paths : files'[p] = Torn <=> p = path
        BY <3>3, <4>2 DEF Data
      <4>4. how.mode = "shell"
        BY <3>1 DEF Place, Modes
      <4> QED
        BY <3>1, <3>3, <4>1, <4>3, <4>4 DEF Saving, fixed
    <3> QED
      BY <2>2, <3>2, <3>3, FileOpened
  <2> QED
    BY <1>4, <2>1, <2>2 DEF OnFile
<1>5. CASE Start
  <2>1. /\ stage = "off" /\ UNCHANGED <<fixed, disk>>
        /\ stage' \in {"menu", "detaching", "starting", "ended"}
    BY <1>5, Started
  <2> QED
    BY <2>1 DEF Saving, fixed, disk
<1>6. CASE Saved
  <2>1. HasConfig
    BY DEF Place
  <2>2. /\ stage' = "menu" /\ saving' = Nothing /\ saving # Nothing
        /\ files' = [files EXCEPT ![saving.path] = File(Dump(config))]
    BY <1>6, <2>1, WasSaved
  <2>3. \A p \in Paths : files'[p] # Torn
    BY <2>2, Apart DEF Saving, Data
  <2> QED
    BY <2>2, <2>3 DEF Saving
<1>7. CASE UnitRestarts
  <2>1. saving = Nothing
    BY <1>2, <1>7 DEF UnitRestarts, Saving
  <2> QED
    BY <1>7, <2>1 DEF UnitRestarts, Saving, fixed, disk
<1>8. CASE Idle
  <2>1. UNCHANGED <<fixed, disk>>
    BY <1>8, IdleLeaves
  <2>2. stage' = "saving" => stage = "saving"
    BY <1>8 DEF Idle, Mistype, SaveFails, Quit, StartChosen, KeyRejected, StartTunnel,
       TunnelDone, StartServer, StartServerFails, Wake, Cleanup, _daemonize,
       _write_pidfile, _setup_signal_handlers, _remove_pidfile, CtrlC, Terminate, Kill,
       OtherStarts, OtherEnds, UnitEnds, Exits, Raises, Serve, Returns, DaemonStep,
       _handle_signal
  <2>3. ASSUME saving # Nothing  PROVE stage' \in {"saving", "ended"}
    <3>1. stage \in {"saving", "ended"} /\ how.mode = "shell"
      BY <2>3 DEF Saving
    <3>2. unit = "none"
      BY <1>2, <3>1
    <3> QED
      BY <1>8, <3>1, <3>2
      DEF Idle, Mistype, AtPrompt, SaveFails, Quit, StartChosen, Prompted, KeyRejected,
          StartTunnel, TunnelDone, StartServer, StartServerFails, Wake, Cleanup,
          _daemonize, _write_pidfile, _setup_signal_handlers, _remove_pidfile, CtrlC,
          Terminate, Kill, OtherStarts, OtherEnds, UnitEnds, Exits, DaemonStep
  <2> QED
    BY <2>1, <2>2, <2>3 DEF Saving, fixed, disk
<1> QED
  BY <1>3, <1>4, <1>5, <1>6, <1>7, <1>8, NextIs

LEMMA KeptKept ==
    ASSUME Data, Saving, Place, Kept, Next
    PROVE  Kept'
<1>1. CASE UNCHANGED <<how, disk>>
  BY <1>1 DEF Kept, Dump, disk
<1>2. ASSUME UNCHANGED how, NEW path \in Paths, NEW f, NEW o, o = Nothing \/ f = File(Dump(o)),
             files' = [files EXCEPT ![path] = f], origin' = [origin EXCEPT ![path] = o]
      PROVE  Kept'
  <2>1. ASSUME NEW p \in Paths, origin'[p] # Nothing
        PROVE  files'[p] = File(Dump(origin'[p]))
    BY <1>2, <2>1 DEF Kept, Data
  <2> QED
    BY <1>2, <2>1 DEF Kept, Dump
<1>3. CASE Edit
  <2>1. how \in Setups /\ config \in {Nothing} \cup Config(how.role)
    BY DEF Data
  <2>2. UNCHANGED <<fixed, disk>>
    BY <1>3, <2>1, Edited
  <2> QED
    BY <1>1, <2>2 DEF fixed
<1>4. ASSUME NEW path \in Paths, OnFile(path)  PROVE Kept'
  <2>1. CASE _load_config(path)
    <3>1. UNCHANGED <<fixed, disk>>
      BY <2>1, FileLoaded
    <3> QED
      BY <1>1, <3>1 DEF fixed
  <2>2. CASE _save_config(path) \/ _export_config(path) \/ _setup_wizard(path)
    <3>1. UNCHANGED fixed
      BY <2>2, FileOpened
    <3>2. \/ UNCHANGED disk
          \/ files' = [files EXCEPT ![path] = Torn] /\ origin' = [origin EXCEPT ![path] = Nothing]
      BY <2>2, FileOpened
    <3> QED
      BY <1>1, <1>2, <3>1, <3>2 DEF fixed
  <2> QED
    BY <1>4, <2>1, <2>2 DEF OnFile
<1>5. CASE Start
  <2>1. UNCHANGED <<fixed, disk>>
    BY <1>5, Started
  <2> QED
    BY <1>1, <2>1 DEF fixed
<1>6. CASE Saved
  <2>1. HasConfig
    BY DEF Place
  <2>2. /\ saving.path \in Paths /\ UNCHANGED fixed
        /\ files' = [files EXCEPT ![saving.path] = File(Dump(config))]
        /\ origin' = [origin EXCEPT ![saving.path] = config]
    BY <1>6, <2>1, WasSaved
  <2> QED
    BY <1>2, <2>2 DEF fixed
<1>7. CASE UnitRestarts
  BY <1>1, <1>7 DEF UnitRestarts, fixed
<1>8. CASE Idle
  BY <1>1, <1>8, IdleLeaves DEF fixed
<1> QED
  BY <1>3, <1>4, <1>5, <1>6, <1>7, <1>8, NextIs

LEMMA ValidKept ==
    ASSUME Data, Saving, Place, LoadedIsValid, Next
    PROVE  LoadedIsValid'
<1>1. how.role \in {"client", "server"}
  BY HowFacts DEF Data
<1>2. CASE UNCHANGED <<how, config, touched>>
  BY <1>2 DEF LoadedIsValid, Valid
<1>3. ASSUME UNCHANGED how, NEW d \in Config(how.role), Loads(d), config' = Loaded(d)
      PROVE  LoadedIsValid'
  <2>1. Valid(config')
    BY <1>1, <1>3, LoadedValid
  <2> QED
    BY <1>3, <2>1 DEF LoadedIsValid, Valid
<1>4. CASE touched' = TRUE
  BY <1>4 DEF LoadedIsValid
<1>5. CASE config' = Nothing
  BY <1>5 DEF LoadedIsValid, Nothing
<1>6. CASE Edit
  <2>1. how \in Setups /\ config \in {Nothing} \cup Config(how.role)
    BY DEF Data
  <2> QED
    BY <1>4, <1>6, <2>1, Edited
<1>7. ASSUME NEW path \in Paths, OnFile(path)  PROVE LoadedIsValid'
  <2>1. CASE _load_config(path)
    <3>1. /\ UNCHANGED fixed /\ config' = Loaded(files[path].json)
          /\ Loads(files[path].json) /\ files[path].json \in Config(how.role)
      BY <2>1, FileLoaded
    <3> QED
      BY <1>3, <3>1 DEF fixed
  <2>2. CASE _save_config(path) \/ _export_config(path) \/ _setup_wizard(path)
    <3>1. UNCHANGED fixed /\ (UNCHANGED <<config, touched>> \/ touched' = TRUE)
      BY <2>2, FileOpened
    <3> QED
      BY <1>2, <1>4, <3>1 DEF fixed
  <2> QED
    BY <1>7, <2>1, <2>2 DEF OnFile
<1>8. CASE Start
  <2>1. /\ UNCHANGED fixed
        /\ \/ UNCHANGED <<config, touched>>
           \/ config' = Nothing
           \/ touched' = TRUE
           \/ /\ Loads(files[config_path].json)
              /\ files[config_path].json \in Config(how.role)
              /\ config' = Loaded(files[config_path].json)
    BY <1>8, Started
  <2> QED
    BY <1>2, <1>3, <1>4, <1>5, <2>1 DEF fixed
<1>9. CASE Saved
  <2>1. HasConfig
    BY DEF Place
  <2> QED
    BY <1>2, <1>9, <2>1, WasSaved DEF fixed
<1>10. CASE UnitRestarts
  BY <1>5, <1>10 DEF UnitRestarts
<1>11. CASE Idle
  BY <1>2, <1>11, IdleLeaves DEF fixed, conf
<1> QED
  BY <1>6, <1>7, <1>8, <1>9, <1>10, <1>11, NextIs
----------------------------------------------------------------------------
LEMMA InvStart == Init => ProgramInv
<1> SUFFICES ASSUME Init PROVE ProgramInv
  OBVIOUS
<1>1. how \in Setups /\ env \in Environments(how.role)
  BY DEF Init
<1>2. how.role \in {"client", "server"}
  BY <1>1, HowFacts
<1>3. \A p \in Paths : files[p] \in {Nothing} \cup [json : Config(how.role)]
  <2>1. Contents(how.role) \subseteq Config(how.role)
    BY <1>2, ProgramAssumption
  <2>2. \A d \in Contents(how.role) : File(d) \in [json : Config(how.role)]
    BY <2>1, FileTyped
  <2> QED
    BY <2>2 DEF Init
<1>4. \A p \in Paths : files[p] # Torn
  BY Apart DEF Init
<1>5. Data
  <2>1. DOMAIN files = Paths
    BY DEF Init
  <2>2. DOMAIN origin = Paths /\ \A p \in Paths : origin[p] = Nothing
    BY DEF Init
  <2>3. /\ config = Nothing /\ saving = Nothing /\ touched = FALSE
        /\ config_path = DefaultPath /\ edits = 0
    BY DEF Init
  <2>4. DefaultPath \in Paths /\ 0 \in 0..MaxEdits
    BY ProgramAssumption
  <2> QED
    BY <1>1, <1>3, <2>1, <2>2, <2>3, <2>4 DEF Data
<1>6. Control /\ HasConfig /\ Modes /\ Owned
  BY DEF Init, Control, HasConfig, Modes, Owned, Written, Stages
<1>7. Saving /\ Kept
  BY <1>4 DEF Init, Saving, Kept
<1>8. LoadedIsValid
  BY DEF Init, LoadedIsValid
<1>9. TypeOK
  BY <1>4, <1>5, <1>6, Halves DEF Init
<1> QED
  BY <1>6, <1>7, <1>8, <1>9 DEF ProgramInv

LEMMA InvKept == ProgramInv /\ [Next]_vars => ProgramInv'
<1> SUFFICES ASSUME ProgramInv, [Next]_vars PROVE ProgramInv'
  OBVIOUS
<1>1. Data /\ Place /\ Saving /\ Kept /\ LoadedIsValid /\ HasConfig
  BY Halves DEF ProgramInv, Place
<1>2. CASE Next
  <2>1. Data' /\ Place' /\ Saving' /\ Kept' /\ LoadedIsValid'
    BY <1>1, <1>2, DataKept, PlaceKept, SavingKept, KeptKept, ValidKept
  <2>2. TypeOK'
    <3>1. (saving' # Nothing) <=> (\E p \in Paths : files'[p] = Torn)
      <4>1. saving' # Nothing => saving'.path \in Paths
        BY <2>1 DEF Data
      <4> QED
        BY <2>1, <4>1 DEF Saving
    <3>2. Data' /\ Control' /\ HasConfig'
      BY <2>1 DEF Place
    <3> QED
      BY <3>1, <3>2 DEF TypeOK, Data, Control, HasConfig
  <2> QED
    BY <2>1, <2>2 DEF ProgramInv, Place
<1>3. CASE UNCHANGED vars
  <2>1. UNCHANGED <<how, env, files, origin, config, config_path, touched, edits, stage,
                    saving, running, listening, interrupts, cancelled, shutdown, pidfile,
                    other, unit, status>>
    BY <1>3 DEF vars, fixed, conf, disk, net, tty, pid
  <2>2. TypeOK'
    BY <2>1 DEF ProgramInv, TypeOK
  <2>3. Modes' /\ Saving' /\ Owned'
    BY <2>1 DEF ProgramInv, Modes, Saving, Owned
  <2>4. Kept'
    BY <2>1 DEF ProgramInv, Kept, Dump
  <2>5. LoadedIsValid'
    BY <2>1 DEF ProgramInv, LoadedIsValid, Valid
  <2> QED
    BY <2>2, <2>3, <2>4, <2>5 DEF ProgramInv
<1> QED
  BY <1>2, <1>3

LEMMA InvHolds == Spec => []ProgramInv
<1> QED
  BY InvStart, InvKept, PTL DEF Spec

(* Every config, in a file or in use, has the fields of its role with      *)
(* values of their types, and a file is torn exactly while one is open or  *)
(* was when the program ended.                                             *)
THEOREM ProgramTypeCorrect == Spec => []TypeOK
<1>1. ProgramInv => TypeOK
  BY DEF ProgramInv
<1> QED
  BY <1>1, InvHolds, PTL

(* What load_client_config and load_server_config accept is a config the   *)
(* tunnel can be run with, for any file.                                   *)
THEOREM LoadedKept == Spec => []LoadedIsValid
<1>1. ProgramInv => LoadedIsValid
  BY DEF ProgramInv
<1> QED
  BY <1>1, InvHolds, PTL

(* A valid config that was saved loads again exactly when it has nothing   *)
(* that _save_config leaves out.                                           *)
THEOREM SavedKept == Spec => []SavedReloads
<1>1. ASSUME ProgramInv  PROVE SavedReloads
  <2>1. how.role \in {"client", "server"} /\ Kept
    BY <1>1, HowFacts DEF ProgramInv, TypeOK
  <2> SUFFICES ASSUME NEW p \in Paths, origin[p] # Nothing, Valid(origin[p])
               PROVE  Survives(origin[p]) <=> CanLoad(p) /\ Loaded(files[p].json) = origin[p]
    BY DEF SavedReloads
  <2>2. origin[p] \in Config(how.role)
    BY <1>1 DEF ProgramInv, TypeOK
  <2>3. files[p] = File(Dump(origin[p]))
    BY <2>1 DEF Kept
  <2>4. files[p].json = Dump(origin[p]) /\ "json" \in DOMAIN files[p]
    BY <2>3, Apart
  <2>5. Survives(origin[p]) <=> /\ Loads(Dump(origin[p]))
                                /\ Loaded(Dump(origin[p])) = origin[p]
    BY <2>1, <2>2, Reloads
  <2> QED
    BY <2>4, <2>5 DEF CanLoad
<1> QED
  BY <1>1, InvHolds, PTL

(* A daemon that serves is the one its pidfile names, and one that left by *)
(* itself has taken it away, whatever signals it gets and others start.    *)
THEOREM PidfileKept == Spec => []PidfileHonest
<1>1. ProgramInv => PidfileHonest
  <2> SUFFICES ASSUME ProgramInv PROVE PidfileHonest
    OBVIOUS
  <2>1. Owned /\ "serving" \in Written /\ "ended" \notin Written
    BY DEF ProgramInv, Written
  <2>2. stage = "serving" => stage \in Written
    BY <2>1
  <2>3. stage = "ended" => stage \notin Written
    BY <2>1
  <2> QED
    BY <2>1, <2>2, <2>3 DEF Owned, PidfileHonest
<1> QED
  BY <1>1, InvHolds, PTL

(* config_path follows the config: no step leaves it at a file that holds  *)
(* something else, and that is not about to be written.                    *)
PathFollows ==
    config_path' # config_path =>
        \/ saving' # Nothing /\ saving'.path = config_path'
        \/ files'[config_path'] = File(Dump(config'))
        \/ CanLoad(config_path') /\ config' = Loaded(files[config_path'].json)

LEMMA PathStep ==
    ASSUME ProgramInv, Next, config_path' # config_path
    PROVE  PathFollows
<1>1. Data /\ Place /\ Saving /\ HasConfig
  BY Halves DEF ProgramInv, Place
<1>2. CASE Edit
  <2>1. how \in Setups /\ config \in {Nothing} \cup Config(how.role)
    BY <1>1 DEF Data
  <2> QED
    BY <1>2, <2>1, Edited
<1>3. ASSUME NEW path \in Paths, OnFile(path)  PROVE PathFollows
  <2>1. CASE _load_config(path)
    BY <2>1 DEF _load_config, PathFollows
  <2>2. CASE _save_config(path) \/ _export_config(path) \/ _setup_wizard(path)
    <3>1. PICK by \in {"save", "export", "wizard"} :
             /\ saving' = [path |-> path, by |-> by]
             /\ config_path' # config_path => config_path' = path
      BY <1>1, <2>2, FileOpened
    <3>2. saving' # Nothing /\ saving'.path = path
      BY <3>1, Apart
    <3> QED
      BY <3>1, <3>2 DEF PathFollows
  <2> QED
    BY <1>3, <2>1, <2>2 DEF OnFile
<1>4. CASE Start
  BY <1>1, <1>4, Started
<1>5. CASE Saved
  <2>1. /\ saving.path \in Paths /\ config' = config
        /\ files' = [files EXCEPT ![saving.path] = File(Dump(config))]
        /\ config_path' \in {config_path, saving.path}
    BY <1>1, <1>5, WasSaved
  <2>2. config_path' = saving.path
    BY <2>1
  <2>3. files'[config_path'] = File(Dump(config))
    BY <1>1, <2>1, <2>2 DEF Data
  <2> QED
    BY <2>1, <2>3 DEF PathFollows
<1>6. CASE UnitRestarts
  BY <1>6 DEF UnitRestarts
<1>7. CASE Idle
  BY <1>7, IdleLeaves DEF conf
<1> QED
  BY <1>2, <1>3, <1>4, <1>5, <1>6, <1>7, NextIs

(* _load_config, _save_config and the wizard move config_path only to the  *)
(* file that the config came from or went to.                              *)
THEOREM PathKept == Spec => PathFollowsConfig
<1>1. ProgramInv /\ [Next]_vars => [PathFollows]_vars
  BY PathStep DEF PathFollows
<1>2. PathFollowsConfig <=> [][PathFollows]_vars
  BY PTL DEF PathFollowsConfig, PathFollows
<1> QED
  BY <1>1, <1>2, InvHolds, PTL DEF Spec
============================================================================
