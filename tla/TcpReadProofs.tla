---------------------------- MODULE TcpReadProofs ----------------------------
(***************************************************************************)
(* Proofs about reading messages out of a stream of bytes, for every base, *)
(* every set of lengths of up to four digits, any number of messages and   *)
(* of connections, and pieces of any size.                                 *)
(*                                                                         *)
(* One hypothesis: no signal interrupts a recv of the fixed header (the    *)
(* first loop of mspTCPReadMsg takes the -1 for a number of bytes).        *)
(***************************************************************************)
EXTENDS TcpRead, WellFoundedInduction, TLAPS

Byte == 0..(2 * Base - 1)

-----------------------------------------------------------------------------
(* Recursion.                                                              *)

\* Of what holds at 0 and goes on from each number to the next, every number is one.
LEMMA SetInduction ==
    ASSUME NEW S \in SUBSET Nat, 0 \in S, \A n \in S : n + 1 \in S
    PROVE  S = Nat
<1>1. SUFFICES ASSUME Nat \ S # {} PROVE FALSE
  OBVIOUS
<1>2. PICK n \in Nat \ S : \A i \in Nat \ S : <<i, n>> \notin OpToRel(<, Nat)
  BY <1>1, NatLessThanWellFounded, WFMin
<1>3. \A i \in Nat \ S : ~(i < n)
  BY <1>2, Zenon DEF OpToRel
<1>4. n # 0 /\ n - 1 \in Nat /\ n - 1 < n
  OBVIOUS
<1>5. n - 1 \in S
  BY <1>3, <1>4
<1> QED BY <1>4, <1>5

\* f has the values of a loop of n turns that starts at a, and whose turn k is g[k].
Run(D, n, a, g, f) ==
    f \in [0..n -> D] /\ f[0] = a /\ \A k \in 1..n : f[k] = g[k][f[k - 1]]

LEMMA Recursion ==
    ASSUME NEW D, NEW n \in Nat, NEW a \in D, NEW g \in [1..n -> [D -> D]]
    PROVE  \E f : Run(D, n, a, g, f)
<1> DEFINE S == {m \in Nat : m <= n => \E f : Run(D, m, a, g, f)}
<1>1. 0 \in S
  <2>1. Run(D, 0, a, g, [k \in 0..0 |-> a])
    BY DEF Run
  <2> QED BY <2>1
<1>2. ASSUME NEW m \in S PROVE m + 1 \in S
  <2>1. m \in Nat /\ (m <= n => \E f : Run(D, m, a, g, f))
    BY <1>2, Zenon
  <2>2. ASSUME m + 1 <= n PROVE \E f : Run(D, m + 1, a, g, f)
    <3>1. PICK f : Run(D, m, a, g, f)
      BY <2>1, <2>2
    <3> DEFINE next == g[m + 1][f[m]]
               h == [k \in 0..(m + 1) |-> IF k <= m THEN f[k] ELSE next]
    <3>2. next \in D
      <4>1. m + 1 \in 1..n /\ m \in 0..m
        BY <2>1, <2>2
      <4>2. g[m + 1] \in [D -> D] /\ f[m] \in D
        BY <3>1, <4>1 DEF Run
      <4> QED BY <4>2
    <3>3. h \in [0..(m + 1) -> D] /\ h[0] = a
      BY <2>1, <3>1, <3>2 DEF Run
    <3>4. ASSUME NEW k \in 1..(m + 1) PROVE h[k] = g[k][h[k - 1]]
      BY <2>1, <3>1 DEF Run
    <3> HIDE DEF h
    <3>5. Run(D, m + 1, a, g, h)
      BY <3>3, <3>4 DEF Run
    <3> QED BY <3>5
  <2>3. m + 1 \in Nat
    BY <2>1
  <2> QED BY <2>2, <2>3, Zenon
<1>3. S = Nat
  <2> HIDE DEF S
  <2>1. S \in SUBSET Nat
    BY DEF S
  <2> QED BY <1>1, <1>2, <2>1, SetInduction
<1>4. \E f : Run(D, n, a, g, f)
  <2>1. n <= n
    OBVIOUS
  <2> QED BY <1>3, <2>1, Zenon
<1> QED BY <1>4

-----------------------------------------------------------------------------
(* The remaining length.                                                   *)

LEMMA DivLemma ==
    ASSUME NEW a \in Nat
    PROVE  /\ a \div Base \in Nat /\ a % Base \in 0..(Base - 1)
           /\ a = Base * (a \div Base) + (a % Base)
           /\ \A b \in Nat : a < b * Base => a \div Base < b
<1>1. Base \in Nat /\ Base > 1
  BY ReadAssumption
<1>2. a \div Base \in Nat /\ a % Base \in 0..(Base - 1) /\ a = Base * (a \div Base) + (a % Base)
  BY <1>1
<1>3. ASSUME NEW b \in Nat, a < b * Base PROVE a \div Base < b
  <2> DEFINE q == a \div Base
  <2> SUFFICES ASSUME q >= b PROVE FALSE
    BY <1>2
  <2> HIDE DEF q
  <2>1. q \in Nat /\ a >= Base * q
    BY <1>1, <1>2 DEF q
  <2>2. Base * q >= Base * b
    BY <1>1, <2>1
  <2> QED BY <1>1, <1>3, <2>1, <2>2
<1> QED BY <1>2, <1>3

\* After four digits nothing is left.
LEMMA LeftLemma ==
    ASSUME NEW l \in 0..MaxLength
    PROVE  /\ Left(l) \in [0..4 -> Nat]
           /\ Left(l)[0] = l /\ Left(l)[4] = 0
           /\ \A k \in 1..4 : Left(l)[k] = Left(l)[k - 1] \div Base
<1> DEFINE Def(f) == [k \in 0..4 |-> IF k = 0 THEN l ELSE f[k - 1] \div Base]
           g == [k \in 1..4 |-> [x \in Nat |-> x \div Base]]
           left == CHOOSE f : f = Def(f)
<1>1. l \in Nat /\ Base \in Nat /\ Base > 1
  BY ReadAssumption DEF MaxLength
<1>2. \E f \in [0..4 -> Nat] : f = Def(f)
  <2>1. g \in [1..4 -> [Nat -> Nat]]
    BY DivLemma
  <2>2. PICK f : Run(Nat, 4, l, g, f)
    <3> HIDE DEF g
    <3> QED BY <1>1, <2>1, Recursion
  <2>3. ASSUME NEW k \in 1..4 PROVE f[k] = f[k - 1] \div Base
    <3>1. f[k - 1] \in Nat
      BY <2>2 DEF Run
    <3> QED BY <2>2, <3>1 DEF Run
  <2>4. f \in [0..4 -> Nat] /\ f[0] = l
    BY <2>2 DEF Run
  <2>5. f = Def(f)
    BY <2>3, <2>4
  <2> QED BY <2>4, <2>5
<1>3. left = Def(left) /\ Left(l) = left
  BY <1>2 DEF Left
<1> HIDE DEF left
<1>4. left[0] = l /\ \A k \in 1..4 : left[k] = left[k - 1] \div Base
  BY <1>3
<1>5. left[1] \in Nat /\ left[2] \in Nat /\ left[3] \in Nat /\ left[4] \in Nat
  BY <1>1, <1>4, DivLemma
<1>6. left \in [0..4 -> Nat]
  BY <1>1, <1>3, <1>4, <1>5
<1>7. left[4] = 0
  <2>1. l < (Base * Base * Base) * Base
    BY <1>1 DEF MaxLength
  <2>2. Base * Base \in Nat /\ Base * Base * Base \in Nat
    BY <1>1
  <2>3. left[1] < (Base * Base) * Base
    BY <1>1, <1>4, <2>1, <2>2, DivLemma
  <2>4. left[2] < Base * Base
    BY <1>4, <1>5, <2>2, <2>3, DivLemma
  <2>5. left[3] < Base
    BY <1>1, <1>4, <1>5, <2>4, DivLemma
  <2>6. left[3] < 1 * Base
    BY <1>1, <2>5
  <2>7. left[4] < 1
    BY <1>4, <1>5, <2>6, DivLemma
  <2> QED BY <1>5, <2>7
<1> QED BY <1>3, <1>4, <1>6, <1>7

LEMMA NumDigitsLemma ==
    ASSUME NEW l \in 0..MaxLength
    PROVE  /\ NumDigits(l) \in 1..4 /\ Left(l)[NumDigits(l)] = 0
           /\ \A k \in 1..(NumDigits(l) - 1) : Left(l)[k] > 0
<1> DEFINE S == {n \in 1..4 : Left(l)[n] = 0}
<1>1. 4 \in S /\ Left(l) \in [0..4 -> Nat]
  BY LeftLemma
<1>2. \E n \in S : \A m \in S : n <= m
  BY <1>1
<1>3. NumDigits(l) \in S /\ \A m \in S : NumDigits(l) <= m
  BY <1>2 DEF NumDigits, Min
<1>4. ASSUME NEW k \in 1..(NumDigits(l) - 1) PROVE Left(l)[k] > 0
  <2>1. k \in 1..4 /\ k \notin S
    BY <1>3
  <2>2. Left(l)[k] \in Nat /\ Left(l)[k] # 0
    BY <1>1, <2>1
  <2> QED BY <2>2
<1> QED BY <1>3, <1>4

\* Every digit but the last has its top bit set.
LEMMA EncodeLemma ==
    ASSUME NEW l \in 0..MaxLength
    PROVE  /\ EncodeLength(l) \in Seq(Byte) /\ Len(EncodeLength(l)) = NumDigits(l)
           /\ \A k \in 1..NumDigits(l) :
                 /\ More(EncodeLength(l)[k]) <=> k < NumDigits(l)
                 /\ EncodeLength(l)[k] % Base = Left(l)[k - 1] % Base
<1>1. Base \in Nat /\ Base > 1
  BY ReadAssumption
<1>2. /\ NumDigits(l) \in 1..4 /\ Left(l)[NumDigits(l)] = 0
      /\ \A k \in 1..(NumDigits(l) - 1) : Left(l)[k] > 0
  BY NumDigitsLemma
<1> DEFINE n == NumDigits(l)
           e == EncodeLength(l)
<1>3. ASSUME NEW k \in 1..n
      PROVE  e[k] \in Byte /\ (More(e[k]) <=> k < n) /\ e[k] % Base = Left(l)[k - 1] % Base
  <2> DEFINE d == Left(l)[k - 1] % Base
  <2>1. d \in 0..(Base - 1)
    <3>1. Left(l)[k - 1] \in Nat
      BY <1>2, LeftLemma
    <3> QED BY <3>1, DivLemma
  <2>2. e[k] = d + (IF Left(l)[k] > 0 THEN Base ELSE 0)
    BY DEF EncodeLength
  <2>3. Left(l)[k] > 0 <=> k < n
    <3>1. CASE k < n
      <4>1. k \in 1..(n - 1)
        BY <1>2, <3>1
      <4> QED BY <1>2, <3>1, <4>1
    <3>2. CASE ~(k < n)
      <4>1. k = n
        BY <1>2, <3>2
      <4> QED BY <1>2, <4>1
    <3> QED BY <3>1, <3>2
  <2>4. d % Base = d /\ (d + Base) % Base = d
    <3> HIDE DEF d
    <3>1. d % Base = d
      BY <1>1, <2>1
    <3>2. (d + Base) % Base = d
      BY <1>1, <2>1
    <3> QED BY <3>1, <3>2
  <2> HIDE DEF d, e, n
  <2>5. e[k] = IF k < n THEN d + Base ELSE d
    BY <1>1, <2>1, <2>2, <2>3
  <2>6. e[k] \in Byte /\ (More(e[k]) <=> k < n)
    BY <1>1, <2>1, <2>5 DEF Byte, More
  <2>7. e[k] % Base = d
    BY <2>4, <2>5
  <2> QED BY <2>6, <2>7 DEF d
<1>4. e \in Seq(Byte) /\ Len(e) = n
  <2>1. n \in Nat
    BY <1>2
  <2>2. e = [k \in 1..n |-> e[k]]
    BY DEF EncodeLength
  <2> HIDE DEF e, n
  <2> QED BY <1>3, <2>1, <2>2
<1> QED BY <1>3, <1>4

\* The loop of mspDecodeFHeaderLength: what it has added up, and what is left to encode
\* times the multiplier, is the length, after every turn.
LEMMA TurnsLemma ==
    ASSUME NEW l \in 0..MaxLength, NEW buf,
           \A k \in 1..NumDigits(l) : buf[k] = EncodeLength(l)[k]
    PROVE  Turns(NumDigits(l), buf).length = l
<1> DEFINE n == NumDigits(l)
           D == [length : Nat, multiplier : Nat]
           start == [length |-> 0, multiplier |-> 1]
           Step(t, k) == [length     |-> t.length + (buf[k] % Base) * t.multiplier,
                          multiplier |-> t.multiplier * Base]
           Def(f) == [k \in 0..n |-> IF k = 0 THEN start ELSE Step(f[k - 1], k)]
           g == [k \in 1..n |-> [t \in D |-> Step(t, k)]]
           turn == CHOOSE f : f = Def(f)
<1>1. Base \in Nat /\ Base > 1 /\ l \in Nat
  BY ReadAssumption DEF MaxLength
<1>2. n \in 1..4 /\ n \in Nat
  BY NumDigitsLemma
<1>3. \A k \in 0..4 : Left(l)[k] \in Nat
  BY LeftLemma
<1>4. ASSUME NEW k \in 1..n PROVE buf[k] % Base = Left(l)[k - 1] % Base /\ buf[k] % Base \in Nat
  <2>1. k - 1 \in 0..4
    BY <1>2
  <2>2. Left(l)[k - 1] \in Nat
    BY <1>3, <2>1
  <2>3. Left(l)[k - 1] % Base \in Nat
    BY <2>2, DivLemma
  <2> QED BY <2>3, EncodeLemma
<1>5. ASSUME NEW k \in 1..n, NEW t \in D PROVE Step(t, k) \in D
  <2> DEFINE b == buf[k] % Base
  <2>1. b \in Nat /\ t.length \in Nat /\ t.multiplier \in Nat
    BY <1>4, <1>5
  <2> HIDE DEF b
  <2>2. t.length + b * t.multiplier \in Nat /\ t.multiplier * Base \in Nat
    BY <1>1, <2>1
  <2> QED BY <2>2 DEF b
<1>6. PICK f : f \in [0..n -> D] /\ f = Def(f)
  <2>1. g \in [1..n -> [D -> D]] /\ start \in D
    BY <1>5
  <2>2. PICK f : Run(D, n, start, g, f)
    <3> HIDE DEF g, start, D, n
    <3> QED BY <1>2, <2>1, Recursion
  <2>3. f \in [0..n -> D] /\ f[0] = start
    BY <2>2 DEF Run
  <2>4. ASSUME NEW k \in 1..n PROVE f[k] = Step(f[k - 1], k)
    <3>1. f[k - 1] \in D
      BY <1>2, <2>3
    <3>2. f[k] = g[k][f[k - 1]]
      BY <2>2 DEF Run
    <3> QED BY <3>1, <3>2
  <2>5. f = Def(f)
    <3> HIDE DEF Step, start, D, n
    <3> QED BY <1>2, <2>3, <2>4
  <2> QED BY <2>3, <2>5
<1>7. turn = Def(turn) /\ Turns(n, buf) = turn[n]
  BY <1>6 DEF Turns
<1> HIDE DEF turn
<1>8. turn[0] = start /\ \A k \in 1..n : turn[k] = Step(turn[k - 1], k)
  <2> HIDE DEF Step, start
  <2> QED BY <1>2, <1>7
<1> DEFINE OK(k) == turn[k] \in D /\ turn[k].length + turn[k].multiplier * Left(l)[k] = l
           S == {k \in Nat : k <= n => OK(k)}
<1>9. 0 \in S
  <2>1. Left(l)[0] = l
    BY LeftLemma
  <2> QED BY <1>1, <1>8, <2>1
<1>10. ASSUME NEW k \in S PROVE k + 1 \in S
  <2> SUFFICES ASSUME k + 1 <= n PROVE OK(k + 1)
    OBVIOUS
  <2>1. k \in 0..4 /\ k + 1 \in 1..n /\ k + 1 \in 1..4
    BY <1>2
  <2>2. OK(k)
    BY <1>2
  <2> DEFINE m == turn[k].multiplier
             a == turn[k].length
             q == Left(l)[k]
             r == Left(l)[k + 1]
             d == q % Base
  <2>3. m \in Nat /\ a \in Nat /\ a + m * q = l
    BY <2>2
  <2>4. q \in Nat /\ r \in Nat /\ r = q \div Base
    BY <1>3, <2>1, LeftLemma
  <2>5. q = Base * r + d /\ d \in Nat
    BY <2>4, DivLemma
  <2>6. turn[k + 1] = Step(turn[k], k + 1) /\ buf[k + 1] % Base = d
    BY <1>4, <1>8, <2>1
  <2>7. turn[k + 1] \in D
    BY <1>5, <2>1, <2>2, <2>6
  <2>8. turn[k + 1].length = a + d * m /\ turn[k + 1].multiplier = m * Base
    BY <2>6
  <2> HIDE DEF m, a, q, r, d
  <2>9. (m * Base) * r + d * m = m * (Base * r + d)
    <3>1. m \in Nat /\ r \in Nat /\ d \in Nat /\ Base \in Nat
      BY <1>1, <2>3, <2>4, <2>5
    <3>2. (m * Base) * r = m * (Base * r)
      BY <3>1
    <3>3. m * (Base * r + d) = m * (Base * r) + m * d
      <4>1. Base * r \in Nat
        BY <3>1
      <4> QED BY <3>1, <4>1
    <3>4. d * m = m * d
      BY <3>1
    <3> QED BY <3>2, <3>3, <3>4
  <2>10. (a + d * m) + (m * Base) * r = l
    <3>1. (m * Base) * r \in Nat /\ d * m \in Nat
      BY <1>1, <2>3, <2>4, <2>5
    <3> QED BY <2>3, <2>5, <2>9, <3>1
  <2> QED BY <2>7, <2>8, <2>10 DEF r
<1>11. S = Nat
  <2> HIDE DEF S
  <2>1. S \in SUBSET Nat
    BY DEF S
  <2> QED BY <1>9, <1>10, <2>1, SetInduction
<1>12. OK(n)
  <2>1. n \in S
    BY <1>2, <1>11
  <2> QED BY <1>2, <2>1
<1>13. Left(l)[n] = 0
  BY NumDigitsLemma
<1> HIDE DEF n
<1>14. turn[n].length = l
  BY <1>12, <1>13
<1> QED BY <1>7, <1>14 DEF n

\* mspDecodeFHeaderLength undoes mspEncodeFHeaderLength, when it is told of all the digits.
LEMMA DecodeLemma ==
    ASSUME NEW l \in 0..MaxLength, NEW buf,
           \A k \in 1..NumDigits(l) : buf[k] = EncodeLength(l)[k]
    PROVE  DecodeLength(NumDigits(l), buf) = [digits |-> NumDigits(l), length |-> l]
<1> DEFINE n == NumDigits(l)
           ends == {k \in 1..(n + 1) : ~More(buf[k])}
<1>1. n \in 1..4
  BY NumDigitsLemma
<1>2. n \in ends /\ \A k \in ends : n <= k
  <2>1. \A k \in 1..n : More(buf[k]) <=> k < n
    BY EncodeLemma
  <2> HIDE DEF n
  <2> QED BY <1>1, <2>1
<1>3. Min(ends) = n
  <2> HIDE DEF ends
  <2>1. Min(ends) \in ends /\ \A k \in ends : Min(ends) <= k
    BY <1>2 DEF Min
  <2>2. \A k \in ends : k \in Nat
    BY DEF ends
  <2>3. Min(ends) <= n /\ n <= Min(ends) /\ Min(ends) \in Nat /\ n \in Nat
    BY <1>2, <2>1, <2>2
  <2> QED BY <2>3
<1>4. Turns(n, buf).length = l
  BY TurnsLemma
<1> QED BY <1>2, <1>3, <1>4 DEF DecodeLength

-----------------------------------------------------------------------------
(* The stream of bytes.                                                    *)

\* r is s followed by t.
IsConcat(S, s, t, r) ==
    /\ r \in Seq(S) /\ Len(r) = Len(s) + Len(t)
    /\ \A k \in 1..Len(s) : r[k] = s[k]
    /\ \A k \in 1..Len(t) : r[Len(s) + k] = t[k]

LEMMA ConcatLemma ==
    ASSUME NEW S, NEW s \in Seq(S), NEW t \in Seq(S)
    PROVE  IsConcat(S, s, t, s \o t)
BY DEF IsConcat

LEMMA BytesLemma ==
    ASSUME NEW m \in Messages
    PROVE  /\ m.length \in 0..MaxLength
           /\ Bytes(m) \in Seq(Byte)
           /\ Len(Bytes(m)) = 1 + NumDigits(m.length) + m.length
           /\ Bytes(m)[1] = Header(m.type)
           /\ \A k \in 1..NumDigits(m.length) : Bytes(m)[1 + k] = EncodeLength(m.length)[k]
<1> DEFINE l == m.length
           rest == [i \in 1..l |-> (3 * i) % (2 * Base)]
           e == EncodeLength(l)
           h == <<Header(m.type)>>
<1>1. Base \in Nat /\ Base > 1
  BY ReadAssumption
<1>2. l \in 0..MaxLength /\ l \in Nat
  <2>1. l \in Lengths
    BY DEF Messages
  <2>2. l \in 0..MaxLength
    BY <2>1, ReadAssumption
  <2> HIDE DEF l
  <2> QED BY <2>2
<1>3. rest \in Seq(Byte) /\ Len(rest) = l
  <2>1. ASSUME NEW i \in 1..l PROVE (3 * i) % (2 * Base) \in Byte
    BY <1>1, <1>2 DEF Byte
  <2>2. rest = [i \in 1..l |-> rest[i]] /\ \A i \in 1..l : rest[i] \in Byte
    BY <2>1
  <2> HIDE DEF rest, l
  <2> QED BY <1>2, <2>2
<1>4. h \in Seq(Byte) /\ Len(h) = 1 /\ h[1] = Header(m.type)
  BY <1>1 DEF Header, Byte
<1>5. e \in Seq(Byte) /\ Len(e) = NumDigits(l) /\ NumDigits(l) \in Nat
  BY <1>2, EncodeLemma, NumDigitsLemma
<1>6. Bytes(m) = h \o e \o rest
  BY DEF Bytes
<1>7. /\ Bytes(m) \in Seq(Byte)
      /\ Len(Bytes(m)) = Len(h) + Len(e) + Len(rest)
      /\ \A k \in 1..Len(h) : Bytes(m)[k] = h[k]
      /\ \A k \in 1..Len(e) : Bytes(m)[Len(h) + k] = e[k]
  <2>1. h \in Seq(Byte) /\ e \in Seq(Byte) /\ rest \in Seq(Byte)
    BY <1>3, <1>4, <1>5
  <2> DEFINE he == h \o e
  <2> HIDE DEF h, e, rest, l
  <2>2. IsConcat(Byte, h, e, he)
    BY <2>1, ConcatLemma
  <2> HIDE DEF he
  <2>3. he \in Seq(Byte)
    BY <2>2 DEF IsConcat
  <2>4. IsConcat(Byte, he, rest, Bytes(m))
    <3>1. IsConcat(Byte, he, rest, he \o rest)
      BY <2>1, <2>3, ConcatLemma
    <3> QED BY <1>6, <3>1 DEF he
  <2>5. Len(h) \in Nat /\ Len(e) \in Nat /\ Len(rest) \in Nat
    BY <2>1
  <2> QED BY <2>2, <2>4, <2>5 DEF IsConcat
<1> HIDE DEF h, e, rest, l
<1>8. Bytes(m)[1] = h[1] /\ \A k \in 1..NumDigits(l) : Bytes(m)[1 + k] = e[k]
  BY <1>4, <1>5, <1>7
<1>9. Len(Bytes(m)) = 1 + NumDigits(l) + l
  BY <1>3, <1>4, <1>5, <1>7
<1> QED BY <1>2, <1>4, <1>7, <1>8, <1>9 DEF e, l

\* What the broker sends is the bytes of a message, and then those of the rest.
LEMMA LastBytesLemma ==
    ASSUME NEW ms \in Seq(Messages)
    PROVE  /\ LastBytes(ms, 0) = <<>>
           /\ \A k \in 0..Len(ms) : LastBytes(ms, k) \in Seq(Byte)
           /\ \A k \in 1..Len(ms) : LastBytes(ms, k) = Bytes(ms[Len(ms) - k + 1]) \o LastBytes(ms, k - 1)
<1> DEFINE n == Len(ms)
           D == Seq(Byte)
           Def(f) == [k \in 0..n |-> IF k = 0 THEN <<>> ELSE Bytes(ms[n - k + 1]) \o f[k - 1]]
           g == [k \in 1..n |-> [b \in D |-> Bytes(ms[n - k + 1]) \o b]]
           last == CHOOSE f : f = Def(f)
<1>1. n \in Nat
  OBVIOUS
<1>2. \A k \in 1..n : Bytes(ms[n - k + 1]) \in Seq(Byte)
  <2>1. ASSUME NEW k \in 1..n PROVE Bytes(ms[n - k + 1]) \in Seq(Byte)
    <3>1. ms[n - k + 1] \in Messages
      BY <1>1
    <3> QED BY <3>1, BytesLemma
  <2> QED BY <2>1
<1>3. PICK f : f \in [0..n -> D] /\ f = Def(f)
  <2>1. g \in [1..n -> [D -> D]] /\ <<>> \in D
    BY <1>2
  <2>2. PICK f : Run(D, n, <<>>, g, f)
    <3> HIDE DEF g, D, n
    <3> QED BY <1>1, <2>1, Recursion
  <2>3. f \in [0..n -> D] /\ f[0] = <<>>
    BY <2>2 DEF Run
  <2>4. ASSUME NEW k \in 1..n PROVE f[k] = Bytes(ms[n - k + 1]) \o f[k - 1]
    <3>1. f[k - 1] \in D
      BY <1>1, <2>3
    <3>2. f[k] = g[k][f[k - 1]]
      BY <2>2 DEF Run
    <3> QED BY <3>1, <3>2
  <2>5. f = Def(f)
    <3> HIDE DEF D, n
    <3> QED BY <1>1, <2>3, <2>4
  <2> QED BY <2>3, <2>5
<1>4. last = Def(last) /\ \A k : LastBytes(ms, k) = last[k]
  BY <1>3 DEF LastBytes
<1> HIDE DEF last
<1>5. last[0] = <<>> /\ \A k \in 1..n : last[k] = Bytes(ms[n - k + 1]) \o last[k - 1]
  <2> HIDE DEF n
  <2> QED BY <1>1, <1>4
<1> DEFINE S == {k \in Nat : k <= n => last[k] \in Seq(Byte)}
<1>6. 0 \in S
  <2>1. last[0] \in Seq(Byte)
    BY <1>5
  <2> QED BY <2>1
<1>7. ASSUME NEW k \in S PROVE k + 1 \in S
  <2> SUFFICES ASSUME k + 1 <= n PROVE last[k + 1] \in Seq(Byte)
    OBVIOUS
  <2>1. k + 1 \in 1..n /\ last[k] \in Seq(Byte)
    BY <1>1
  <2>2. last[k + 1] = Bytes(ms[n - (k + 1) + 1]) \o last[k]
    <3>1. last[k + 1] = Bytes(ms[n - (k + 1) + 1]) \o last[(k + 1) - 1]
      BY <1>5, <2>1
    <3>2. (k + 1) - 1 = k
      OBVIOUS
    <3> QED BY <3>1, <3>2
  <2> QED BY <1>2, <2>1, <2>2
<1>8. S = Nat
  <2> HIDE DEF S
  <2>1. S \in SUBSET Nat
    BY DEF S
  <2> QED BY <1>6, <1>7, <2>1, SetInduction
<1>9. \A k \in 0..n : last[k] \in Seq(Byte)
  BY <1>1, <1>8
<1> QED BY <1>4, <1>5, <1>9

-----------------------------------------------------------------------------
(* The inductive invariant.                                                *)

\* What the client has still to read, when it begins to read a message.
Undelivered == LastBytes(sent, Len(sent) - Len(received))

\* The message it reads.
Current == sent[Len(received) + 1]

\* How many bytes of it are in the buffer.
Taken == IF pc = "select" THEN 0 ELSE ptr

ByteMore(m) == IF m.type = "PUBLISH" THEN 1 ELSE 0

TypeInv ==
    /\ TypeOK
    /\ sent \in Seq(Messages) /\ wire \in Seq(Byte) /\ received \in Seq(Seq(Byte))

\* What is in the buffer and what is on the wire are the first bytes of it, on end.
StreamOK ==
    /\ Taken + Len(wire) <= Len(Undelivered)
    /\ \A i \in 1..Taken : buffer[i - 1] = Undelivered[i]
    /\ \A i \in 1..Len(wire) : wire[i] = Undelivered[Taken + i]

\* In the first loop, as many bytes as it has counted, and the last digit not among them.
HeadOK ==
    pc = "head" => /\ msgLen = ptr
                   /\ ptr > 0 => /\ Len(received) < Len(sent)
                                 /\ ptr <= NumDigits(Current.length)

\* In the second, what is left is what is left of the message.
BodyOK ==
    pc = "body" => /\ Len(received) < Len(sent)
                   /\ ptr > 0 /\ nleft > 0 /\ ptr + nleft = Len(Bytes(Current))
                   /\ msgLen = ptr + nleft + ByteMore(Current)

IInv ==
    /\ TypeInv /\ WholeMessages /\ HeadOK /\ BodyOK
    /\ IF sockOpen THEN StreamOK ELSE pc = "select"

LEMMA CountsLemma ==
    ASSUME TypeInv, WholeMessages
    PROVE  /\ Len(sent) \in Nat /\ Len(received) \in 0..Len(sent)
           /\ Undelivered \in Seq(Byte) /\ Len(Undelivered) \in Nat
           /\ Len(received) = Len(sent) => Len(Undelivered) = 0
<1>1. Len(sent) \in Nat /\ Len(received) \in 0..Len(sent)
  BY DEF TypeInv, WholeMessages
<1>2. Len(sent) - Len(received) \in 0..Len(sent)
  BY <1>1
<1>3. Undelivered \in Seq(Byte)
  BY <1>2, LastBytesLemma DEF TypeInv, Undelivered
<1>4. ASSUME Len(received) = Len(sent) PROVE Len(Undelivered) = 0
  <2>1. Undelivered = LastBytes(sent, 0)
    BY <1>1, <1>4 DEF Undelivered
  <2>2. LastBytes(sent, 0) = <<>>
    BY LastBytesLemma DEF TypeInv
  <2> QED BY <2>1, <2>2
<1> QED BY <1>1, <1>3, <1>4

\* What is to be read begins with the message to be read.
LEMMA CurrentLemma ==
    ASSUME TypeInv, WholeMessages, Len(received) < Len(sent)
    PROVE  /\ Current \in Messages
           /\ LastBytes(sent, Len(sent) - Len(received) - 1) \in Seq(Byte)
           /\ IsConcat(Byte, Bytes(Current), LastBytes(sent, Len(sent) - Len(received) - 1), Undelivered)
<1> DEFINE n == Len(sent)
           k == n - Len(received)
<1>1. n \in Nat /\ Len(received) \in 0..n /\ k \in 1..n /\ k - 1 \in 0..n
  BY CountsLemma
<1>2. n - k + 1 = Len(received) + 1
  BY <1>1
<1>3. Current \in Messages
  BY <1>1 DEF TypeInv, Current
<1>4. LastBytes(sent, k - 1) \in Seq(Byte)
  BY <1>1, LastBytesLemma DEF TypeInv
<1>5. LastBytes(sent, k) = Bytes(sent[n - k + 1]) \o LastBytes(sent, k - 1)
  BY <1>1, LastBytesLemma DEF TypeInv
<1>6. Undelivered = Bytes(Current) \o LastBytes(sent, k - 1)
  BY <1>2, <1>5 DEF Undelivered, Current
<1>7. IsConcat(Byte, Bytes(Current), LastBytes(sent, k - 1), Bytes(Current) \o LastBytes(sent, k - 1))
  BY <1>3, <1>4, BytesLemma, ConcatLemma
<1> QED BY <1>3, <1>4, <1>6, <1>7

\* What a message is made of, where it stands in the stream.
LEMMA LayoutLemma ==
    ASSUME TypeInv, WholeMessages, Len(received) < Len(sent)
    PROVE  /\ Current.length \in 0..MaxLength /\ NumDigits(Current.length) \in 1..4
           /\ Current.type \in {"PUBLISH", "OTHER"}
           /\ Len(Bytes(Current)) = 1 + NumDigits(Current.length) + Current.length
           /\ Len(Bytes(Current)) <= Len(Undelivered)
           /\ \A i \in 1..Len(Bytes(Current)) : Undelivered[i] = Bytes(Current)[i]
           /\ Undelivered[1] = Header(Current.type)
           /\ \A k \in 1..NumDigits(Current.length) :
                 Undelivered[1 + k] = EncodeLength(Current.length)[k]
<1> DEFINE b == Bytes(Current)
           rest == LastBytes(sent, Len(sent) - Len(received) - 1)
           l == Current.length
<1>1. Current \in Messages /\ rest \in Seq(Byte) /\ IsConcat(Byte, b, rest, Undelivered)
  BY CurrentLemma
<1>2. l \in 0..MaxLength /\ NumDigits(l) \in 1..4 /\ Current.type \in {"PUBLISH", "OTHER"}
  BY <1>1, BytesLemma, NumDigitsLemma DEF Messages
<1>3. /\ b \in Seq(Byte) /\ Len(b) = 1 + NumDigits(l) + l
      /\ b[1] = Header(Current.type)
      /\ \A k \in 1..NumDigits(l) : b[1 + k] = EncodeLength(l)[k]
  BY <1>1, BytesLemma
<1> HIDE DEF b, rest, l
<1>4. /\ Len(Undelivered) = Len(b) + Len(rest) /\ Len(b) \in Nat /\ Len(rest) \in Nat
      /\ \A i \in 1..Len(b) : Undelivered[i] = b[i]
  BY <1>1, <1>3 DEF IsConcat
<1>5. Undelivered[1] = b[1]
  BY <1>2, <1>3, <1>4
<1>6. ASSUME NEW k \in 1..NumDigits(l) PROVE Undelivered[1 + k] = EncodeLength(l)[k]
  <2>1. 1 + k \in 1..Len(b)
    BY <1>2, <1>3
  <2> QED BY <1>3, <1>4, <2>1
<1> QED BY <1>2, <1>3, <1>4, <1>5, <1>6 DEF b, l

\* A recv moves bytes from the wire into the buffer.
LEMMA RecvLemma ==
    ASSUME TypeInv, WholeMessages, StreamOK, pc # "select", NEW n \in Nat \ {0}, Recv(n)
    PROVE  /\ Len(received) < Len(sent)
           /\ wire' \in Seq(Byte) /\ buffer' \in [Cells -> Byte]
           /\ ptr + n + Len(wire') <= Len(Undelivered)
           /\ \A i \in 1..Len(wire') : wire'[i] = Undelivered[ptr + n + i]
           /\ \A i \in 1..(ptr + n) : i - 1 \in Cells => buffer'[i - 1] = Undelivered[i]
<1>1. /\ wire \in Seq(Byte) /\ buffer \in [Cells -> Byte] /\ ptr \in Nat
      /\ Len(wire) \in Nat /\ n <= Len(wire) /\ n \in Nat /\ n > 0
  BY DEF TypeInv, TypeOK, Byte, Cells, Recv
<1>2. /\ ptr + Len(wire) <= Len(Undelivered) /\ Len(Undelivered) \in Nat
      /\ \A i \in 1..ptr : buffer[i - 1] = Undelivered[i]
      /\ \A i \in 1..Len(wire) : wire[i] = Undelivered[ptr + i]
  BY CountsLemma DEF StreamOK, Taken
<1>3. Len(received) < Len(sent)
  BY <1>1, <1>2, CountsLemma
<1> DEFINE bs == SubSeq(wire, 1, n)
<1>4. bs \in Seq(Byte) /\ Len(bs) = n /\ \A i \in 1..n : bs[i] = wire[i]
  BY <1>1
<1>5. /\ wire' \in Seq(Byte) /\ Len(wire') = Len(wire) - n
      /\ \A i \in 1..Len(wire') : wire'[i] = wire[n + i]
  <2>1. wire' = SubSeq(wire, n + 1, Len(wire))
    BY DEF Recv
  <2> QED BY <1>1, <2>1
<1>6. buffer' = Filled(bs)
  BY DEF Recv
<1> HIDE DEF bs
<1>7. \A i \in Cells : buffer'[i] = IF i >= ptr /\ i < ptr + n THEN bs[i - ptr + 1] ELSE buffer[i]
  BY <1>4, <1>6 DEF Filled
<1>8. buffer' \in [Cells -> Byte]
  <2>1. ASSUME NEW i \in Cells PROVE buffer'[i] \in Byte
    <3>1. i \in Nat
      BY DEF Cells
    <3>2. CASE i >= ptr /\ i < ptr + n
      <4>1. i - ptr + 1 \in 1..n
        BY <1>1, <3>1, <3>2
      <4> QED BY <1>4, <1>7, <3>2, <4>1
    <3>3. CASE ~(i >= ptr /\ i < ptr + n)
      BY <1>1, <1>7, <3>3
    <3> QED BY <3>2, <3>3
  <2>2. buffer' = [i \in Cells |-> buffer'[i]]
    BY <1>6 DEF Filled
  <2> QED BY <2>1, <2>2
<1>9. ASSUME NEW i \in 1..Len(wire') PROVE wire'[i] = Undelivered[ptr + n + i]
  <2>1. n + i \in 1..Len(wire) /\ ptr + (n + i) = ptr + n + i
    BY <1>1, <1>5
  <2> QED BY <1>2, <1>5, <2>1
<1>10. ASSUME NEW i \in 1..(ptr + n), i - 1 \in Cells PROVE buffer'[i - 1] = Undelivered[i]
  <2>1. CASE i <= ptr
    <3>1. i \in 1..ptr /\ ~(i - 1 >= ptr)
      BY <1>1, <2>1
    <3> QED BY <1>2, <1>7, <1>10, <3>1
  <2>2. CASE i > ptr
    <3>1. /\ i - 1 >= ptr /\ i - 1 < ptr + n /\ i - 1 - ptr + 1 = i - ptr
          /\ i - ptr \in 1..n /\ i - ptr \in 1..Len(wire) /\ ptr + (i - ptr) = i
      BY <1>1, <2>2
    <3>2. buffer'[i - 1] = bs[i - ptr]
      BY <1>7, <1>10, <3>1
    <3>3. wire[i - ptr] = Undelivered[ptr + (i - ptr)]
      BY <1>2, <3>1
    <3> QED BY <1>4, <3>1, <3>2, <3>3
  <2> QED BY <1>1, <2>1, <2>2
<1>11. ptr + n + Len(wire') <= Len(Undelivered)
  BY <1>1, <1>2, <1>5
<1> QED BY <1>3, <1>5, <1>8, <1>9, <1>10, <1>11

\* The last byte of a message has been read.
LEMMA DeliverLemma ==
    ASSUME TypeInv, WholeMessages, Len(received) < Len(sent), UNCHANGED sent,
           buffer' \in [Cells -> Byte], wire' \in Seq(Byte),
           NEW c, c = Len(Bytes(Current)),
           \A i \in 1..c : buffer'[i - 1] = Undelivered[i],
           c + Len(wire') <= Len(Undelivered),
           \A i \in 1..Len(wire') : wire'[i] = Undelivered[c + i],
           Deliver(c + ByteMore(Current))
    PROVE  received' \in Seq(Seq(Byte)) /\ WholeMessages' /\ StreamOK' /\ pc' = "select"
<1> DEFINE r == Len(received)
           b == Bytes(Current)
           len == c + ByteMore(Current)
           new == [i \in 1..len |-> buffer'[i - 1]]
           rest == LastBytes(sent, Len(sent) - r - 1)
<1>1. /\ r \in Nat /\ Len(sent) \in Nat /\ r < Len(sent)
      /\ received \in Seq(Seq(Byte)) /\ sent \in Seq(Messages)
  BY CountsLemma DEF TypeInv
<1>2. /\ c = 1 + NumDigits(Current.length) + Current.length
      /\ Current.length \in 0..MaxLength /\ NumDigits(Current.length) \in 1..4
      /\ \A i \in 1..c : Undelivered[i] = b[i]
  BY LayoutLemma
<1>3. c \in Nat /\ ByteMore(Current) \in 0..1 /\ len \in Nat /\ \A i \in 1..len : i - 1 \in Cells
  <2>1. MaxLength \in Int
    BY ReadAssumption DEF MaxLength
  <2>2. ByteMore(Current) \in 0..1
    BY DEF ByteMore
  <2>3. c \in Nat /\ c <= MaxLength + 5
    <3>1. \A l \in 0..MaxLength : \A d \in 1..4 : 1 + d + l \in Nat /\ 1 + d + l <= MaxLength + 5
      BY <2>1
    <3> QED BY <1>2, <3>1
  <2>4. len \in Nat /\ len <= MaxLength + 6
    BY <2>1, <2>2, <2>3
  <2> HIDE DEF len
  <2>5. \A i \in 1..len : i - 1 \in Cells
    BY <2>1, <2>4 DEF Cells
  <2> QED BY <2>2, <2>3, <2>4, <2>5
<1>4. received' = Append(received, new) /\ pc' = "select"
  BY DEF Deliver
<1>5. new \in Seq(Byte) /\ Len(new) = len /\ \A i \in 1..c : new[i] = b[i]
  <2>1. \A i \in 1..len : new[i] \in Byte
    BY <1>3
  <2>2. \A i \in 1..c : i \in 1..len /\ new[i] = b[i]
    BY <1>2, <1>3
  <2>3. new = [i \in 1..len |-> new[i]]
    OBVIOUS
  <2> HIDE DEF new, len, b
  <2>4. new \in Seq(Byte) /\ Len(new) = len
    <3>1. len \in Nat
      BY <1>3
    <3> QED BY <2>1, <2>3, <3>1
  <2> QED BY <2>2, <2>4
<1>6. b \in Seq(Byte) /\ Len(b) = c
  BY CurrentLemma, BytesLemma
<1>7. SubSeq(new, 1, Len(b)) = b
  <2> HIDE DEF new, b
  <2>1. c <= Len(new)
    BY <1>3, <1>5
  <2>2. /\ SubSeq(new, 1, c) \in Seq(Byte) /\ Len(SubSeq(new, 1, c)) = c
        /\ \A i \in 1..c : SubSeq(new, 1, c)[i] = new[i]
    BY <1>3, <1>5, <2>1
  <2> QED BY <1>5, <1>6, <2>2
<1> HIDE DEF new, len, rest
<1>8. /\ received' \in Seq(Seq(Byte)) /\ Len(received') = r + 1 /\ received'[r + 1] = new
      /\ \A i \in 1..r : received'[i] = received[i]
  BY <1>1, <1>4, <1>5
<1>9. WholeMessages'
  <2>1. Len(received') <= Len(sent')
    BY <1>1, <1>8
  <2>2. ASSUME NEW i \in 1..Len(received')
        PROVE  /\ Len(received'[i]) = Len(Bytes(sent[i])) + ByteMore(sent[i])
               /\ SubSeq(received'[i], 1, Len(Bytes(sent[i]))) = Bytes(sent[i])
    <3>1. CASE i \in 1..r
      BY <1>8, <3>1 DEF WholeMessages, ByteMore
    <3>2. CASE i = r + 1
      <4>1. sent[i] = Current
        BY <3>2 DEF Current
      <4> QED BY <1>5, <1>6, <1>7, <1>8, <3>2, <4>1 DEF len
    <3> QED BY <1>1, <1>8, <3>1, <3>2
  <2> QED BY <2>1, <2>2 DEF WholeMessages, ByteMore
<1>10. Undelivered' = rest
  <2>1. Len(sent) - (r + 1) = Len(sent) - r - 1
    BY <1>1
  <2> QED BY <1>8, <2>1 DEF Undelivered, rest
<1>11. rest \in Seq(Byte) /\ IsConcat(Byte, b, rest, Undelivered)
  BY CurrentLemma DEF rest
<1>12. /\ Len(Undelivered) = c + Len(rest) /\ Len(rest) \in Nat /\ Len(wire') \in Nat
       /\ \A i \in 1..Len(rest) : Undelivered[c + i] = rest[i]
  BY <1>6, <1>11 DEF IsConcat
<1>13. Len(wire') <= Len(rest) /\ \A i \in 1..Len(wire') : wire'[i] = rest[i]
  BY <1>3, <1>12
<1>14. StreamOK'
  BY <1>4, <1>10, <1>13, <1>12 DEF StreamOK, Taken
<1> QED BY <1>4, <1>8, <1>9, <1>14

-----------------------------------------------------------------------------
(* Every action preserves the invariant.                                   *)

LEMMA CellsLemma == MaxLength \in Nat /\ 0..5 \subseteq Cells
<1>1. Base * Base \in Nat /\ Base * Base > 0
  BY ReadAssumption
<1>2. Base * Base * Base \in Nat /\ Base * Base * Base > 0
  BY <1>1, ReadAssumption
<1>3. Base * Base * Base * Base \in Nat /\ Base * Base * Base * Base > 0
  BY <1>2, ReadAssumption
<1>4. MaxLength \in Nat
  BY <1>3 DEF MaxLength
<1> QED BY <1>4 DEF Cells

LEMMA InitLemma == Init => IInv
<1> SUFFICES ASSUME Init PROVE IInv
  OBVIOUS
<1>1. /\ Base \in Nat /\ Base > 1 /\ MaxConns \in Nat /\ MaxConns > 0
      /\ IpcBufferSz \in Nat /\ 0..5 \subseteq Cells
  BY ReadAssumption, CellsLemma
<1>2. sent \in Seq(Messages) /\ Len(sent) \in Nat
  <2>1. PICK n \in 0..MaxMsgs : sent \in [1..n -> Messages]
    BY DEF Init
  <2>2. n \in Nat
    OBVIOUS
  <2> QED BY <2>1, <2>2
<1>3. wire = LastBytes(sent, Len(sent)) /\ received = <<>> /\ pc = "select" /\ sockOpen
  BY DEF Init
<1>4. wire \in Seq(Byte)
  BY <1>2, <1>3, LastBytesLemma
<1>5. Len(received) = 0 /\ received \in Seq(Seq(Byte))
  BY <1>3
<1>6. TypeOK
  <2>1. 0 \in Cells
    BY <1>1
  <2>2. buffer \in [Cells -> 0..(2 * Base - 1)]
    BY <1>1 DEF Init
  <2>3. conns \in 0..MaxConns
    BY <1>1 DEF Init
  <2> QED BY <1>1, <2>1, <2>2, <2>3 DEF Init, TypeOK
<1>7. WholeMessages
  BY <1>2, <1>5 DEF WholeMessages
<1>8. StreamOK
  <2>1. Undelivered = wire
    BY <1>2, <1>3, <1>5 DEF Undelivered
  <2> QED BY <1>3, <1>4, <2>1 DEF StreamOK, Taken
<1> QED BY <1>2, <1>3, <1>4, <1>5, <1>6, <1>7, <1>8 DEF IInv, TypeInv, HeadOK, BodyOK

LEMMA SelectStep == IInv /\ Select => IInv'
<1> SUFFICES ASSUME IInv, Select PROVE IInv'
  OBVIOUS
<1>1. /\ pc = "select" /\ sockOpen /\ pc' = "head" /\ ptr' = 0 /\ msgLen' = 0
      /\ UNCHANGED <<sent, wire, peer, conns, sockOpen, errno, buffer, bufLen, nleft, received>>
  BY DEF Select, netVars
<1>2. TypeInv' /\ WholeMessages'
  <2>1. 0 \in Cells
    BY CellsLemma
  <2> QED BY <1>1, <2>1 DEF IInv, TypeInv, TypeOK, WholeMessages
<1>3. StreamOK'
  <2>1. Undelivered' = Undelivered /\ Taken = 0 /\ Taken' = 0
    BY <1>1 DEF Undelivered, Taken
  <2> QED BY <1>1, <2>1 DEF IInv, StreamOK
<1> QED BY <1>1, <1>2, <1>3 DEF IInv, HeadOK, BodyOK

\* A failed read leaves what has been received.
LEMMA FailLemma ==
    ASSUME IInv, Fail, errno' \in {"NONE", "EINTR", "ECONNRESET"},
           msgLen' \in Nat, bufLen' \in Nat
    PROVE  IInv'
<1>1. /\ pc' = "select" /\ ~sockOpen' /\ sockOpen' \in BOOLEAN
      /\ UNCHANGED <<sent, wire, peer, conns, buffer, ptr, nleft, received>>
  BY DEF Fail, netVars
<1>2. TypeInv' /\ WholeMessages'
  BY <1>1 DEF IInv, TypeInv, TypeOK, WholeMessages
<1> QED BY <1>1, <1>2 DEF IInv, HeadOK, BodyOK

LEMMA ClosedStep == IInv /\ (HeadClosed \/ BodyClosed \/ RecvReset) => IInv'
<1> SUFFICES ASSUME IInv, HeadClosed \/ BodyClosed \/ RecvReset PROVE IInv'
  OBVIOUS
<1>1. Fail
  BY DEF HeadClosed, BodyClosed, RecvReset
<1>2. errno' \in {"NONE", "EINTR", "ECONNRESET"} /\ msgLen' \in Nat /\ bufLen' \in Nat
  BY DEF HeadClosed, BodyClosed, RecvReset, IInv, TypeInv, TypeOK
<1> QED BY <1>1, <1>2, FailLemma

\* The fixed header and the digits are complete.
LEMMA DecodeHeaderLemma ==
    ASSUME IInv, Len(received) < Len(sent), UNCHANGED <<sent, peer, conns, errno>>,
           buffer' \in [Cells -> Byte], wire' \in Seq(Byte),
           NEW c, c = 1 + NumDigits(Current.length),
           \A i \in 1..c : buffer'[i - 1] = Undelivered[i],
           c + Len(wire') <= Len(Undelivered),
           \A i \in 1..Len(wire') : wire'[i] = Undelivered[c + i],
           pc = "head", sockOpen,
           ptr' = 1 + DecodeLength(c - 1, buffer').digits,
           DecodeHeader(c)
    PROVE  IInv'
<1> DEFINE l == Current.length
           n == NumDigits(l)
           total == c + l + ByteMore(Current)
<1>1. /\ l \in 0..MaxLength /\ n \in 1..4 /\ Current.type \in {"PUBLISH", "OTHER"}
      /\ Len(Bytes(Current)) = c + l
      /\ Undelivered[1] = Header(Current.type)
      /\ \A k \in 1..n : Undelivered[1 + k] = EncodeLength(l)[k]
  <2>1. /\ l \in 0..MaxLength /\ n \in 1..4 /\ Current.type \in {"PUBLISH", "OTHER"}
        /\ Len(Bytes(Current)) = 1 + n + l
        /\ Undelivered[1] = Header(Current.type)
        /\ \A k \in 1..n : Undelivered[1 + k] = EncodeLength(l)[k]
    BY LayoutLemma DEF IInv
  <2> QED BY <2>1
<1>2. /\ MaxLength \in Int /\ l \in Nat /\ c \in 2..5 /\ c - 1 = n /\ c \in Cells /\ c \in Nat
      /\ ByteMore(Current) \in 0..1
  <2>1. MaxLength \in Nat /\ 0..5 \subseteq Cells /\ ByteMore(Current) \in 0..1
    BY CellsLemma DEF ByteMore
  <2>2. c \in 2..5 /\ c - 1 = n
    BY <1>1
  <2> HIDE DEF n, l
  <2> QED BY <1>1, <2>1, <2>2
<1>3. DecodeLength(c - 1, buffer') = [digits |-> n, length |-> l]
  <2>1. ASSUME NEW k \in 1..n PROVE buffer'[k] = EncodeLength(l)[k]
    <3>1. 1 + k \in 1..c /\ (1 + k) - 1 = k
      BY <1>1, <1>2
    <3> QED BY <1>1, <3>1
  <2> HIDE DEF l, n
  <2>2. DecodeLength(NumDigits(l), buffer') = [digits |-> NumDigits(l), length |-> l]
    BY <1>1, <2>1, DecodeLemma DEF n
  <2> QED BY <1>2, <2>2 DEF n
<1>4. MessageLength(buffer'[0], n, l) = total
  <2>1. buffer'[0] = Header(Current.type)
    <3>1. 1 \in 1..c /\ 1 - 1 = 0
      BY <1>2
    <3> QED BY <1>1, <3>1
  <2>2. IsPublish(buffer'[0]) <=> Current.type = "PUBLISH"
    BY <1>1, <2>1 DEF IsPublish, Header
  <2> HIDE DEF l, n
  <2>3. MessageLength(buffer'[0], n, l) = l + n + 1 + ByteMore(Current)
    BY <2>2 DEF MessageLength, ByteMore
  <2> QED BY <1>1, <1>2, <2>3
<1>5. /\ msgLen' = total /\ nleft' = l /\ bufLen' = Room(total) /\ ptr' = c
      /\ UNCHANGED sockOpen
      /\ IF l = 0 THEN Deliver(total) ELSE pc' = "body" /\ UNCHANGED received
  <2> HIDE DEF l, n, total
  <2>1. n # 0
    BY <1>1
  <2>2. ptr' = 1 + n
    BY <1>3
  <2> DEFINE d == DecodeLength(c - 1, buffer')
  <2>3. d.digits = n /\ d.length = l
    BY <1>3
  <2>4. IF d.digits = 0
          THEN TRUE
          ELSE /\ msgLen' = MessageLength(buffer'[0], d.digits, d.length) /\ nleft' = d.length
               /\ bufLen' = Room(MessageLength(buffer'[0], d.digits, d.length))
               /\ UNCHANGED sockOpen
               /\ IF d.length = 0 THEN Deliver(MessageLength(buffer'[0], d.digits, d.length))
                                  ELSE pc' = "body" /\ UNCHANGED received
    BY DEF DecodeHeader
  <2>5. ptr' = c
    BY <2>2 DEF n, l
  <2> HIDE DEF d
  <2> QED BY <1>4, <2>1, <2>3, <2>4, <2>5
<1>6. total \in Nat /\ bufLen' \in Nat /\ total <= bufLen'
  <2>1. total \in Nat
    BY <1>2
  <2> HIDE DEF total
  <2> QED BY <1>5, <2>1 DEF Room, IInv, TypeInv, TypeOK
<1>7. UNCHANGED <<sent, peer, conns, errno>>
  BY DEF netVars
<1>8. CASE l = 0
  <2>1. c = Len(Bytes(Current)) /\ Deliver(c + ByteMore(Current))
    BY <1>1, <1>2, <1>5, <1>8
  <2>2. received' \in Seq(Seq(Byte)) /\ WholeMessages' /\ StreamOK' /\ pc' = "select"
    BY <1>7, <2>1, DeliverLemma DEF IInv
  <2>3. TypeInv'
    <3> HIDE DEF l, total
    <3> QED BY <1>2, <1>5, <1>6, <1>7, <1>8, <2>2 DEF IInv, TypeInv, TypeOK, Byte
  <2> QED BY <1>5, <2>2, <2>3 DEF IInv, HeadOK, BodyOK
<1>9. CASE l # 0
  <2>1. pc' = "body" /\ UNCHANGED received
    BY <1>5, <1>9
  <2>2. Undelivered' = Undelivered /\ Current' = Current /\ Taken' = c
    BY <1>5, <1>7, <2>1 DEF Undelivered, Current, Taken
  <2>3. StreamOK'
    BY <2>2 DEF StreamOK
  <2>4. nleft' > 0 /\ ptr' + nleft' = Len(Bytes(Current)) /\ msgLen' = ptr' + nleft' + ByteMore(Current)
    <3>1. nleft' = l /\ ptr' = c /\ msgLen' = c + l + ByteMore(Current)
      BY <1>5
    <3>2. l > 0
      BY <1>2, <1>9
    <3> HIDE DEF l, n, total
    <3> QED BY <1>1, <3>1, <3>2
  <2>5. TypeInv'
    <3>1. ptr' + nleft' <= msgLen' /\ msgLen' <= bufLen' /\ msgLen' \in Nat
      BY <1>2, <1>5, <1>6, <2>4
    <3> HIDE DEF l, total
    <3> QED BY <1>2, <1>5, <1>6, <1>7, <2>1, <2>4, <3>1 DEF IInv, TypeInv, TypeOK, Byte
  <2>6. WholeMessages'
    BY <1>7, <2>1 DEF IInv, WholeMessages
  <2>7. BodyOK'
    <3>1. ByteMore(Current') = ByteMore(Current) /\ Bytes(Current') = Bytes(Current)
      BY <2>2
    <3> QED BY <1>2, <1>5, <1>7, <2>1, <2>2, <2>4 DEF BodyOK, ByteMore
  <2> QED BY <1>5, <2>1, <2>3, <2>5, <2>6, <2>7 DEF IInv, HeadOK
<1> QED BY <1>8, <1>9

\* The first loop never asks for a byte that is not of the header.
LEMMA RecvHeadStep == IInv /\ RecvHead /\ "head" \notin Faults => IInv'
<1> SUFFICES ASSUME IInv, RecvHead, "head" \notin Faults PROVE IInv'
  OBVIOUS
<1>1. PICK n \in 1..HeadWants : Recv(n) /\ HeadRead(n)
  BY DEF RecvHead
<1>2. pc = "head" /\ UNCHANGED <<sent, peer, conns, errno>>
  BY DEF RecvHead
<1>3. TypeInv /\ WholeMessages /\ StreamOK /\ sockOpen /\ msgLen = ptr /\ ptr \in Nat
  <2>1. sockOpen
    BY <1>2 DEF IInv
  <2> QED BY <1>2, <2>1 DEF IInv, HeadOK, TypeInv, TypeOK, Cells
<1>4. n \in Nat \ {0} /\ n \in 1..2 /\ (ptr > 0 => n = 1)
  BY <1>1, <1>3 DEF HeadWants
<1>5. /\ Len(received) < Len(sent)
      /\ wire' \in Seq(Byte) /\ buffer' \in [Cells -> Byte]
      /\ ptr + n + Len(wire') <= Len(Undelivered)
      /\ \A i \in 1..Len(wire') : wire'[i] = Undelivered[ptr + n + i]
      /\ \A i \in 1..(ptr + n) : i - 1 \in Cells => buffer'[i - 1] = Undelivered[i]
  <2>1. pc # "select"
    BY <1>2
  <2> QED BY <1>1, <1>3, <1>4, <2>1, RecvLemma
<1> DEFINE l == Current.length
           d == NumDigits(l)
           c == ptr + n
<1>6. /\ l \in 0..MaxLength /\ d \in 1..4
      /\ \A k \in 1..d : Undelivered[1 + k] = EncodeLength(l)[k]
  BY <1>3, <1>5, LayoutLemma
<1>7. ptr > 0 => ptr <= d
  BY <1>2 DEF IInv, HeadOK
<1> HIDE DEF d
<1>8. c \in 1..(1 + d) /\ ptr + n - 1 = c - 1 /\ msgLen + n = c /\ c \in Nat
  BY <1>3, <1>4, <1>6, <1>7
<1>9. \A i \in 1..c : buffer'[i - 1] = Undelivered[i]
  <2>1. \A i \in 1..c : i - 1 \in Cells
    BY <1>6, <1>8, CellsLemma
  <2> QED BY <1>5, <2>1
<1>10. ASSUME c > 1 PROVE More(buffer'[c - 1]) <=> c - 1 < d
  <2>1. c - 1 \in 1..d /\ c \in 1..c /\ 1 + (c - 1) = c
    BY <1>6, <1>8, <1>10
  <2>2. buffer'[c - 1] = EncodeLength(l)[c - 1]
    BY <1>6, <1>9, <2>1
  <2>3. More(EncodeLength(l)[c - 1]) <=> c - 1 < d
    BY <1>6, <2>1, EncodeLemma DEF d
  <2> QED BY <2>2, <2>3
<1>11. IF c > 1 /\ ~More(buffer'[c - 1])
         THEN ptr' = 1 + DecodeLength(c - 1, buffer').digits /\ DecodeHeader(c)
         ELSE /\ ptr' = c /\ msgLen' = c
              /\ UNCHANGED <<pc, sockOpen, bufLen, nleft, received>>
  <2>1. IF c > 1 /\ ~More(buffer'[c - 1])
          THEN ptr' = 1 + DecodeLength(c - 1, buffer').digits /\ DecodeHeader(c)
          ELSE /\ ptr' = IF c > 1 THEN c - 1 + 1 ELSE ptr + 1
               /\ msgLen' = c
               /\ UNCHANGED <<pc, sockOpen, bufLen, nleft, received>>
    <3> HIDE DEF c
    <3> QED BY <1>1, <1>8 DEF HeadRead
  <2>2. (IF c > 1 THEN c - 1 + 1 ELSE ptr + 1) = c
    BY <1>3, <1>4, <1>8
  <2> QED BY <2>1, <2>2
<1>12. CASE c > 1 /\ ~More(buffer'[c - 1])
  <2>1. c = 1 + d
    BY <1>6, <1>8, <1>10, <1>12
  <2>2. ptr' = 1 + DecodeLength(c - 1, buffer').digits /\ DecodeHeader(c)
    BY <1>11, <1>12
  <2>3. c + Len(wire') <= Len(Undelivered) /\ \A i \in 1..Len(wire') : wire'[i] = Undelivered[c + i]
    BY <1>5
  <2>4. c = 1 + NumDigits(Current.length)
    BY <2>1 DEF d
  <2> HIDE DEF c, l
  <2> QED BY <1>2, <1>3, <1>5, <1>9, <2>2, <2>3, <2>4, DecodeHeaderLemma
<1>13. CASE ~(c > 1 /\ ~More(buffer'[c - 1]))
  <2>1. ptr' = c /\ msgLen' = c /\ UNCHANGED <<pc, sockOpen, bufLen, nleft, received>>
    BY <1>11, <1>13
  <2>2. c <= d
    BY <1>6, <1>8, <1>10, <1>13
  <2>3. Undelivered' = Undelivered /\ Current' = Current /\ Taken' = c
    BY <1>2, <2>1 DEF Undelivered, Current, Taken
  <2>4. StreamOK'
    <3> HIDE DEF c
    <3>1. c + Len(wire') <= Len(Undelivered) /\ \A i \in 1..Len(wire') : wire'[i] = Undelivered[c + i]
      BY <1>5 DEF c
    <3> QED BY <1>9, <2>3, <3>1 DEF StreamOK
  <2>5. TypeInv'
    <3>1. c \in Cells
      BY <1>6, <1>8, <2>2, CellsLemma
    <3> HIDE DEF c
    <3> QED BY <1>2, <1>3, <1>5, <1>8, <2>1, <3>1 DEF TypeInv, TypeOK, Byte
  <2>6. WholeMessages'
    BY <1>2, <1>3, <2>1 DEF WholeMessages
  <2>7. HeadOK'
    BY <1>2, <1>5, <2>1, <2>2, <2>3 DEF HeadOK, d
  <2> QED BY <1>2, <1>3, <2>1, <2>4, <2>5, <2>6, <2>7 DEF IInv, BodyOK
<1> QED BY <1>12, <1>13

LEMMA RecvBodyStep == IInv /\ RecvBody => IInv'
<1> SUFFICES ASSUME IInv, RecvBody PROVE IInv'
  OBVIOUS
<1>1. PICK n \in 1..nleft :
        /\ Recv(n)
        /\ ptr' = ptr + n /\ nleft' = nleft - n
        /\ IF n = nleft THEN Deliver(msgLen) ELSE UNCHANGED <<pc, received>>
  BY DEF RecvBody
<1>2. pc = "body" /\ UNCHANGED <<sent, peer, conns, sockOpen, errno, bufLen, msgLen>>
  BY DEF RecvBody
<1>3. /\ TypeInv /\ WholeMessages /\ StreamOK /\ sockOpen
      /\ ptr \in Nat /\ nleft \in Nat /\ msgLen \in Nat
      /\ Len(received) < Len(sent) /\ ptr > 0 /\ ptr + nleft = Len(Bytes(Current))
      /\ msgLen = ptr + nleft + ByteMore(Current) /\ msgLen <= bufLen
  <2>1. sockOpen
    BY <1>2 DEF IInv
  <2> QED BY <1>2, <2>1 DEF IInv, BodyOK, TypeInv, TypeOK, Cells
<1>4. n \in Nat \ {0} /\ n <= nleft
  BY <1>1, <1>3
<1> DEFINE c == ptr + n
<1>5. /\ wire' \in Seq(Byte) /\ buffer' \in [Cells -> Byte]
      /\ c + Len(wire') <= Len(Undelivered)
      /\ \A i \in 1..Len(wire') : wire'[i] = Undelivered[c + i]
      /\ \A i \in 1..c : i - 1 \in Cells => buffer'[i - 1] = Undelivered[i]
  <2>1. pc # "select"
    BY <1>2
  <2> QED BY <1>1, <1>3, <1>4, <2>1, RecvLemma
<1>6. c \in Nat /\ c <= Len(Bytes(Current)) /\ c \in Cells /\ \A i \in 1..c : i - 1 \in Cells
  <2>1. /\ Len(Bytes(Current)) = 1 + NumDigits(Current.length) + Current.length
        /\ Current.length \in 0..MaxLength /\ NumDigits(Current.length) \in 1..4
    BY <1>3, LayoutLemma
  <2>2. \A l \in 0..MaxLength : \A d \in 1..4 : 1 + d + l <= MaxLength + 5
    BY CellsLemma
  <2>3. Len(Bytes(Current)) <= MaxLength + 5
    BY <2>1, <2>2
  <2>4. c \in Nat /\ c <= Len(Bytes(Current)) /\ Len(Bytes(Current)) \in Nat
    BY <1>3, <1>4
  <2> HIDE DEF c
  <2> QED BY <2>3, <2>4, CellsLemma DEF Cells
<1>7. \A i \in 1..c : buffer'[i - 1] = Undelivered[i]
  BY <1>5, <1>6
<1> HIDE DEF c
<1>8. ptr' = c
  BY <1>1 DEF c
<1>9. CASE n = nleft
  <2>1. c = Len(Bytes(Current)) /\ msgLen = c + ByteMore(Current)
    BY <1>3, <1>9 DEF c
  <2>2. Deliver(c + ByteMore(Current))
    BY <1>1, <1>9, <2>1
  <2>3. received' \in Seq(Seq(Byte)) /\ WholeMessages' /\ StreamOK' /\ pc' = "select"
    BY <1>2, <1>3, <1>5, <1>7, <2>1, <2>2, DeliverLemma
  <2>4. nleft' \in Nat
    BY <1>1, <1>3, <1>4
  <2>5. TypeInv'
    BY <1>2, <1>3, <1>5, <1>6, <1>8, <2>3, <2>4 DEF TypeInv, TypeOK, Byte
  <2> QED BY <1>2, <1>3, <2>3, <2>5 DEF IInv, HeadOK, BodyOK
<1>10. CASE n # nleft
  <2>1. UNCHANGED <<pc, received>>
    BY <1>1, <1>10
  <2>2. Undelivered' = Undelivered /\ Current' = Current /\ Taken' = c
    BY <1>2, <1>8, <2>1 DEF Undelivered, Current, Taken
  <2>3. StreamOK'
    BY <1>5, <1>7, <2>2 DEF StreamOK
  <2>4. /\ nleft' > 0 /\ nleft' \in Nat /\ ptr' + nleft' = ptr + nleft /\ ptr' > 0
    BY <1>1, <1>3, <1>4, <1>10
  <2>5. TypeInv'
    <3>1. ptr' + nleft' <= msgLen'
      BY <1>2, <1>3, <2>4 DEF ByteMore
    <3> QED BY <1>2, <1>3, <1>5, <1>6, <1>8, <2>1, <2>4, <3>1 DEF TypeInv, TypeOK, Byte
  <2>6. WholeMessages'
    BY <1>2, <1>3, <2>1 DEF WholeMessages
  <2>7. BodyOK'
    <3>1. ByteMore(Current') = ByteMore(Current) /\ Bytes(Current') = Bytes(Current)
      BY <2>2
    <3> QED BY <1>2, <1>3, <2>1, <2>4, <3>1 DEF BodyOK, ByteMore
  <2> QED BY <1>2, <1>3, <2>1, <2>3, <2>5, <2>6, <2>7 DEF IInv, HeadOK
<1> QED BY <1>9, <1>10

LEMMA PeerLeavesStep == IInv /\ PeerLeaves => IInv'
<1> SUFFICES ASSUME IInv, PeerLeaves PROVE IInv'
  OBVIOUS
<1>1. /\ UNCHANGED <<sent, conns, sockOpen, errno, pc, bufVars, received>> /\ sockOpen
      /\ peer' \in {"closed", "reset"}
  BY DEF PeerLeaves
<1>2. wire \in Seq(Byte) /\ StreamOK /\ Taken \in Nat
  BY <1>1 DEF IInv, TypeInv, TypeOK, Taken, Cells
<1>3. /\ wire' \in Seq(Byte) /\ Len(wire') <= Len(wire)
      /\ \A i \in 1..Len(wire') : wire'[i] = wire[i]
  <2>1. CASE wire' = <<>>
    BY <1>2, <2>1
  <2>2. ASSUME NEW n \in 0..Len(wire), wire' = SubSeq(wire, 1, n) PROVE <1>3!1
    BY <1>2, <2>2
  <2> QED BY <2>1, <2>2 DEF PeerLeaves
<1>4. StreamOK'
  <2>1. Undelivered' = Undelivered /\ Taken' = Taken
    BY <1>1 DEF Undelivered, Taken, bufVars
  <2>2. Len(wire) \in Nat /\ Len(wire') \in Nat /\ Len(Undelivered) \in Nat
    BY <1>2, <1>3, CountsLemma DEF IInv
  <2> QED BY <1>1, <1>2, <1>3, <2>1, <2>2 DEF StreamOK, bufVars
<1>5. TypeInv' /\ WholeMessages'
  BY <1>1, <1>3 DEF IInv, TypeInv, TypeOK, WholeMessages, bufVars
<1>6. HeadOK' /\ BodyOK'
  BY <1>1 DEF IInv, HeadOK, BodyOK, Current, ByteMore, bufVars
<1> QED BY <1>1, <1>4, <1>5, <1>6 DEF IInv

LEMMA ReopenStep == IInv /\ Reopen => IInv'
<1> SUFFICES ASSUME IInv, Reopen PROVE IInv'
  OBVIOUS
<1>1. /\ pc = "select" /\ sockOpen' /\ conns' = conns + 1 /\ conns < MaxConns /\ peer' = "open"
      /\ wire' = Undelivered /\ UNCHANGED <<sent, errno, pc, bufVars, received>>
      /\ sockOpen' \in BOOLEAN
  BY DEF Reopen, IInv, Undelivered
<1>2. Undelivered \in Seq(Byte)
  BY CountsLemma DEF IInv
<1>3. StreamOK'
  <2>1. Undelivered' = Undelivered /\ Taken' = 0
    BY <1>1 DEF Undelivered, Taken
  <2> QED BY <1>1, <1>2, <2>1 DEF StreamOK
<1>4. TypeInv' /\ WholeMessages'
  <2>1. conns' \in 0..MaxConns
    BY <1>1, ReadAssumption DEF IInv, TypeInv, TypeOK
  <2> QED BY <1>1, <1>2, <2>1 DEF IInv, TypeInv, TypeOK, WholeMessages, bufVars
<1> QED BY <1>1, <1>3, <1>4 DEF IInv, HeadOK, BodyOK

\* Only errno changes, or nothing.
LEMMA SameStep ==
    ASSUME IInv, UNCHANGED <<netVars, sockOpen, pc, bufVars, received>>,
           errno' \in {"NONE", "EINTR", "ECONNRESET"}
    PROVE  IInv'
<1>1. UNCHANGED <<Undelivered, Current, Taken>>
  BY DEF Undelivered, Current, Taken, netVars, bufVars
<1>2. TypeInv' /\ WholeMessages'
  BY DEF IInv, TypeInv, TypeOK, WholeMessages, netVars, bufVars
<1>3. HeadOK' /\ BodyOK'
  BY <1>1 DEF IInv, HeadOK, BodyOK, ByteMore, netVars, bufVars
<1>4. StreamOK => StreamOK'
  BY <1>1 DEF StreamOK, netVars, bufVars
<1> QED BY <1>2, <1>3, <1>4 DEF IInv

LEMMA NextLemma == IInv /\ [Next]_vars /\ "head" \notin Faults => IInv'
<1> SUFFICES ASSUME IInv, [Next]_vars, "head" \notin Faults PROVE IInv'
  OBVIOUS
<1>1. CASE Select BY <1>1, SelectStep
<1>2. CASE RecvHead BY <1>2, RecvHeadStep
<1>3. CASE RecvBody BY <1>3, RecvBodyStep
<1>4. CASE HeadClosed \/ BodyClosed \/ RecvReset BY <1>4, ClosedStep
<1>5. CASE PeerLeaves BY <1>5, PeerLeavesStep
<1>6. CASE Reopen BY <1>6, ReopenStep
<1>7. CASE InterruptBody
  BY <1>7, SameStep DEF InterruptBody
<1>8. CASE UNCHANGED vars
  BY <1>8, SameStep DEF vars, IInv, TypeInv, TypeOK
<1>9. CASE Rest
  BY <1>8, <1>9 DEF Rest
<1> QED BY <1>1, <1>2, <1>3, <1>4, <1>5, <1>6, <1>7, <1>8, <1>9 DEF Next

-----------------------------------------------------------------------------
(* The theorems.                                                           *)

\* mspDecodeFHeaderLength reads back what mspEncodeFHeaderLength wrote, the length and
\* the number of its digits, for every length of up to four digits and whatever bytes
\* follow them in the buffer.
THEOREM RoundTrip ==
    ASSUME NEW l \in 0..MaxLength, NEW buf,
           \A k \in 1..NumDigits(l) : buf[k] = EncodeLength(l)[k]
    PROVE  DecodeLength(NumDigits(l), buf) = [digits |-> NumDigits(l), length |-> l]
BY DecodeLemma

\* The inductive invariant holds in every reachable state, when no signal interrupts a
\* recv of the first loop.
THEOREM Invariance == Spec /\ "head" \notin Faults => []IInv
<1> SUFFICES ASSUME "head" \notin Faults PROVE Spec => []IInv
  OBVIOUS
<1>1. Init => IInv
  BY InitLemma
<1>2. IInv /\ [Next]_vars => IInv'
  BY NextLemma
<1> QED BY <1>1, <1>2, PTL DEF Spec

\* The read pointer stays in the buffer, and mspTCPReadMsg never reads the rest of a
\* message past the end of what it has allocated for it, pointer and length together.
THEOREM TypeCorrect == Spec /\ "head" \notin Faults => []TypeOK
<1>1. IInv => TypeOK
  BY DEF IInv, TypeInv
<1> QED BY Invariance, <1>1, PTL

\* Whatever pieces the network delivers, however often a recv of the rest is interrupted
\* and whatever the peer closes or resets: mspReceiveScadaMessage is given the messages
\* the broker sent, whole and in order.
THEOREM ReadsWholeMessages == Spec /\ "head" \notin Faults => []WholeMessages
<1>1. IInv => WholeMessages
  BY DEF IInv
<1> QED BY Invariance, <1>1, PTL
=============================================================================
