-------------------------- MODULE LinkedListProofs --------------------------
(***************************************************************************)
(* What linking and unlinking do to the cells of a list, for the proofs    *)
(* about the two queues that are kept in one, and what taking and adding a *)
(* message do to a sequence of messages in flight.                         *)
(***************************************************************************)
EXTENDS LinkedList, FiniteSetTheorems, WellFoundedInduction, TLAPS

\* No cell is linked twice.
Distinct(q) == \A i, j \in 1..Len(q) : q[i] = q[j] => i = j

\* mspDeleteIPMFromList leaves a list without repetitions, of the same cells
\* without the deleted one.
LEMMA UnlinkLemma ==
    ASSUME NEW S, NEW q \in Seq(S), Distinct(q), NEW a
    PROVE  /\ Unlink(q, a) \in Seq(S)
           /\ Distinct(Unlink(q, a))
           /\ Cells(Unlink(q, a)) = Cells(q) \ {a}
<1>1. CASE a \notin Cells(q)
  BY <1>1 DEF Unlink, Cells
<1>2. CASE a \in Cells(q)
  <2> DEFINE i == CHOOSE j \in 1..Len(q) : q[j] = a
             u == [j \in 1..(Len(q) - 1) |-> IF j < i THEN q[j] ELSE q[j + 1]]
  <2>1. i \in 1..Len(q) /\ q[i] = a
    BY <1>2 DEF Cells
  <2>2. Unlink(q, a) = u
    BY <1>2 DEF Unlink
  <2> HIDE DEF i
  <2>3. Len(q) \in Nat /\ \A j \in 1..Len(q) : q[j] \in S
    OBVIOUS
  <2>4. u \in Seq(S) /\ Len(u) = Len(q) - 1
    BY <2>1, <2>3
  <2>5. Distinct(u)
    BY <2>1, <2>3, <2>4 DEF Distinct
  <2>6. ASSUME NEW c \in Cells(u) PROVE c \in Cells(q) \ {a}
    <3>1. PICK k \in 1..Len(u) : u[k] = c
      BY <2>6 DEF Cells
    <3>2. CASE k < i
      <4>1. k \in 1..Len(q) /\ q[k] = c /\ k # i
        BY <3>1, <3>2, <2>1, <2>3, <2>4
      <4> QED BY <4>1, <2>1 DEF Cells, Distinct
    <3>3. CASE ~(k < i)
      <4>1. (k + 1) \in 1..Len(q) /\ q[k + 1] = c /\ k + 1 # i
        BY <3>1, <3>3, <2>1, <2>3, <2>4
      <4> QED BY <4>1, <2>1 DEF Cells, Distinct
    <3> QED BY <3>2, <3>3
  <2>7. ASSUME NEW c \in Cells(q) \ {a} PROVE c \in Cells(u)
    <3>1. PICK k \in 1..Len(q) : q[k] = c
      BY <2>7 DEF Cells
    <3>2. CASE k < i
      <4>1. k \in 1..Len(u) /\ u[k] = c
        BY <3>1, <3>2, <2>1, <2>3, <2>4
      <4> QED BY <4>1 DEF Cells
    <3>3. CASE k > i
      <4>1. (k - 1) \in 1..Len(u) /\ u[k - 1] = c
        BY <3>1, <3>3, <2>1, <2>3, <2>4
      <4> QED BY <4>1 DEF Cells
    <3> QED BY <3>1, <3>2, <3>3, <2>1, <2>3, <2>7
  <2> QED BY <2>2, <2>4, <2>5, <2>6, <2>7
<1> QED BY <1>1, <1>2

\* And in the same order.
LEMMA UnlinkOrder ==
    ASSUME NEW S, NEW q \in Seq(S), NEW a,
           NEW j \in 1..Len(Unlink(q, a)), NEW k \in 1..Len(Unlink(q, a)), j < k
    PROVE  \E x, y \in 1..Len(q) : /\ x < y
                                   /\ Unlink(q, a)[j] = q[x] /\ Unlink(q, a)[k] = q[y]
<1>1. CASE a \notin Cells(q)
  BY <1>1 DEF Unlink
<1>2. CASE a \in Cells(q)
  <2> DEFINE i == CHOOSE n \in 1..Len(q) : q[n] = a
             u == [n \in 1..(Len(q) - 1) |-> IF n < i THEN q[n] ELSE q[n + 1]]
             at(n) == IF n < i THEN n ELSE n + 1
  <2>1. i \in 1..Len(q) /\ Len(q) \in Nat
    BY <1>2 DEF Cells
  <2>2. Unlink(q, a) = u
    BY <1>2 DEF Unlink
  <2> HIDE DEF i
  <2>3. Len(u) = Len(q) - 1
    BY <2>1
  <2>4. j \in 1..(Len(q) - 1) /\ k \in 1..(Len(q) - 1)
    BY <2>2, <2>3
  <2>5. at(j) \in 1..Len(q) /\ at(k) \in 1..Len(q) /\ at(j) < at(k)
    BY <2>1, <2>4
  <2>6. u[j] = q[at(j)] /\ u[k] = q[at(k)]
    BY <2>4
  <2> QED BY <2>2, <2>5, <2>6
<1> QED BY <1>1, <1>2

\* Appending a cell that is not linked keeps the list without repetitions.
LEMMA AppendLemma ==
    ASSUME NEW S, NEW q \in Seq(S), Distinct(q), NEW a \in S, a \notin Cells(q)
    PROVE  /\ Append(q, a) \in Seq(S)
           /\ Distinct(Append(q, a))
           /\ Cells(Append(q, a)) = Cells(q) \cup {a}
<1> DEFINE r == Append(q, a)
<1>1. /\ r \in Seq(S) /\ Len(r) = Len(q) + 1
      /\ r[Len(q) + 1] = a /\ \A i \in 1..Len(q) : r[i] = q[i]
  OBVIOUS
<1>2. Len(q) \in Nat
  OBVIOUS
<1> HIDE DEF r
<1>3. Distinct(r)
  BY <1>1, <1>2 DEF Distinct, Cells
<1>4. Cells(r) \subseteq Cells(q) \cup {a}
  BY <1>1, <1>2 DEF Cells
<1>5. Cells(q) \subseteq Cells(r)
  BY <1>1, <1>2 DEF Cells
<1>6. a \in Cells(r)
  BY <1>1, <1>2 DEF Cells
<1> QED BY <1>1, <1>3, <1>4, <1>5, <1>6 DEF r

\* A list has finitely many cells.
LEMMA CellsFinite ==
    ASSUME NEW S, NEW q \in Seq(S)
    PROVE  IsFiniteSet(Cells(q))
<1> DEFINE I == 1..Len(q)
           f == [i \in I |-> q[i]]
<1>1. IsFiniteSet(I)
  <2>1. Len(q) \in Int
    OBVIOUS
  <2> QED BY <2>1, FS_Interval
<1>2. f \in Surjection(I, Cells(q))
  BY DEF Surjection, Cells
<1> QED BY <1>1, <1>2, FS_Surjection

\* Of what holds at 0 and goes on from each number to the next, every number is one.
LEMMA SetInduction ==
    ASSUME NEW S \in SUBSET Nat, 0 \in S, \A n \in S : n + 1 \in S
    PROVE  S = Nat
<1>1. SUFFICES ASSUME Nat \ S # {} PROVE FALSE
  OBVIOUS
<1>2. PICK n \in Nat \ S : \A i \in Nat \ S : <<i, n>> \notin OpToRel(<, Nat)
  BY <1>1, NatLessThanWellFounded, WFMin
<1>3. \A i \in Nat \ S : ~(i < n)
  BY <1>2, Zenon DEF OpToRel
<1>4. n # 0 /\ n - 1 \in Nat /\ n - 1 < n
  OBVIOUS
<1>5. n - 1 \in S
  BY <1>3, <1>4
<1> QED BY <1>4, <1>5

\* f adds up w along the list q, and comes to n.
Sums(f, q, w, n) ==
    /\ f \in [0..Len(q) -> Int]
    /\ f[0] = 0 /\ f[Len(q)] = n
    /\ \A i \in 1..Len(q) : f[i] = f[i - 1] + w[q[i]]

\* The total of a list is what adding up along it comes to.
LEMMA TotalLemma ==
    ASSUME NEW q, Len(q) \in Nat, NEW w, NEW n, NEW f, Sums(f, q, w, n)
    PROVE  Total(q, w) = n
<1> DEFINE I == 0..Len(q)
           Def(g) == [i \in I |-> IF i = 0 THEN 0 ELSE g[i - 1] + w[q[i]]]
           sum == CHOOSE g : g = Def(g)
<1>1. f = Def(f)
  BY DEF Sums
<1>2. sum = Def(sum)
  BY <1>1
<1>3. Total(q, w) = sum[Len(q)]
  BY DEF Total
<1> HIDE DEF sum
<1>4. sum[0] = 0 /\ \A i \in 1..Len(q) : sum[i] = sum[i - 1] + w[q[i]]
  BY <1>2
<1> DEFINE S == {i \in Nat : i \in I => sum[i] = f[i]}
<1>5. 0 \in S
  BY <1>4 DEF Sums
<1>6. ASSUME NEW i \in S PROVE i + 1 \in S
  BY <1>4, <1>6 DEF Sums
<1>7. S = Nat
  <2> HIDE DEF S
  <2>1. S \in SUBSET Nat
    BY DEF S
  <2> QED BY <1>5, <1>6, <2>1, SetInduction
<1>8. sum[Len(q)] = f[Len(q)]
  BY <1>7
<1> QED BY <1>3, <1>8 DEF Sums

Summed(q, w, n) == \E f : Sums(f, q, w, n)

\* The total depends on the cells of the list only.
LEMMA SummedSame ==
    ASSUME NEW S, NEW q \in Seq(S), NEW w, NEW v, NEW n, Summed(q, w, n),
           \A a \in Cells(q) : v[a] = w[a]
    PROVE  Summed(q, v, n)
<1>1. PICK f : Sums(f, q, w, n)
  BY DEF Summed
<1>2. Sums(f, q, v, n)
  BY <1>1 DEF Sums, Cells
<1> QED BY <1>2 DEF Summed

\* A cell that is appended is added.
LEMMA SummedAppend ==
    ASSUME NEW S, NEW q \in Seq(S), NEW a \in S, NEW w, w[a] \in Int,
           NEW n \in Int, Summed(q, w, n)
    PROVE  Summed(Append(q, a), w, n + w[a])
<1>1. PICK f : Sums(f, q, w, n)
  BY DEF Summed
<1> DEFINE r == Append(q, a)
           g == [i \in 0..(Len(q) + 1) |-> IF i = Len(q) + 1 THEN n + w[a] ELSE f[i]]
<1>2. /\ Len(q) \in Nat /\ Len(r) = Len(q) + 1
      /\ r[Len(q) + 1] = a /\ \A i \in 1..Len(q) : r[i] = q[i]
  OBVIOUS
<1> HIDE DEF r
<1>3. g \in [0..Len(r) -> Int] /\ g[0] = 0 /\ g[Len(r)] = n + w[a]
  BY <1>1, <1>2 DEF Sums
<1>4. ASSUME NEW i \in 1..Len(r) PROVE g[i] = g[i - 1] + w[r[i]]
  <2>1. CASE i = Len(q) + 1
    BY <1>1, <1>2, <2>1 DEF Sums
  <2>2. CASE i # Len(q) + 1
    BY <1>1, <1>2, <2>2 DEF Sums
  <2> QED BY <2>1, <2>2
<1>5. Sums(g, r, w, n + w[a])
  BY <1>3, <1>4 DEF Sums
<1> QED BY <1>5 DEF Summed, r

\* One that is unlinked is taken off.
LEMMA SummedUnlink ==
    ASSUME NEW S, NEW q \in Seq(S), NEW a \in Cells(q), NEW w \in [S -> Int],
           NEW n \in Int, Summed(q, w, n)
    PROVE  Summed(Unlink(q, a), w, n - w[a])
<1>1. PICK f : Sums(f, q, w, n)
  BY DEF Summed
<1> DEFINE k == CHOOSE j \in 1..Len(q) : q[j] = a
           u == [j \in 1..(Len(q) - 1) |-> IF j < k THEN q[j] ELSE q[j + 1]]
           g == [i \in 0..(Len(q) - 1) |-> IF i < k THEN f[i] ELSE f[i + 1] - w[a]]
<1>2. k \in 1..Len(q) /\ q[k] = a /\ Len(q) \in Nat /\ w[a] \in Int
  BY DEF Cells
<1>3. Unlink(q, a) = u
  BY DEF Unlink
<1> HIDE DEF k
<1>4. Len(u) = Len(q) - 1
  BY <1>2
<1>5. g \in [0..Len(u) -> Int] /\ g[0] = 0 /\ g[Len(u)] = n - w[a]
  <2>1. /\ f \in [0..Len(q) -> Int] /\ f[0] = 0 /\ f[Len(q)] = n
        /\ \A i \in 1..Len(q) : f[i] = f[i - 1] + w[q[i]]
    BY <1>1 DEF Sums
  <2>2. ASSUME NEW i \in 0..(Len(q) - 1) PROVE g[i] \in Int
    <3>1. i \in 0..Len(q) /\ i + 1 \in 0..Len(q)
      BY <1>2
    <3>2. f[i] \in Int /\ f[i + 1] \in Int
      BY <2>1, <3>1
    <3> QED BY <1>2, <3>2
  <2>3. g[0] = 0
    BY <1>2, <2>1
  <2>4. CASE k = Len(q)
    <3>1. g[Len(q) - 1] = f[Len(q) - 1] /\ f[Len(q)] = f[Len(q) - 1] + w[q[Len(q)]]
      BY <1>2, <2>1, <2>4
    <3>2. f[Len(q) - 1] \in Int
      <4>1. Len(q) - 1 \in 0..Len(q)
        BY <1>2
      <4> QED BY <2>1, <4>1
    <3> QED BY <1>2, <1>4, <2>1, <2>2, <2>3, <2>4, <3>1, <3>2
  <2>5. CASE k # Len(q)
    <3>1. g[Len(q) - 1] = f[Len(q)] - w[a]
      BY <1>2, <2>5
    <3> QED BY <1>2, <1>4, <2>1, <2>2, <2>3, <3>1
  <2> QED BY <2>4, <2>5
<1>6. ASSUME NEW i \in 1..Len(u) PROVE g[i] = g[i - 1] + w[u[i]]
  <2>1. /\ i \in 1..(Len(q) - 1) /\ i + 1 \in 1..Len(q) /\ i - 1 \in 0..Len(q)
       /\ i \in 0..Len(q) /\ i + 1 \in 0..Len(q)
    BY <1>2, <1>4
  <2> DEFINE x == w[q[i]]
             y == w[q[i + 1]]
  <2>2. f[i] = f[i - 1] + x /\ f[i + 1] = f[i] + y
    <3>1. \A j \in 1..Len(q) : f[j] = f[j - 1] + w[q[j]]
      BY <1>1 DEF Sums
    <3>2. f[i + 1] = f[(i + 1) - 1] + w[q[i + 1]] /\ (i + 1) - 1 = i
      BY <2>1, <3>1
    <3> QED BY <1>2, <2>1, <3>1, <3>2
  <2>3. f[i - 1] \in Int /\ f[i] \in Int /\ f[i + 1] \in Int
    <3>1. f \in [0..Len(q) -> Int]
      BY <1>1 DEF Sums
    <3> QED BY <2>1, <3>1
  <2>4. x \in Int /\ y \in Int
    <3>1. q[i] \in S /\ q[i + 1] \in S
      BY <1>2, <2>1
    <3> QED BY <3>1
  <2>5. CASE i < k
    <3>1. g[i] = f[i] /\ g[i - 1] = f[i - 1] /\ u[i] = q[i]
      BY <1>2, <2>1, <2>5
    <3> QED BY <2>2, <3>1
  <2>6. CASE i = k
    <3>1. g[i] = f[i + 1] - w[a] /\ g[i - 1] = f[i - 1] /\ u[i] = q[i + 1] /\ x = w[a]
      BY <1>2, <2>1, <2>6
    <3> HIDE DEF x, y
    <3>2. f[i + 1] - x = f[i - 1] + y
      BY <2>2, <2>3, <2>4
    <3> QED BY <3>1, <3>2 DEF x, y
  <2>7. CASE i > k
    <3>1. g[i] = f[i + 1] - w[a] /\ g[i - 1] = f[i] - w[a] /\ u[i] = q[i + 1]
      BY <1>2, <2>1, <2>7
    <3>2. w[a] \in Int
      BY <1>2
    <3> HIDE DEF x, y
    <3>3. f[i + 1] - w[a] = (f[i] - w[a]) + y
      BY <2>2, <2>3, <2>4, <3>2
    <3> QED BY <3>1, <3>3 DEF y
  <2> QED BY <1>2, <2>5, <2>6, <2>7
<1>7. Sums(g, u, w, n - w[a])
  BY <1>5, <1>6 DEF Sums
<1> QED BY <1>3, <1>7 DEF Summed

\* A message is taken from the head of a channel.
LEMMA TailFacts ==
    ASSUME NEW S, NEW s \in Seq(S), s # <<>>
    PROVE  /\ Head(s) \in S /\ Tail(s) \in Seq(S)
           /\ Len(s) \in Nat /\ Len(Tail(s)) = Len(s) - 1
           /\ 1 \in 1..Len(s) /\ s[1] = Head(s)
           /\ \A i \in 1..Len(Tail(s)) : /\ i + 1 \in 1..Len(s) /\ 1 < i + 1
                                         /\ Tail(s)[i] = s[i + 1]
OBVIOUS

\* A message is added at its end.
LEMMA AppendFacts ==
    ASSUME NEW S, NEW s \in Seq(S), NEW e \in S
    PROVE  /\ Append(s, e) \in Seq(S)
           /\ Len(s) \in Nat /\ Len(Append(s, e)) = Len(s) + 1
           /\ Append(s, e)[Len(s) + 1] = e
           /\ \A i \in 1..Len(s) : Append(s, e)[i] = s[i]
OBVIOUS
=============================================================================
