---------------------------- MODULE QueueProofs ----------------------------
(* Lemmas about the queue operators, and about counting and rings, that    *)
(* the proofs about the components use.                                    *)
EXTENDS Queues, SequenceTheorems, FiniteSetTheorems, WellFoundedInduction, TLAPS

(* A queue with p linked in at position i holds what it held, and p. *)
LEMMA InsertAtElements ==
  ASSUME NEW S, NEW q \in Seq(S), NEW i \in 1..(Len(q) + 1), NEW p \in S
  PROVE  /\ InsertAt(q, i, p) \in Seq(S)
         /\ Len(InsertAt(q, i, p)) = Len(q) + 1
         /\ \A j \in 1..(Len(q) + 1) :
              InsertAt(q, i, p)[j] =
                IF j < i THEN q[j] ELSE IF j = i THEN p ELSE q[j - 1]
<1> DEFINE a == SubSeq(q, 1, i - 1)
           b == SubSeq(q, i, Len(q))
           c == a \o <<p>>
<1>1. /\ a \in Seq(S) /\ Len(a) = i - 1
      /\ \A j \in 1..(i - 1) : a[j] = q[j]
  BY SubSeqProperties
<1>2. /\ b \in Seq(S) /\ Len(b) = Len(q) - i + 1
      /\ \A j \in 1..(Len(q) - i + 1) : b[j] = q[i + j - 1]
  BY SubSeqProperties
<1> HIDE DEF a, b
<1>3. /\ c \in Seq(S) /\ Len(c) = i
      /\ \A j \in 1..i : c[j] = IF j < i THEN q[j] ELSE p
  BY <1>1
<1> HIDE DEF c
<1>4. /\ c \o b \in Seq(S) /\ Len(c \o b) = Len(q) + 1
      /\ \A j \in 1..(Len(q) + 1) :
           (c \o b)[j] = IF j <= i THEN c[j] ELSE b[j - i]
  <2>1. /\ c \o b \in Seq(S)
        /\ Len(c \o b) = Len(c) + Len(b)
        /\ \A j \in 1..(Len(c) + Len(b)) :
             (c \o b)[j] = IF j <= Len(c) THEN c[j] ELSE b[j - Len(c)]
    BY <1>2, <1>3, ConcatProperties
  <2>2. Len(c) = i /\ Len(c) + Len(b) = Len(q) + 1
    BY <1>2, <1>3
  <2> QED BY <2>1, <2>2
<1>5. ASSUME NEW j \in 1..(Len(q) + 1)
      PROVE  (c \o b)[j] =
               IF j < i THEN q[j] ELSE IF j = i THEN p ELSE q[j - 1]
  BY <1>2, <1>3, <1>4
<1>6. InsertAt(q, i, p) = c \o b
  BY DEF InsertAt, a, b, c
<1> QED BY <1>4, <1>5, <1>6

LEMMA InsertAtSet ==
  ASSUME NEW S, NEW q \in Seq(S), NEW i \in 1..(Len(q) + 1), NEW p \in S
  PROVE  /\ ToSet(InsertAt(q, i, p)) = ToSet(q) \cup {p}
         /\ IsInjective(q) /\ p \notin ToSet(q)
              => IsInjective(InsertAt(q, i, p))
<1> DEFINE r == InsertAt(q, i, p)
<1>1. /\ r \in Seq(S)
      /\ Len(r) = Len(q) + 1
      /\ \A j \in 1..(Len(q) + 1) :
           r[j] = IF j < i THEN q[j] ELSE IF j = i THEN p ELSE q[j - 1]
  BY InsertAtElements
<1> HIDE DEF r
<1>2. ToSet(r) \subseteq ToSet(q) \cup {p}
  BY <1>1 DEF ToSet
<1>3. ToSet(q) \subseteq ToSet(r)
  <2> SUFFICES ASSUME NEW j \in 1..Len(q) PROVE q[j] \in ToSet(r)
    BY DEF ToSet
  <2>1. CASE j < i
    BY <2>1, <1>1 DEF ToSet
  <2>2. CASE j >= i
    <3>1. j + 1 \in 1..Len(r) /\ r[j + 1] = q[j]
      BY <2>2, <1>1
    <3> QED BY <3>1 DEF ToSet
  <2> QED BY <2>1, <2>2
<1>4. p \in ToSet(r)
  <2>1. i \in 1..Len(r) /\ r[i] = p
    BY <1>1
  <2> QED BY <2>1 DEF ToSet
<1>5. IsInjective(q) /\ p \notin ToSet(q) => IsInjective(r)
  <2> SUFFICES ASSUME IsInjective(q), p \notin ToSet(q),
                      NEW j \in 1..Len(r), NEW k \in 1..Len(r), r[j] = r[k]
               PROVE  j = k
    BY <1>1 DEF IsInjective
  <2>1. \A n \in 1..Len(q) : q[n] # p
    BY DEF ToSet
  <2>2. \A m, n \in 1..Len(q) : q[m] = q[n] => m = n
    BY DEF IsInjective
  <2> DEFINE old(x) == IF x < i THEN x ELSE x - 1
  <2>3. \A x \in 1..Len(r) : x # i => old(x) \in 1..Len(q) /\ r[x] = q[old(x)]
    BY <1>1
  <2>4. r[i] = p
    BY <1>1
  <2>5. CASE j = i
    BY <2>1, <2>3, <2>4, <2>5
  <2>6. CASE j # i /\ k # i
    <3>1. old(j) = old(k)
      BY <2>2, <2>3, <2>6
    <3> QED BY <3>1, <2>6, <1>1
  <2>7. CASE k = i
    BY <2>1, <2>3, <2>4, <2>7
  <2> QED BY <2>5, <2>6, <2>7
<1> QED BY <1>2, <1>3, <1>4, <1>5 DEF r

(* Every non-empty set of natural numbers has a least element. *)
LEMMA LeastNatural ==
  ASSUME NEW T \in SUBSET Nat, T # {}
  PROVE  \E x \in T : \A y \in T : x <= y
<1>1. PICK x \in T : \A y \in T : ~(<<y, x>> \in OpToRel(<, Nat))
  BY WFMin, NatLessThanWellFounded
<1>2. ASSUME NEW y \in T, ~(x <= y) PROVE FALSE
  <2>1. <<y, x>> \in Nat \X Nat /\ <<y, x>>[1] < <<y, x>>[2]
    BY <1>2
  <2>2. <<y, x>> \in OpToRel(<, Nat)
    BY <2>1, Zenon DEF OpToRel
  <2> QED BY <2>2, <1>1
<1> QED BY <1>2

LEMMA RemoveAtElements ==
  ASSUME NEW S, NEW q \in Seq(S), NEW i \in 1..Len(q)
  PROVE  /\ RemoveAt(q, i) \in Seq(S)
         /\ Len(RemoveAt(q, i)) = Len(q) - 1
         /\ \A j \in 1..(Len(q) - 1) :
              RemoveAt(q, i)[j] = IF j < i THEN q[j] ELSE q[j + 1]
<1> DEFINE a == SubSeq(q, 1, i - 1)
           b == SubSeq(q, i + 1, Len(q))
<1>1. /\ a \in Seq(S) /\ Len(a) = i - 1
      /\ \A j \in 1..(i - 1) : a[j] = q[j]
  BY SubSeqProperties
<1>2. /\ b \in Seq(S) /\ Len(b) = Len(q) - i
      /\ \A j \in 1..(Len(q) - i) : b[j] = q[i + j]
  BY SubSeqProperties
<1> HIDE DEF a, b
<1>3. /\ a \o b \in Seq(S)
      /\ Len(a \o b) = Len(a) + Len(b)
      /\ \A j \in 1..(Len(a) + Len(b)) :
           (a \o b)[j] = IF j <= Len(a) THEN a[j] ELSE b[j - Len(a)]
  BY <1>1, <1>2, ConcatProperties
<1>4. Len(a) + Len(b) = Len(q) - 1
  BY <1>1, <1>2
<1>5. ASSUME NEW j \in 1..(Len(q) - 1)
      PROVE  (a \o b)[j] = IF j < i THEN q[j] ELSE q[j + 1]
  BY <1>1, <1>2, <1>3, <1>4
<1>6. RemoveAt(q, i) = a \o b
  BY DEF RemoveAt, a, b
<1> QED BY <1>3, <1>4, <1>5, <1>6

(* getitem unlinks the one entry of the process. *)
LEMMA GetitemIs ==
  ASSUME NEW S, NEW q \in Seq(S), IsInjective(q), NEW i \in 1..Len(q)
  PROVE  Getitem(q, q[i]) = RemoveAt(q, i)
<1>. DEFINE I == {j \in 1..Len(q) : q[j] = q[i]}
<1>1. I = {i}
  BY DEF IsInjective
<1>2. Min(I) = i
  BY <1>1 DEF Min
<1>3. QED
  BY <1>1, <1>2 DEF Getitem, RemoveFirst, SelectInSeq

(* getitem unlinks the process and nobody else. *)
LEMMA GetitemSet ==
  ASSUME NEW S, NEW q \in Seq(S), IsInjective(q), NEW p \in ToSet(q)
  PROVE  /\ Getitem(q, p) \in Seq(S)
         /\ Len(Getitem(q, p)) = Len(q) - 1
         /\ ToSet(Getitem(q, p)) = ToSet(q) \ {p}
         /\ IsInjective(Getitem(q, p))
<1>1. PICK i \in 1..Len(q) : q[i] = p
  BY DEF ToSet
<1>4. Getitem(q, p) = RemoveAt(q, i)
  BY <1>1, GetitemIs
<1> DEFINE r == RemoveAt(q, i)
           old(x) == IF x < i THEN x ELSE x + 1
<1>5. /\ r \in Seq(S)
      /\ Len(r) = Len(q) - 1
      /\ \A j \in 1..Len(r) : old(j) \in 1..Len(q) /\ r[j] = q[old(j)]
  <2>1. /\ r \in Seq(S) /\ Len(r) = Len(q) - 1
        /\ \A j \in 1..(Len(q) - 1) : r[j] = IF j < i THEN q[j] ELSE q[j + 1]
    BY RemoveAtElements
  <2> HIDE DEF r
  <2> QED BY <2>1
<1> HIDE DEF r
<1>6. \A m, n \in 1..Len(q) : q[m] = q[n] => m = n
  BY DEF IsInjective
<1>7. IsInjective(r)
  <2> SUFFICES ASSUME NEW j \in 1..Len(r), NEW k \in 1..Len(r), r[j] = r[k]
               PROVE  j = k
    BY <1>5 DEF IsInjective
  <2>1. old(j) = old(k)
    BY <1>5, <1>6
  <2> QED BY <2>1, <1>5
<1>8. ToSet(r) \subseteq ToSet(q) \ {p}
  <2> SUFFICES ASSUME NEW j \in 1..Len(r) PROVE r[j] \in ToSet(q) /\ r[j] # p
    BY <1>5 DEF ToSet
  <2>1. old(j) \in 1..Len(q) /\ old(j) # i /\ r[j] = q[old(j)]
    BY <1>5
  <2> HIDE DEF old
  <2>2. q[old(j)] # p
    BY <2>1, <1>1, <1>6
  <2> QED BY <2>1, <2>2 DEF ToSet
<1>9. ToSet(q) \ {p} \subseteq ToSet(r)
  <2> SUFFICES ASSUME NEW j \in 1..Len(q), j # i PROVE q[j] \in ToSet(r)
    BY <1>1 DEF ToSet
  <2>1. CASE j < i
    <3>1. j \in 1..Len(r) /\ old(j) = j
      BY <2>1, <1>5
    <3> QED BY <3>1, <1>5 DEF ToSet
  <2>2. CASE j > i
    <3> DEFINE k == j - 1
    <3>1. k \in 1..Len(r) /\ old(k) = j
      BY <2>2, <1>5
    <3>2. r[k] = q[j]
      BY <3>1, <1>5
    <3> HIDE DEF k
    <3> QED BY <3>1, <3>2 DEF ToSet
  <2> QED BY <2>1, <2>2
<1> QED BY <1>4, <1>5, <1>7, <1>8, <1>9 DEF r

(* dequeue and enqueue. *)
LEMMA TailSet ==
  ASSUME NEW S, NEW q \in Seq(S), IsInjective(q), q # <<>>
  PROVE  /\ Tail(q) \in Seq(S)
         /\ Len(Tail(q)) = Len(q) - 1
         /\ Head(q) \in ToSet(q)
         /\ ToSet(Tail(q)) = ToSet(q) \ {Head(q)}
         /\ IsInjective(Tail(q))
<1>1. /\ Len(q) \in Nat \ {0} /\ Head(q) = q[1] /\ Tail(q) \in Seq(S)
      /\ Len(Tail(q)) = Len(q) - 1
      /\ \A j \in 1..(Len(q) - 1) : Tail(q)[j] = q[j + 1]
  BY HeadTailProperties
<1>2. \A m, n \in 1..Len(q) : q[m] = q[n] => m = n
  BY DEF IsInjective
<1>3. IsInjective(Tail(q))
  BY <1>1, <1>2 DEF IsInjective
<1>4. Head(q) \in ToSet(q)
  BY <1>1 DEF ToSet
<1>5. ToSet(Tail(q)) \subseteq ToSet(q) \ {Head(q)}
  BY <1>1, <1>2 DEF ToSet
<1>6. ToSet(q) \ {Head(q)} \subseteq ToSet(Tail(q))
  <2> SUFFICES ASSUME NEW j \in 2..Len(q) PROVE q[j] \in ToSet(Tail(q))
    BY <1>1 DEF ToSet
  <2> DEFINE k == j - 1
  <2>1. k \in 1..(Len(q) - 1) /\ k + 1 = j
    BY <1>1
  <2> HIDE DEF k
  <2>2. k \in 1..Len(Tail(q)) /\ Tail(q)[k] = q[j]
    BY <2>1, <1>1
  <2>3. k \in DOMAIN Tail(q)
    BY <2>2, <1>1
  <2>4. ToSet(Tail(q)) = {Tail(q)[x] : x \in DOMAIN Tail(q)}
    BY Zenon DEF ToSet
  <2> QED BY <2>2, <2>3, <2>4, Zenon
<1> QED BY <1>1, <1>3, <1>4, <1>5, <1>6

LEMMA AppendSet ==
  ASSUME NEW S, NEW q \in Seq(S), NEW p \in S, IsInjective(q), p \notin ToSet(q)
  PROVE  /\ Append(q, p) \in Seq(S)
         /\ Len(Append(q, p)) = Len(q) + 1
         /\ ToSet(Append(q, p)) = ToSet(q) \cup {p}
         /\ IsInjective(Append(q, p))
<1>1. /\ Append(q, p) \in Seq(S) /\ Len(Append(q, p)) = Len(q) + 1
      /\ \A j \in 1..Len(q) : Append(q, p)[j] = q[j]
      /\ Append(q, p)[Len(q) + 1] = p
  BY AppendProperties
<1>2. \A m, n \in 1..Len(q) : q[m] = q[n] => m = n
  BY DEF IsInjective
<1>3. \A m \in 1..Len(q) : q[m] # p
  BY DEF ToSet
<1>4. IsInjective(Append(q, p))
  BY <1>1, <1>2, <1>3 DEF IsInjective
<1>5. ToSet(Append(q, p)) \subseteq ToSet(q) \cup {p}
  BY <1>1 DEF ToSet
<1>6. ToSet(q) \cup {p} \subseteq ToSet(Append(q, p))
  <2>1. ASSUME NEW j \in 1..Len(q) PROVE q[j] \in ToSet(Append(q, p))
    BY <1>1 DEF ToSet
  <2>2. p \in ToSet(Append(q, p))
    BY <1>1 DEF ToSet
  <2> QED BY <2>1, <2>2 DEF ToSet
<1> QED BY <1>1, <1>4, <1>5, <1>6

(* insert stops at the first entry with a smaller key, or at the tail. *)
LEMMA InsertPosStops ==
  ASSUME NEW S, NEW q \in Seq(S), NEW qkey, NEW key \in Int,
         \A p \in ToSet(q) : qkey[p] \in Int
  PROVE  /\ InsertPos(q, qkey, key) \in 1..(Len(q) + 1)
         /\ \A j \in 1..(InsertPos(q, qkey, key) - 1) : qkey[q[j]] >= key
         /\ InsertPos(q, qkey, key) <= Len(q)
              => qkey[q[InsertPos(q, qkey, key)]] < key
<1> DEFINE T == {i \in 1..(Len(q) + 1) : i <= Len(q) => qkey[q[i]] < key}
           Stop(i) == /\ \A j \in 1..(i - 1) : qkey[q[j]] >= key
                      /\ i <= Len(q) => qkey[q[i]] < key
<1>1. Len(q) + 1 \in T /\ T \in SUBSET Nat
  OBVIOUS
<1>2. PICK i \in T : \A j \in T : i <= j
  BY <1>1, LeastNatural
<1>3. ASSUME NEW j \in 1..(i - 1) PROVE qkey[q[j]] >= key
  <2>1. j \notin T /\ j \in 1..Len(q)
    BY <1>2
  <2>2. qkey[q[j]] \in Int /\ ~(qkey[q[j]] < key)
    BY <2>1 DEF ToSet
  <2> QED BY <2>2
<1>4. i \in 1..(Len(q) + 1) /\ Stop(i)
  BY <1>2, <1>3
<1>5. InsertPos(q, qkey, key) = CHOOSE n \in 1..(Len(q) + 1) : Stop(n)
  BY DEF InsertPos
<1> HIDE DEF Stop, T
<1>6. InsertPos(q, qkey, key) \in 1..(Len(q) + 1) /\ Stop(InsertPos(q, qkey, key))
  BY <1>4, <1>5
<1> QED BY <1>6 DEF Stop

(* The delay left before each entry: the recursive definition is a total   *)
(* function into the integers.  The partial functions that satisfy the     *)
(* recursion equations up to some entry extend one entry at a time.        *)
LEMMA DelayLeftType ==
  ASSUME NEW S, NEW q \in Seq(S), NEW qkey, NEW key \in Int,
         \A p \in ToSet(q) : qkey[p] \in Int
  PROVE  /\ DelayLeft(q, qkey, key) \in [1..(Len(q) + 1) -> Int]
         /\ DelayLeft(q, qkey, key)[1] = key
         /\ \A i \in 1..Len(q) :
              DelayLeft(q, qkey, key)[i + 1] =
                DelayLeft(q, qkey, key)[i] - qkey[q[i]]
<1> DEFINE n == Len(q)
           Good(g, m) == /\ g \in [1..(m + 1) -> Int]
                         /\ g[1] = key
                         /\ \A i \in 1..m : g[i + 1] = g[i] - qkey[q[i]]
           Body(g) == [i \in 1..(n + 1) |->
                         IF i = 1 THEN key ELSE g[i - 1] - qkey[q[i - 1]]]
           T == {m \in 0..n : ~ \E g : Good(g, m)}
<1>1. n \in Nat /\ \A i \in 1..n : qkey[q[i]] \in Int
  BY DEF ToSet
<1> HIDE DEF n
<1>2. T = {}
  <2> SUFFICES ASSUME T # {} PROVE FALSE
    OBVIOUS
  <2>1. T \in SUBSET Nat
    BY <1>1
  <2>2. PICK m \in T : \A k \in T : m <= k
    BY <2>1, LeastNatural
  <2>3. CASE m = 0
    <3>1. Good([i \in 1..(m + 1) |-> key], m)
      BY <2>3
    <3> QED BY <3>1
  <2>4. CASE m # 0
    <3>0. m \in 1..n
      BY <1>1, <2>2, <2>4
    <3>1. m - 1 \in 0..n /\ ~(m <= m - 1)
      BY <1>1, <3>0
    <3>2. PICK g : Good(g, m - 1)
      <4> HIDE DEF Good
      <4> QED BY <3>1, <2>2
    <3> DEFINE h == [i \in 1..(m + 1) |->
                       IF i <= m THEN g[i] ELSE g[m] - qkey[q[m]]]
    <3>3. qkey[q[m]] \in Int /\ m \in Nat
      BY <1>1, <3>0
    <3>4. /\ g \in [1..m -> Int] /\ g[1] = key
          /\ \A i \in 1..(m - 1) : g[i + 1] = g[i] - qkey[q[i]]
      <4>1. (m - 1) + 1 = m
        BY <3>3
      <4> QED BY <3>2, <4>1
    <3> HIDE DEF Good
    <3>5. h \in [1..(m + 1) -> Int]
      BY <3>0, <3>3, <3>4, <1>1
    <3>6. h[1] = key
      BY <3>0, <3>4, <1>1
    <3>7. ASSUME NEW i \in 1..m PROVE h[i + 1] = h[i] - qkey[q[i]]
      <4>1. CASE i = m
        BY <3>0, <4>1, <1>1
      <4>2. CASE i # m
        BY <3>0, <3>4, <4>2, <1>1
      <4> QED BY <4>1, <4>2
    <3> HIDE DEF h
    <3>8. Good(h, m)
      BY <3>5, <3>6, <3>7 DEF Good
    <3> QED BY <3>8
  <2> QED BY <2>3, <2>4
<1>3. PICK g : Good(g, n)
  <2> HIDE DEF Good
  <2>1. n \in 0..n
    BY <1>1
  <2>2. n \notin T
    <3> HIDE DEF T
    <3> QED BY <1>2
  <2> QED BY <2>1, <2>2
<1>4. g = Body(g)
  BY <1>1, <1>3
<1> DEFINE f == DelayLeft(q, qkey, key)
<1>5. f = CHOOSE l : l = Body(l)
  BY DEF DelayLeft, n
<1> HIDE DEF f
<1>6. f = Body(f)
  <2> HIDE DEF Body
  <2> QED BY <1>4, <1>5
<1>7. /\ f = [i \in 1..(n + 1) |-> f[i]]
      /\ f[1] = key
      /\ \A i \in 1..n : f[i + 1] = f[i] - qkey[q[i]]
  <2>1. \A i \in 1..(n + 1) :
          f[i] = IF i = 1 THEN key ELSE f[i - 1] - qkey[q[i - 1]]
    BY <1>6
  <2>2. DOMAIN f = 1..(n + 1) /\ f = [i \in 1..(n + 1) |-> f[i]]
    BY <1>6
  <2>3. f[1] = key
    BY <1>1, <2>1
  <2>4. ASSUME NEW i \in 1..n PROVE f[i + 1] = f[i] - qkey[q[i]]
    <3>1. i + 1 \in 1..(n + 1) /\ i + 1 # 1 /\ (i + 1) - 1 = i
      BY <1>1
    <3> HIDE DEF Body
    <3> QED BY <2>1, <3>1
  <2> QED BY <2>2, <2>3, <2>4
<1>8. \A i \in 1..(n + 1) : f[i] \in Int
  <2> DEFINE U == {i \in 1..(n + 1) : f[i] \notin Int}
  <2> SUFFICES ASSUME U # {} PROVE FALSE
    OBVIOUS
  <2>1. U \in SUBSET Nat
    BY <1>1
  <2>2. PICK i \in U : \A k \in U : i <= k
    BY <2>1, LeastNatural
  <2>3. i # 1 /\ i \in 1..(n + 1)
    BY <1>7, <2>2
  <2>4. i - 1 \in 1..n /\ i - 1 \notin U /\ i = (i - 1) + 1
    BY <1>1, <2>2, <2>3
  <2>5. f[i - 1] \in Int
    BY <1>1, <2>4
  <2>6. f[(i - 1) + 1] = f[i - 1] - qkey[q[i - 1]]
    BY <1>7, <2>4
  <2>7. f[i] \in Int
    BY <1>1, <2>4, <2>5, <2>6
  <2> QED BY <2>2, <2>7
<1> QED BY <1>7, <1>8 DEF f, n

(* insertd stops too, at the first delta that exceeds what is left. *)
LEMMA InsertdPosStops ==
  ASSUME NEW S, NEW q \in Seq(S), NEW qkey, NEW key \in Int,
         \A p \in ToSet(q) : qkey[p] \in Int
  PROVE  /\ InsertdPos(q, qkey, key) \in 1..(Len(q) + 1)
         /\ \A j \in 1..(InsertdPos(q, qkey, key) - 1) :
              qkey[q[j]] <= DelayLeft(q, qkey, key)[j]
         /\ InsertdPos(q, qkey, key) <= Len(q) =>
              qkey[q[InsertdPos(q, qkey, key)]] >
                DelayLeft(q, qkey, key)[InsertdPos(q, qkey, key)]
<1> DEFINE left == DelayLeft(q, qkey, key)
           T == {i \in 1..(Len(q) + 1) : i <= Len(q) => qkey[q[i]] > left[i]}
           Stop(i) == /\ \A j \in 1..(i - 1) : qkey[q[j]] <= left[j]
                      /\ i <= Len(q) => qkey[q[i]] > left[i]
<1>1. left \in [1..(Len(q) + 1) -> Int]
  BY DelayLeftType
<1>2. InsertdPos(q, qkey, key) = CHOOSE n \in 1..(Len(q) + 1) : Stop(n)
  BY DEF InsertdPos
<1> HIDE DEF left
<1>3. Len(q) + 1 \in T /\ T \in SUBSET Nat
  OBVIOUS
<1>4. PICK i \in T : \A j \in T : i <= j
  BY <1>3, LeastNatural
<1>5. ASSUME NEW j \in 1..(i - 1) PROVE qkey[q[j]] <= left[j]
  <2>1. j \notin T /\ j \in 1..Len(q)
    BY <1>4
  <2>2. qkey[q[j]] \in Int /\ left[j] \in Int /\ ~(qkey[q[j]] > left[j])
    BY <1>1, <2>1 DEF ToSet
  <2> QED BY <2>2
<1>6. i \in 1..(Len(q) + 1) /\ Stop(i)
  BY <1>4, <1>5
<1> HIDE DEF Stop, T
<1>7. /\ InsertdPos(q, qkey, key) \in 1..(Len(q) + 1)
      /\ Stop(InsertdPos(q, qkey, key))
  BY <1>2, <1>6
<1> QED BY <1>7 DEF Stop, left
-----------------------------------------------------------------------------
(* Counting what stands in several places, f[x] of it at each x of E.      *)
Tally(f, E) == UNION {{<<x, i>> : i \in 1..f[x]} : x \in E}

(* There are finitely many, and when one place changes they are as many    *)
(* more or less as there are at that place.                                *)
LEMMA TallyFinite ==
  ASSUME NEW E, IsFiniteSet(E), NEW f, \A x \in E : f[x] \in Nat
  PROVE  IsFiniteSet(Tally(f, E)) /\ Cardinality(Tally(f, E)) \in Nat
<1>. DEFINE At(x) == {<<x, i>> : i \in 1..f[x]}
            T == {At(x) : x \in E}
            g == [x \in E |-> At(x)]
<1>1. ASSUME NEW x \in E PROVE IsFiniteSet(At(x)) /\ Cardinality(At(x)) = f[x]
  <2>. DEFINE h == [i \in 1..f[x] |-> <<x, i>>]
  <2>1. h \in Bijection(1..f[x], At(x))
    BY DEF Bijection, Injection, Surjection, IsInjective
  <2>2. ExistsBijection(1..f[x], At(x))
    BY <2>1 DEF ExistsBijection
  <2>3. IsFiniteSet(1..f[x]) /\ Cardinality(1..f[x]) = f[x]
    BY FS_Interval
  <2>. HIDE DEF At
  <2>4. QED
    BY <2>2, <2>3, FS_Bijection
<1>2. g \in Surjection(E, T)
  BY DEF Surjection
<1>3. IsFiniteSet(T)
  <2>. HIDE DEF T, g
  <2>. QED BY <1>2, FS_Surjection
<1>4. IsFiniteSet(UNION T)
  <2>1. \A X \in T : IsFiniteSet(X)
    <3>. HIDE DEF At
    <3>. QED BY <1>1
  <2>. HIDE DEF T
  <2>. QED BY <1>3, <2>1, FS_UNION
<1>5. Tally(f, E) = UNION T
  BY DEF Tally
<1>. HIDE DEF T
<1>6. IsFiniteSet(Tally(f, E))
  BY <1>4, <1>5
<1>7. QED
  BY <1>6, FS_CardinalityType

LEMMA TallyOfOne ==
  ASSUME NEW E, IsFiniteSet(E), NEW f, \A x \in E : f[x] \in Nat, NEW e \in E
  PROVE  Cardinality(Tally(f, E)) = Cardinality(Tally(f, E \ {e})) + f[e]
<1>. DEFINE A == {<<e, i>> : i \in 1..f[e]}
            R == Tally(f, E \ {e})
            h == [i \in 1..f[e] |-> <<e, i>>]
<1>1. h \in Bijection(1..f[e], A)
  BY DEF Bijection, Injection, Surjection, IsInjective
<1>2. ExistsBijection(1..f[e], A)
  BY <1>1 DEF ExistsBijection
<1>3. IsFiniteSet(1..f[e]) /\ Cardinality(1..f[e]) = f[e]
  BY FS_Interval
<1>4. IsFiniteSet(A) /\ Cardinality(A) = f[e]
  <2>. HIDE DEF A
  <2>. QED BY <1>2, <1>3, FS_Bijection
<1>5. IsFiniteSet(E \ {e})
  BY FS_RemoveElement
<1>6. IsFiniteSet(R) /\ Cardinality(R) \in Nat
  BY <1>5, TallyFinite
<1>7. R \cap A = {}
  BY DEF Tally
<1>8. Tally(f, E) = R \cup A
  BY DEF Tally
<1>. HIDE DEF A, R
<1>9. Cardinality({}) = 0
  BY FS_EmptySet
<1>10. Cardinality(R \cup A) = Cardinality(R) + Cardinality(A) - Cardinality(R \cap A)
  BY <1>4, <1>6, FS_Union
<1>11. Cardinality(R \cap A) = 0 /\ f[e] \in Nat
  BY <1>7, <1>9
<1>12. Cardinality(Tally(f, E)) = Cardinality(R) + f[e]
  BY <1>4, <1>6, <1>8, <1>10, <1>11
<1>13. QED
  BY <1>12 DEF R

ChangesAt(f, g, E, e) ==
  /\ IsFiniteSet(E) /\ e \in E
  /\ \A x \in E : f[x] \in Nat /\ g[x] \in Nat
  /\ \A x \in E : x # e => g[x] = f[x]

LEMMA TallyChange ==
  ASSUME NEW E, NEW f, NEW g, NEW e, ChangesAt(f, g, E, e)
  PROVE  Cardinality(Tally(g, E)) = Cardinality(Tally(f, E)) - f[e] + g[e]
<1>. USE DEF ChangesAt
<1>1. Tally(g, E \ {e}) = Tally(f, E \ {e})
  BY DEF Tally
<1>2. /\ Cardinality(Tally(f, E)) = Cardinality(Tally(f, E \ {e})) + f[e]
      /\ Cardinality(Tally(g, E)) = Cardinality(Tally(g, E \ {e})) + g[e]
  BY TallyOfOne
<1>3. IsFiniteSet(E \ {e})
  BY FS_RemoveElement
<1>4. Cardinality(Tally(f, E \ {e})) \in Nat
  BY <1>3, TallyFinite
<1>5. QED
  BY <1>1, <1>2, <1>4

(* An index that has gone at most twice around a ring.                     *)
LEMMA ModIs ==
  ASSUME NEW n \in Nat \ {0}, NEW x \in Nat
  PROVE  /\ x % n \in 0..(n - 1)
         /\ x < n => x % n = x
         /\ n <= x /\ x < 2 * n => x % n = x - n
         /\ x = 2 * n => x % n = 0
<1>1. x % n \in 0..(n - 1)
  OBVIOUS
<1>2. x < n => x % n = x
  OBVIOUS
<1>3. n <= x /\ x < 2 * n => x % n = x - n
  OBVIOUS
<1>4. x = 2 * n => x % n = 0
  OBVIOUS
<1>5. QED
  BY <1>1, <1>2, <1>3, <1>4
=============================================================================
