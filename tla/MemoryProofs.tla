---------------------------- MODULE MemoryProofs ----------------------------
(***************************************************************************)
(* What holds of the storage of modules Memory and Buffers for every       *)
(* layout and every size asked for: page memory is conserved, the heap is  *)
(* sound until as much was asked for as there is, and the buffers of every *)
(* pool are counted by its semaphore and lie apart.                        *)
(***************************************************************************)
EXTENDS Buffers, SemTableProofs

BlockSet == [addr : Nat, len : Nat]

(* A free list within lo..hi: in order, and no two blocks touch. *)
Within(b, lo, hi) == lo <= b.addr /\ 0 < b.len /\ b.addr + b.len <= hi
Gap(b, c)         == b.addr + b.len < c.addr
Touch(b, c)       == b.addr + b.len = c.addr

Ordered(q, lo, hi) ==
  /\ q \in Seq(BlockSet)
  /\ \A i \in 1..Len(q) : Within(q[i], lo, hi)
  /\ \A i, j \in 1..Len(q) : i < j => Gap(q[i], q[j])

(* The same, but block k may touch the next one. *)
AlmostOrdered(q, k, lo, hi) ==
  /\ q \in Seq(BlockSet)
  /\ \A i \in 1..Len(q) : Within(q[i], lo, hi)
  /\ \A i, j \in 1..Len(q) :
       i < j => Gap(q[i], q[j]) \/ (i = k /\ j = k + 1 /\ Touch(q[i], q[j]))

InBlock(b, u) == b.addr <= u /\ u < b.addr + b.len
InList(q, u)  == \E i \in 1..Len(q) : InBlock(q[i], u)
-----------------------------------------------------------------------------
(* r is q without entry i, in the same order. *)
IsWithout(r, q, i) ==
  /\ \A j \in 1..Len(r) : \E k \in 1..Len(q) : k # i /\ r[j] = q[k]
  /\ \A k \in 1..Len(q) : k # i => \E j \in 1..Len(r) : r[j] = q[k]
  /\ \A j1, j2 \in 1..Len(r) : j1 < j2 =>
       \E k1, k2 \in 1..Len(q) :
         k1 < k2 /\ k1 # i /\ k2 # i /\ r[j1] = q[k1] /\ r[j2] = q[k2]

LEMMA RemoveAtOrder ==
  ASSUME NEW S, NEW q \in Seq(S), NEW i \in 1..Len(q)
  PROVE  RemoveAt(q, i) \in Seq(S) /\ IsWithout(RemoveAt(q, i), q, i)
<1> DEFINE r == RemoveAt(q, i)
<1>1. /\ r \in Seq(S) /\ Len(r) = Len(q) - 1 /\ Len(q) \in Nat
      /\ \A j \in 1..(Len(q) - 1) : r[j] = IF j < i THEN q[j] ELSE q[j + 1]
  BY RemoveAtElements, LenProperties
<1> HIDE DEF r
<1> DEFINE old(j) == IF j < i THEN j ELSE j + 1
<1>2. \A j \in 1..Len(r) : old(j) \in 1..Len(q) /\ old(j) # i /\ r[j] = q[old(j)]
  BY <1>1
<1>3. \A j1, j2 \in 1..Len(r) : j1 < j2 => old(j1) < old(j2)
  BY <1>1
<1>4. ASSUME NEW k \in 1..Len(q), k # i PROVE \E j \in 1..Len(r) : r[j] = q[k]
  <2>1. CASE k < i
    <3>1. k \in 1..Len(r) /\ r[k] = q[k]
      BY <1>1, <2>1
    <3> QED BY <3>1
  <2>2. CASE k > i
    <3>1. k - 1 \in 1..Len(r) /\ r[k - 1] = q[k]
      BY <1>1, <2>2
    <3> QED BY <3>1
  <2> QED BY <1>1, <1>4, <2>1, <2>2
<1> HIDE DEF old
<1>5. r \in Seq(S) /\ IsWithout(r, q, i)
  BY <1>1, <1>2, <1>3, <1>4 DEF IsWithout
<1> QED BY <1>5 DEF r

LEMMA BlocksTyped ==
  ASSUME NEW q \in Seq(BlockSet)
  PROVE  /\ Len(q) \in Nat
         /\ \A i \in 1..Len(q) : q[i] \in BlockSet /\ q[i].addr \in Nat /\ q[i].len \in Nat
<1>1. Len(q) \in Nat /\ \A i \in 1..Len(q) : q[i] \in BlockSet
  BY LenProperties, ElementOfSeq
<1>2. \A b \in BlockSet : b.addr \in Nat /\ b.len \in Nat
  BY DEF BlockSet
<1> QED BY <1>1, <1>2

(* Taking the low end of a block removes just that. *)
LEMMA TakeLowOrdered ==
  ASSUME WORD \in Nat, NEW lo \in Nat, NEW hi \in Nat, hi < WORD,
         NEW q, Ordered(q, lo, hi),
         NEW i \in 1..Len(q), NEW n \in Nat, 0 < n, n <= q[i].len
  PROVE  /\ Ordered(TakeLow(q, i, n), lo, hi)
         /\ \A u \in Int : InList(TakeLow(q, i, n), u) <=>
              InList(q, u) /\ ~InBlock(Block(q[i].addr, n), u)
<1> DEFINE r == TakeLow(q, i, n)
           s == Block(q[i].addr, n)
<1>1. /\ q \in Seq(BlockSet) /\ Len(q) \in Nat
      /\ \A j \in 1..Len(q) : q[j] \in BlockSet /\ q[j].addr \in Nat /\ q[j].len \in Nat
  BY BlocksTyped DEF Ordered
<1>2. \A j \in 1..Len(q) : Within(q[j], lo, hi)
  BY DEF Ordered
<1>3. \A j, k \in 1..Len(q) : j < k => Gap(q[j], q[k])
  BY DEF Ordered
<1>4. s.addr = q[i].addr /\ s.len = n
  BY DEF Block
<1> HIDE DEF s
<1>5. ASSUME NEW u \in Int, NEW k \in 1..Len(q), k # i, InBlock(q[k], u)
      PROVE  ~InBlock(s, u)
  <2>1. q[k].addr \in Nat /\ q[k].len \in Nat /\ q[i].addr \in Nat /\ q[i].len \in Nat
    BY <1>1
  <2>2. q[k].addr + q[k].len < q[i].addr \/ q[i].addr + q[i].len < q[k].addr
    BY <1>1, <1>3, <1>5 DEF Gap
  <2>3. q[k].addr <= u /\ u < q[k].addr + q[k].len
    BY <1>5 DEF InBlock
  <2>4. ASSUME NEW x \in Nat, NEW l \in Nat, NEW y \in Nat, NEW m \in Nat,
               x + l < y \/ y + m < x, x <= u, u < x + l, n <= m
        PROVE  ~(y <= u /\ u < y + n)
    BY <2>4
  <2>5. ~(q[i].addr <= u /\ u < q[i].addr + n)
    BY <2>1, <2>2, <2>3, <2>4
  <2> QED BY <1>4, <2>5 DEF InBlock
<1>6. CASE q[i].len = n
  <2>1. r = RemoveAt(q, i)
    BY <1>6 DEF TakeLow
  <2> HIDE DEF r
  <2>2. r \in Seq(BlockSet) /\ IsWithout(r, q, i)
    BY <1>1, <2>1, RemoveAtOrder
  <2>3. Ordered(r, lo, hi)
    <3>1. ASSUME NEW j \in 1..Len(r) PROVE Within(r[j], lo, hi)
      <4>1. PICK k \in 1..Len(q) : r[j] = q[k]
        BY <2>2 DEF IsWithout
      <4> QED BY <1>2, <4>1
    <3>2. ASSUME NEW j1 \in 1..Len(r), NEW j2 \in 1..Len(r), j1 < j2
          PROVE  Gap(r[j1], r[j2])
      <4>1. PICK k1 \in 1..Len(q), k2 \in 1..Len(q) :
              k1 < k2 /\ r[j1] = q[k1] /\ r[j2] = q[k2]
        BY <2>2, <3>2 DEF IsWithout
      <4> QED BY <1>3, <4>1
    <3> QED BY <2>2, <3>1, <3>2 DEF Ordered
  <2>4. ASSUME NEW u \in Int PROVE InList(r, u) <=> InList(q, u) /\ ~InBlock(s, u)
    <3>1. InBlock(q[i], u) <=> InBlock(s, u)
      BY <1>4, <1>6 DEF InBlock
    <3>2. ASSUME InList(r, u) PROVE InList(q, u) /\ ~InBlock(s, u)
      <4>1. PICK k \in 1..Len(q) : k # i /\ InBlock(q[k], u)
        BY <2>2, <3>2 DEF InList, IsWithout
      <4> QED BY <1>5, <4>1 DEF InList
    <3>3. ASSUME InList(q, u), ~InBlock(s, u) PROVE InList(r, u)
      <4>1. PICK k \in 1..Len(q) : InBlock(q[k], u)
        BY <3>3 DEF InList
      <4>2. PICK j \in 1..Len(r) : r[j] = q[k]
        BY <2>2, <3>1, <3>3, <4>1 DEF IsWithout
      <4> QED BY <4>1, <4>2 DEF InList
    <3> QED BY <3>2, <3>3
  <2> QED BY <2>3, <2>4 DEF r, s
<1>7. CASE q[i].len # n
  <2> DEFINE b == Block(q[i].addr + n, q[i].len - n)
  <2>0. q[i].addr \in Nat /\ q[i].len \in Nat /\ Within(q[i], lo, hi)
    BY <1>1, <1>2
  <2>1. b \in BlockSet /\ b.addr = q[i].addr + n /\ b.len = q[i].len - n /\ 0 < b.len
    BY <2>0, <1>7 DEF Block, BlockSet
  <2>2. r = [q EXCEPT ![i] = b]
    <3>1. Wrap(q[i].addr + n) = q[i].addr + n
      BY <2>0 DEF Wrap, Within
    <3> QED BY <1>7, <3>1 DEF TakeLow
  <2> HIDE DEF b, r
  <2>3. /\ r \in Seq(BlockSet) /\ Len(r) = Len(q)
        /\ \A j \in 1..Len(q) : r[j] = IF j = i THEN b ELSE q[j]
    BY <1>1, <2>1, <2>2
  <2>4. \A j \in 1..Len(r) : Within(r[j], lo, hi)
    <3>1. Within(b, lo, hi)
      BY <2>0, <2>1 DEF Within
    <3> QED BY <1>2, <2>3, <3>1
  <2>5. ASSUME NEW j \in 1..Len(r), NEW k \in 1..Len(r), j < k
        PROVE  Gap(r[j], r[k])
    <3>1. Gap(q[j], q[k]) /\ q[j].addr \in Nat /\ q[j].len \in Nat /\ q[k].addr \in Nat
      BY <1>1, <1>3, <2>3, <2>5
    <3>2. CASE j = i
      <4>1. r[j] = b /\ r[k] = q[k]
        BY <2>3, <2>5, <3>2
      <4> QED BY SMTT(30), <2>0, <2>1, <3>1, <3>2, <4>1, SMTT(60) DEF Gap
    <3>3. CASE k = i
      <4>1. r[j] = q[j] /\ r[k] = b
        BY <2>3, <2>5, <3>3
      <4>2. q[j].addr + q[j].len < q[i].addr
        BY <3>1, <3>3 DEF Gap
      <4>3. PICK x \in Nat : x = q[j].addr + q[j].len
        BY <3>1
      <4>4. PICK y \in Nat : y = q[i].addr
        BY <2>0
      <4>5. x < y + n
        BY <4>2, <4>3, <4>4
      <4>6. b.addr = y + n
        BY <2>1, <4>4
      <4> QED BY <4>1, <4>3, <4>5, <4>6 DEF Gap
    <3>4. CASE j # i /\ k # i
      <4>1. r[j] = q[j] /\ r[k] = q[k]
        BY <2>3, <2>5, <3>4
      <4> QED BY <3>1, <4>1
    <3> QED BY <3>2, <3>3, <3>4
  <2>6. ASSUME NEW u \in Int PROVE InList(r, u) <=> InList(q, u) /\ ~InBlock(s, u)
    <3>1. InBlock(b, u) <=> InBlock(q[i], u) /\ ~InBlock(s, u)
      <4>1. ASSUME NEW x \in Nat, NEW m \in Nat, n <= m
            PROVE  x + n <= u /\ u < (x + n) + (m - n) <=>
                     (x <= u /\ u < x + m) /\ ~(x <= u /\ u < x + n)
        BY <4>1
      <4>2. /\ InBlock(b, u) <=> q[i].addr + n <= u /\ u < (q[i].addr + n) + (q[i].len - n)
            /\ InBlock(q[i], u) <=> q[i].addr <= u /\ u < q[i].addr + q[i].len
            /\ InBlock(s, u) <=> q[i].addr <= u /\ u < q[i].addr + n
        BY <1>4, <2>1 DEF InBlock
      <4> QED BY <2>0, <4>1, <4>2
    <3> QED BY <1>5, <2>3, <3>1 DEF InList
  <2> QED BY <2>3, <2>4, <2>5, <2>6 DEF Ordered, r, s
<1> QED BY <1>6, <1>7

(* The end of a block below the width of a word is computed exactly. *)
LEMMA TopExact ==
  ASSUME WORD \in Nat, NEW hi \in Nat, hi < WORD, NEW lo \in Nat,
         NEW b \in BlockSet, Within(b, lo, hi)
  PROVE  Top(b) = b.addr + b.len
<1>1. b.addr \in Nat /\ b.len \in Nat
  BY DEF BlockSet
<1> QED BY <1>1 DEF Within, Top, Wrap

(* Joining two blocks that touch restores the order and frees nothing. *)
LEMMA MergedOrdered ==
  ASSUME WORD \in Nat, NEW lo \in Nat, NEW hi \in Nat, hi < WORD,
         NEW q, NEW i \in 1..Len(q), AlmostOrdered(q, i, lo, hi)
  PROVE  /\ Ordered(Merged(q, i), lo, hi)
         /\ \A u \in Int : InList(Merged(q, i), u) <=> InList(q, u)
<1>1. /\ q \in Seq(BlockSet) /\ Len(q) \in Nat
      /\ \A j \in 1..Len(q) : q[j] \in BlockSet /\ q[j].addr \in Nat /\ q[j].len \in Nat
  BY BlocksTyped DEF AlmostOrdered
<1>2. \A j \in 1..Len(q) : Within(q[j], lo, hi)
  BY DEF AlmostOrdered
<1>3. \A j, k \in 1..Len(q) :
        j < k => Gap(q[j], q[k]) \/ (j = i /\ k = i + 1 /\ Touch(q[j], q[k]))
  BY DEF AlmostOrdered
<1>4. Top(q[i]) = q[i].addr + q[i].len
  BY <1>1, <1>2, TopExact
<1>5. CASE ~(i < Len(q) /\ Top(q[i]) = q[i + 1].addr)
  <2>1. Merged(q, i) = q
    BY <1>5 DEF Merged
  <2>2. ASSUME NEW j \in 1..Len(q), NEW k \in 1..Len(q), j < k PROVE Gap(q[j], q[k])
    <3>1. CASE j = i /\ k = i + 1
      <4>1. Gap(q[j], q[k]) \/ Touch(q[i], q[i + 1])
        BY <1>3, <2>2, <3>1
      <4>2. i < Len(q)
        BY <1>1, <3>1
      <4> QED BY <1>4, <1>5, <4>1, <4>2 DEF Touch
    <3>2. CASE ~(j = i /\ k = i + 1)
      BY <1>3, <2>2, <3>2
    <3> QED BY <3>1, <3>2
  <2> QED BY <1>1, <1>2, <2>1, <2>2 DEF Ordered
<1>6. CASE i < Len(q) /\ Top(q[i]) = q[i + 1].addr
  <2> DEFINE b == Longer(q[i], q[i + 1].len)
             p == [q EXCEPT ![i] = b]
             r == RemoveAt(p, i + 1)
  <2>1. i + 1 \in 1..Len(q)
    BY <1>1, <1>6
  <2>2. /\ q[i].addr \in Nat /\ q[i].len \in Nat /\ Within(q[i], lo, hi)
        /\ q[i + 1].addr \in Nat /\ q[i + 1].len \in Nat /\ Within(q[i + 1], lo, hi)
        /\ q[i].addr + q[i].len = q[i + 1].addr
    BY <1>1, <1>2, <1>4, <1>6, <2>1
  <2>3. b \in BlockSet /\ b.addr = q[i].addr /\ b.len = q[i].len + q[i + 1].len
    <3>1. q[i].len + q[i + 1].len \in 0..(WORD - 1)
      <4>1. ASSUME NEW x \in Nat, NEW m \in Nat, NEW n \in Nat, (x + m) + n <= hi
            PROVE  m + n \in 0..(WORD - 1)
        BY <4>1
      <4>2. (q[i].addr + q[i].len) + q[i + 1].len <= hi
        BY <2>2 DEF Within
      <4> QED BY <2>2, <4>1, <4>2
    <3>2. Wrap(q[i].len + q[i + 1].len) = q[i].len + q[i + 1].len
      BY <3>1 DEF Wrap
    <3>3. b = Block(q[i].addr, q[i].len + q[i + 1].len)
      BY <3>2 DEF Longer
    <3> QED BY <2>2, <3>1, <3>3 DEF Block, BlockSet
  <2> HIDE DEF b
  <2>4. /\ p \in Seq(BlockSet) /\ Len(p) = Len(q)
        /\ \A j \in 1..Len(q) : p[j] = IF j = i THEN b ELSE q[j]
    BY <1>1, <2>3
  <2>5. Merged(q, i) = r
    BY <1>6 DEF Merged, b
  <2> HIDE DEF p
  <2>6. r \in Seq(BlockSet) /\ IsWithout(r, p, i + 1)
    BY <2>1, <2>4, RemoveAtOrder
  <2> HIDE DEF r
  <2>7. \A k \in 1..Len(q) : Within(p[k], lo, hi)
    <3>1. Within(b, lo, hi)
      BY <2>2, <2>3 DEF Within
    <3> QED BY <1>2, <2>4, <3>1
  <2>8. ASSUME NEW j \in 1..Len(q), NEW k \in 1..Len(q), j < k, j # i + 1, k # i + 1
        PROVE  Gap(p[j], p[k])
    <3>1. q[j].addr \in Nat /\ q[j].len \in Nat /\ q[k].addr \in Nat /\ Gap(q[j], q[k])
      BY <1>1, <1>3, <2>8
    <3>2. CASE j = i
      <4>1. p[j] = b /\ p[k] = q[k] /\ q[i + 1].addr + q[i + 1].len < q[k].addr
        BY <1>1, <1>3, <2>1, <2>4, <2>8, <3>2 DEF Gap
      <4>2. \A x \in Nat, l \in Nat, m \in Nat : x + (l + m) = (x + l) + m
        OBVIOUS
      <4>3. b.addr + b.len = q[i + 1].addr + q[i + 1].len
        BY <2>2, <2>3, <4>2
      <4> QED BY <4>1, <4>3 DEF Gap
    <3>3. CASE k = i
      <4>1. p[j] = q[j] /\ p[k] = b
        BY <2>4, <2>8, <3>3
      <4> QED BY <2>3, <3>1, <3>3, <4>1 DEF Gap
    <3> QED BY <2>4, <3>1, <3>2, <3>3
  <2>9. Ordered(r, lo, hi)
    <3>1. ASSUME NEW j \in 1..Len(r) PROVE Within(r[j], lo, hi)
      <4>1. PICK k \in 1..Len(p) : r[j] = p[k]
        BY <2>6 DEF IsWithout
      <4> QED BY <2>4, <2>7, <4>1
    <3>2. ASSUME NEW j1 \in 1..Len(r), NEW j2 \in 1..Len(r), j1 < j2
          PROVE  Gap(r[j1], r[j2])
      <4>1. PICK k1 \in 1..Len(p), k2 \in 1..Len(p) :
              k1 < k2 /\ k1 # i + 1 /\ k2 # i + 1 /\ r[j1] = p[k1] /\ r[j2] = p[k2]
        BY <2>6, <3>2 DEF IsWithout
      <4> QED BY <2>4, <2>8, <4>1
    <3> QED BY <2>6, <3>1, <3>2 DEF Ordered
  <2>10. ASSUME NEW u \in Int PROVE InList(r, u) <=> InList(q, u)
    <3>1. InBlock(b, u) <=> InBlock(q[i], u) \/ InBlock(q[i + 1], u)
      <4>1. InBlock(b, u) <=> q[i].addr <= u /\ u < q[i].addr + (q[i].len + q[i + 1].len)
        BY <2>3 DEF InBlock
      <4>2. ASSUME NEW x \in Nat, NEW y \in Nat, NEW m \in Nat, NEW n \in Nat, x + m = y
            PROVE  x <= u /\ u < x + (m + n) <=>
                     (x <= u /\ u < x + m) \/ (y <= u /\ u < y + n)
        BY <4>2
      <4> QED BY <2>2, <4>1, <4>2 DEF InBlock
    <3>2. ASSUME InList(r, u) PROVE InList(q, u)
      <4>1. PICK k \in 1..Len(q) : InBlock(p[k], u)
        BY <2>4, <2>6, <3>2 DEF InList, IsWithout
      <4>2. CASE k = i
        BY <2>1, <2>4, <3>1, <4>1, <4>2 DEF InList
      <4>3. CASE k # i
        BY <2>4, <4>1, <4>3 DEF InList
      <4> QED BY <4>2, <4>3
    <3>3. ASSUME InList(q, u) PROVE InList(r, u)
      <4>1. PICK k \in 1..Len(q) : InBlock(q[k], u)
        BY <3>3 DEF InList
      <4> DEFINE m == IF k = i + 1 THEN i ELSE k
      <4>2. m \in 1..Len(p) /\ m # i + 1 /\ InBlock(p[m], u)
        BY <2>1, <2>4, <3>1, <4>1
      <4> HIDE DEF m
      <4>3. PICK j \in 1..Len(r) : r[j] = p[m]
        BY <2>6, <4>2 DEF IsWithout
      <4> QED BY <4>2, <4>3 DEF InList
    <3> QED BY <3>2, <3>3
  <2> QED BY <2>5, <2>9, <2>10
<1> QED BY <1>5, <1>6

(* Where the walk of freemem stops. *)
LEMMA BeforeStops ==
  ASSUME NEW q \in Seq(BlockSet), NEW a \in Nat
  PROVE  /\ Before(q, a) \in 0..Len(q)
         /\ \A i \in 1..Before(q, a) : q[i].addr < a
         /\ Before(q, a) < Len(q) => q[Before(q, a) + 1].addr >= a
<1> DEFINE T == {i \in 1..Len(q) : q[i].addr >= a} \cup {Len(q) + 1}
<1>1. Len(q) \in Nat /\ DOMAIN q = 1..Len(q)
      /\ \A i \in 1..Len(q) : q[i].addr \in Nat
  BY BlocksTyped, LenProperties
<1>2. T \in SUBSET Nat /\ T # {}
  BY <1>1
<1>3. \E x \in T : \A y \in T : x <= y
  BY <1>2, LeastNatural
<1>4. Min(T) \in T /\ \A y \in T : Min(T) <= y
  BY <1>3 DEF Min
<1>5. Before(q, a) = Min(T) - 1
  BY <1>1 DEF Before
<1> DEFINE x == Min(T)
<1>6. x \in 1..(Len(q) + 1) /\ (x <= Len(q) => q[x].addr >= a)
  BY <1>1, <1>4
<1>7. ASSUME NEW i \in 1..(x - 1) PROVE q[i].addr < a
  <2>1. i \in 1..Len(q) /\ i \notin T
    BY <1>1, <1>4, <1>6
  <2> QED BY <1>1, <2>1
<1> HIDE DEF x
<1>8. Before(q, a) = x - 1
  BY <1>5 DEF x
<1> QED BY <1>1, <1>6, <1>7, <1>8

(* Freeing a..a+n-1, when no part of it is free, adds just that. *)
LEMMA ReleasedOrdered ==
  ASSUME WORD \in Nat, NEW lo \in Nat, NEW hi \in Nat, hi < WORD,
         NEW q, Ordered(q, lo, hi),
         NEW a \in Nat, NEW n \in Nat, 0 < n, lo <= a, a + n <= hi,
         ~Overlaps(q, a, n)
  PROVE  /\ Ordered(Released(q, a, n), lo, hi)
         /\ \A u \in Int : InList(Released(q, a, n), u) <=>
              InList(q, u) \/ InBlock(Block(a, n), u)
<1> DEFINE k == Before(q, a)
           s == Block(a, n)
<1>1. /\ q \in Seq(BlockSet) /\ Len(q) \in Nat
      /\ \A j \in 1..Len(q) : q[j] \in BlockSet /\ q[j].addr \in Nat /\ q[j].len \in Nat
  BY BlocksTyped DEF Ordered
<1>2. \A j \in 1..Len(q) : Within(q[j], lo, hi) /\ Top(q[j]) = q[j].addr + q[j].len
  BY <1>1, TopExact DEF Ordered
<1>3. \A i, j \in 1..Len(q) : i < j => Gap(q[i], q[j])
  BY DEF Ordered
<1>4. /\ k \in 0..Len(q)
      /\ \A i \in 1..k : q[i].addr < a
      /\ k < Len(q) => q[k + 1].addr >= a
  BY <1>1, BeforeStops
<1>5. s \in BlockSet /\ s.addr = a /\ s.len = n /\ Within(s, lo, hi)
  BY DEF Block, BlockSet, Within
<1>6. Wrap(a + n) = a + n
  BY DEF Wrap
<1>7. /\ k > 0 => q[k].addr + q[k].len <= a
      /\ k < Len(q) => a + n <= q[k + 1].addr
  <2>1. ~(k > 0 /\ a < Top(q[k])) /\ ~(k < Len(q) /\ a + n > q[k + 1].addr)
    BY <1>6 DEF Overlaps
  <2>2. k > 0 => k \in 1..Len(q)
    BY <1>1, <1>4
  <2>3. k < Len(q) => k + 1 \in 1..Len(q)
    BY <1>1, <1>4
  <2> QED BY <1>1, <1>2, <2>1, <2>2, <2>3, SMTT(60)
<1>8. Released(q, a, n) = IF k > 0 /\ Top(q[k]) = a
                          THEN Merged([q EXCEPT ![k] = Longer(@, n)], k)
                          ELSE Merged(InsertAt(q, k + 1, s), k + 1)
  BY DEF Released
<1> HIDE DEF k, s
(* What is in front of the walk's end lies below a, the rest above.        *)
<1>9. ASSUME NEW j \in 1..Len(q), j < k PROVE Gap(q[j], s) /\ Gap(q[j], q[k])
  <2>1. k \in 1..Len(q) /\ q[k].addr < a /\ Gap(q[j], q[k])
    BY <1>1, <1>3, <1>4, <1>9
  <2> QED
    BY <1>1, <1>5, <2>1, SMTT(60) DEF Gap
<1>10. ASSUME NEW j \in 1..Len(q), j > k + 1 PROVE Gap(s, q[j])
  <2>1. k + 1 \in 1..Len(q) /\ k < Len(q) /\ Gap(q[k + 1], q[j])
    BY <1>1, <1>3, <1>4, <1>10
  <2>2. q[k + 1].addr \in Nat /\ q[k + 1].len \in Nat /\ 0 < q[k + 1].len /\ q[j].addr \in Nat
    BY <1>1, <1>2, <2>1 DEF Within
  <2> QED BY <1>5, <1>7, <2>1, <2>2, SMTT(60) DEF Gap
<1>11. k < Len(q) => k + 1 \in 1..Len(q) /\ (Gap(s, q[k + 1]) \/ Touch(s, q[k + 1]))
  <2> SUFFICES ASSUME k < Len(q) PROVE k + 1 \in 1..Len(q) /\ (Gap(s, q[k + 1]) \/ Touch(s, q[k + 1]))
    OBVIOUS
  <2>1. k + 1 \in 1..Len(q)
    BY <1>1, <1>4
  <2>2. q[k + 1].addr \in Nat /\ a + n <= q[k + 1].addr
    BY <1>1, <1>7, <2>1
  <2> QED BY <1>5, <2>1, <2>2 DEF Gap, Touch
<1>12. CASE k > 0 /\ Top(q[k]) = a
  <2> DEFINE b == Longer(q[k], n)
             p == [q EXCEPT ![k] = b]
  <2>1. k \in 1..Len(q)
    BY <1>1, <1>4, <1>12
  <2>2. /\ q[k].addr \in Nat /\ q[k].len \in Nat /\ Within(q[k], lo, hi)
        /\ q[k].addr + q[k].len = a
    BY <1>1, <1>2, <1>12, <2>1
  <2>3. b \in BlockSet /\ b.addr = q[k].addr /\ b.len = q[k].len + n
    <3>1. Wrap(q[k].len + n) = q[k].len + n
      BY <2>2 DEF Wrap
    <3> QED BY <2>2, <3>1 DEF Longer, Block, BlockSet
  <2>4. Released(q, a, n) = Merged(p, k)
    BY <1>8, <1>12
  <2> HIDE DEF b
  <2>5. /\ p \in Seq(BlockSet) /\ Len(p) = Len(q)
        /\ \A j \in 1..Len(q) : p[j] = IF j = k THEN b ELSE q[j]
    BY <1>1, <2>1, <2>3
  <2> HIDE DEF p
  <2>6. \A j \in 1..Len(p) : Within(p[j], lo, hi)
    <3>1. Within(b, lo, hi)
      BY <2>2, <2>3 DEF Within
    <3> QED BY <1>2, <2>5, <3>1
  <2>7. ASSUME NEW i \in 1..Len(p), NEW j \in 1..Len(p), i < j
        PROVE  Gap(p[i], p[j]) \/ (i = k /\ j = k + 1 /\ Touch(p[i], p[j]))
    <3>1. CASE i = k
      <4>1. p[i] = b /\ p[j] = q[j] /\ b.addr + b.len = s.addr + s.len
        <5>1. i \in 1..Len(q) /\ j \in 1..Len(q) /\ j # k
          <6>1. Len(p) = Len(q)
            BY <2>5
          <6> QED BY <1>1, <2>1, <2>7, <3>1, <6>1
        <5>2. p[i] = b /\ p[j] = q[j]
          BY <2>5, <3>1, <5>1
        <5>3. b.addr + b.len = s.addr + s.len
          <6>1. \A x, m \in Nat : x + (m + n) = (x + m) + n
            OBVIOUS
          <6>2. q[k].addr + (q[k].len + n) = a + n
            BY <2>2, <6>1
          <6> QED BY <1>5, <2>3, <6>2
        <5> QED BY <5>2, <5>3
      <4>2. CASE j = k + 1
        <5>1. Gap(s, q[j]) \/ Touch(s, q[j])
          BY <1>1, <1>11, <2>5, <2>7, <3>1, <4>2
        <5> QED BY <3>1, <4>1, <4>2, <5>1 DEF Gap, Touch
      <4>3. CASE j > k + 1
        BY <1>10, <2>5, <4>1, <4>3 DEF Gap
      <4> QED BY <1>1, <2>5, <2>7, <3>1, <4>2, <4>3
    <3>2. CASE j = k
      <4>1. p[i] = q[i] /\ p[j] = b /\ Gap(q[i], q[k])
        BY <1>9, <2>5, <2>7, <3>2
      <4> QED BY <2>3, <4>1 DEF Gap
    <3>3. CASE i # k /\ j # k
      BY <1>3, <2>5, <2>7, <3>3
    <3> QED BY <3>1, <3>2, <3>3
  <2>8. AlmostOrdered(p, k, lo, hi) /\ k \in 1..Len(p)
    BY <2>1, <2>5, <2>6, <2>7 DEF AlmostOrdered
  <2>9. ASSUME NEW u \in Int PROVE InList(p, u) <=> InList(q, u) \/ InBlock(s, u)
    <3>1. InBlock(b, u) <=> InBlock(q[k], u) \/ InBlock(s, u)
      <4>1. ASSUME NEW x \in Nat, NEW y \in Nat, NEW l \in Nat, NEW m \in Nat, x + l = y
            PROVE  x <= u /\ u < x + (l + m) <=>
                     (x <= u /\ u < x + l) \/ (y <= u /\ u < y + m)
        BY <4>1
      <4>2. InBlock(b, u) <=> q[k].addr <= u /\ u < q[k].addr + (q[k].len + n)
        BY <2>3 DEF InBlock
      <4> QED BY <1>5, <2>2, <4>1, <4>2 DEF InBlock
    <3> QED BY <2>1, <2>5, <3>1 DEF InList
  <2>10. /\ Ordered(Merged(p, k), lo, hi)
         /\ \A u \in Int : InList(Merged(p, k), u) <=> InList(p, u)
    BY <2>8, MergedOrdered
  <2> QED BY <2>4, <2>9, <2>10 DEF s
<1>13. CASE ~(k > 0 /\ Top(q[k]) = a)
  <2> DEFINE p == InsertAt(q, k + 1, s)
  <2>1. /\ k + 1 \in 1..(Len(q) + 1)
        /\ Released(q, a, n) = Merged(p, k + 1)
    BY <1>1, <1>4, <1>8, <1>13
  <2>2. /\ p \in Seq(BlockSet) /\ Len(p) = Len(q) + 1
        /\ \A j \in 1..(Len(q) + 1) :
             p[j] = IF j < k + 1 THEN q[j] ELSE IF j = k + 1 THEN s ELSE q[j - 1]
    <3>1. q \in Seq(BlockSet) /\ s \in BlockSet /\ k + 1 \in 1..(Len(q) + 1)
      BY <1>1, <1>5, <2>1
    <3> HIDE DEF p
    <3>2. PICK i \in 1..(Len(q) + 1) : i = k + 1
      BY <3>1
    <3>3. p = InsertAt(q, i, s)
      BY <3>2 DEF p
    <3>4. /\ InsertAt(q, i, s) \in Seq(BlockSet) /\ Len(InsertAt(q, i, s)) = Len(q) + 1
          /\ \A j \in 1..(Len(q) + 1) :
               InsertAt(q, i, s)[j] =
                 IF j < i THEN q[j] ELSE IF j = i THEN s ELSE q[j - 1]
      BY <3>1, InsertAtElements
    <3> QED BY <3>2, <3>3, <3>4
  <2> HIDE DEF p
  <2>3. k > 0 => k \in 1..Len(q) /\ Gap(q[k], s)
    <3> SUFFICES ASSUME k > 0 PROVE k \in 1..Len(q) /\ Gap(q[k], s)
      OBVIOUS
    <3>1. k \in 1..Len(q)
      BY <1>1, <1>4
    <3>2. q[k].addr + q[k].len <= a /\ q[k].addr + q[k].len # a
      BY <1>2, <1>7, <1>13, <3>1
    <3>3. q[k].addr + q[k].len \in Nat
      BY <1>1, <3>1
    <3>4. q[k].addr + q[k].len < a
      BY <3>2, <3>3
    <3> QED BY <1>5, <3>1, <3>4 DEF Gap
  <2>4. \A j \in 1..Len(p) : Within(p[j], lo, hi)
    <3> SUFFICES ASSUME NEW j \in 1..Len(p) PROVE Within(p[j], lo, hi)
      OBVIOUS
    <3>1. CASE j < k + 1
      <4>1. j \in 1..Len(q) /\ p[j] = q[j]
        BY <1>1, <1>4, <2>2, <3>1
      <4> QED BY <1>2, <4>1
    <3>2. CASE j = k + 1
      BY <1>5, <2>1, <2>2, <3>2
    <3>3. CASE j > k + 1
      <4>1. j - 1 \in 1..Len(q) /\ p[j] = q[j - 1]
        BY <1>1, <1>4, <2>2, <3>3
      <4> QED BY <1>2, <4>1
    <3> QED BY <1>1, <1>4, <2>2, <3>1, <3>2, <3>3
  <2>5. ASSUME NEW i \in 1..Len(p), NEW j \in 1..Len(p), i < j
        PROVE  Gap(p[i], p[j]) \/ (i = k + 1 /\ j = k + 1 + 1 /\ Touch(p[i], p[j]))
    <3>1. CASE i < k + 1 /\ j < k + 1
      BY <1>1, <1>3, <1>4, <2>2, <2>5, <3>1, SMTT(60)
    <3>2. CASE i < k + 1 /\ j = k + 1
      <4>1. i \in 1..Len(q) /\ p[i] = q[i] /\ p[j] = s
        BY <1>1, <1>4, <2>2, <2>5, <3>2
      <4> QED BY <1>1, <1>4, <1>9, <2>3, <3>2, <4>1
    <3>3. CASE i < k + 1 /\ j > k + 1
      <4>1. i \in 1..Len(q) /\ j - 1 \in 1..Len(q) /\ i < j - 1 /\ p[i] = q[i] /\ p[j] = q[j - 1]
        BY <1>1, <1>4, <2>2, <2>5, <3>3
      <4> QED BY <1>3, <4>1
    <3>4. CASE i = k + 1
      <4>1. j - 1 \in 1..Len(q) /\ p[i] = s /\ p[j] = q[j - 1]
        <5>1. j - 1 \in 1..Len(q) /\ j \in 1..(Len(q) + 1) /\ i \in 1..(Len(q) + 1)
              /\ ~(i < k + 1) /\ ~(j < k + 1) /\ j # k + 1
          BY <1>1, <1>4, <2>2, <2>5, <3>4
        <5> QED BY <2>2, <3>4, <5>1
      <4>2. CASE j = k + 1 + 1
        <5>1. j - 1 = k + 1 /\ k < Len(q)
          BY <1>1, <1>4, <4>1, <4>2
        <5> QED BY <1>11, <3>4, <4>1, <4>2, <5>1
      <4>3. CASE j > k + 1 + 1
        <5>1. j - 1 > k + 1
          BY <1>4, <4>1, <4>3
        <5> QED BY <1>10, <4>1, <5>1
      <4> QED BY <1>4, <2>2, <2>5, <3>4, <4>2, <4>3
    <3>5. CASE i > k + 1
      <4>1. i - 1 \in 1..Len(q) /\ j - 1 \in 1..Len(q) /\ i - 1 < j - 1 /\ p[i] = q[i - 1] /\ p[j] = q[j - 1]
        <5>1. i - 1 \in 1..Len(q) /\ j - 1 \in 1..Len(q) /\ i - 1 < j - 1
              /\ j \in 1..(Len(q) + 1) /\ i \in 1..(Len(q) + 1)
              /\ ~(i < k + 1) /\ i # k + 1 /\ ~(j < k + 1) /\ j # k + 1
          BY <1>1, <1>4, <2>2, <2>5, <3>5
        <5> QED BY <2>2, <5>1
      <4> QED BY <1>3, <4>1
    <3> QED BY <1>1, <1>4, <2>2, <2>5, <3>1, <3>2, <3>3, <3>4, <3>5
  <2>6. AlmostOrdered(p, k + 1, lo, hi) /\ k + 1 \in 1..Len(p)
    BY <2>1, <2>2, <2>4, <2>5 DEF AlmostOrdered
  <2>7. ASSUME NEW u \in Int PROVE InList(p, u) <=> InList(q, u) \/ InBlock(s, u)
    <3>1. ASSUME InList(p, u) PROVE InList(q, u) \/ InBlock(s, u)
      <4>1. PICK j \in 1..Len(p) : InBlock(p[j], u)
        BY <3>1 DEF InList
      <4>2. p[j] = s \/ \E m \in 1..Len(q) : p[j] = q[m]
        <5>1. CASE j < k + 1
          BY <1>1, <1>4, <2>2, <5>1
        <5>2. CASE j = k + 1
          BY <2>2, <5>2
        <5>3. CASE j > k + 1
          <6>1. j - 1 \in 1..Len(q) /\ p[j] = q[j - 1]
            BY <1>1, <1>4, <2>2, <5>3
          <6> QED BY <6>1
        <5> QED BY <1>4, <2>2, <5>1, <5>2, <5>3
      <4> QED BY <4>1, <4>2 DEF InList
    <3>2. ASSUME InBlock(s, u) PROVE InList(p, u)
      <4>1. k + 1 \in 1..Len(p) /\ p[k + 1] = s
        BY <1>4, <2>1, <2>2
      <4> QED BY <3>2, <4>1 DEF InList
    <3>3. ASSUME InList(q, u) PROVE InList(p, u)
      <4>1. PICK m \in 1..Len(q) : InBlock(q[m], u)
        BY <3>3 DEF InList
      <4>2. CASE m < k + 1
        <5>1. m \in 1..Len(p) /\ p[m] = q[m]
          BY <1>1, <2>2, <4>2
        <5> QED BY <4>1, <5>1 DEF InList
      <4>3. CASE m >= k + 1
        <5>1. m + 1 \in 1..Len(p) /\ p[m + 1] = q[m]
          BY <1>1, <1>4, <2>2, <4>3
        <5> QED BY <4>1, <5>1 DEF InList
      <4> QED BY <1>4, <4>2, <4>3
    <3> QED BY <3>1, <3>2, <3>3
  <2>8. /\ Ordered(Merged(p, k + 1), lo, hi)
        /\ \A u \in Int : InList(Merged(p, k + 1), u) <=> InList(p, u)
    BY <2>6, MergedOrdered
  <2> QED BY <2>1, <2>7, <2>8 DEF s
<1> QED BY <1>12, <1>13
-----------------------------------------------------------------------------
(* The layout: what MemoryAssumption says, taken apart. *)
LEMMA Layout ==
  /\ WORD \in Nat /\ HOLESTART \in Nat /\ HOLEEND \in Nat /\ end \in Nat
  /\ NULLSTK \in Nat /\ 0 < NULLSTK /\ 0 < HOLESTART
  /\ PT_START \in Nat /\ FFS_START \in Nat /\ SWP_START \in Nat /\ MaxSpent \in Nat
  /\ HOLESTART < HOLEEND /\ HOLEEND < end /\ end + NULLSTK + 1 < PT_START
  /\ PT_START < FFS_START /\ FFS_START < SWP_START /\ SWP_START < WORD
BY MemoryAssumption

LEMMA PagedLayout ==
  ASSUME NEW l \in Paged
  PROVE  /\ Start(l) \in Nat /\ Limit(l) \in Nat /\ Start(l) < Limit(l) /\ Limit(l) < WORD
         /\ PT_START <= Start(l) /\ 0 < Start(l)
BY Layout DEF Paged, Start, Limit

LEMMA UnitsTyped ==
  ASSUME NEW nbytes \in Requests \cup PageSizes
  PROVE  Units(nbytes) \in 0..(WORD - 1)
<1>1. nbytes \in Nat /\ nbytes <= 8 * (WORD - 1) /\ WORD \in Nat
  BY MemoryAssumption, Layout
<1>2. \A x \in Nat, w \in Nat : x <= 8 * (w - 1) => (x + 7) \div 8 \in 0..(w - 1)
  OBVIOUS
<1> QED BY <1>1, <1>2 DEF Units

(* A list and the memory in use make up lo..hi-1. *)
UnitsIn(q) == {u \in Int : InList(q, u)}

Partition(q, used, lo, hi) ==
  /\ UnitsIn(q) \cup used = lo..(hi - 1)
  /\ UnitsIn(q) \cap used = {}

LEMMA SpanIsBlock ==
  ASSUME NEW b \in BlockSet
  PROVE  \A u : u \in Span(b) <=> u \in Int /\ InBlock(b, u)
<1>1. b.addr \in Nat /\ b.len \in Nat
  BY DEF BlockSet
<1> QED BY <1>1 DEF Span, InBlock

LEMMA FreeUnitsAre ==
  ASSUME NEW l, list[l] \in Seq(BlockSet)
  PROVE  FreeUnits(l) = UnitsIn(list[l])
<1>1. \A i \in 1..Len(list[l]) : list[l][i] \in BlockSet
  BY BlocksTyped
<1>2. DOMAIN list[l] = 1..Len(list[l])
  BY LenProperties
<1>3. \A u : u \in FreeUnits(l) <=> \E i \in 1..Len(list[l]) : u \in Span(list[l][i])
  BY <1>2 DEF FreeUnits
<1> QED BY <1>1, <1>3, SpanIsBlock DEF UnitsIn, InList

LEMMA TakePages ==
  ASSUME WORD \in Nat, NEW lo \in Nat, NEW hi \in Nat, hi < WORD,
         NEW q, Ordered(q, lo, hi), NEW used, Partition(q, used, lo, hi),
         NEW i \in 1..Len(q), NEW n \in Nat, 0 < n, n <= q[i].len
  PROVE  /\ Ordered(TakeLow(q, i, n), lo, hi)
         /\ Partition(TakeLow(q, i, n), used \cup Span(Block(q[i].addr, n)), lo, hi)
<1> DEFINE r == TakeLow(q, i, n)
           s == Block(q[i].addr, n)
<1>1. /\ Ordered(r, lo, hi)
      /\ \A u \in Int : InList(r, u) <=> InList(q, u) /\ ~InBlock(s, u)
  BY TakeLowOrdered
<1>2. q[i].addr \in Nat /\ q[i].len \in Nat
  BY BlocksTyped DEF Ordered
<1>3. s \in BlockSet /\ s.addr = q[i].addr /\ s.len = n
  BY <1>2 DEF Block, BlockSet
<1> HIDE DEF r, s
<1>4. \A u \in Int : InBlock(s, u) => InList(q, u)
  BY <1>2, <1>3 DEF InBlock, InList
<1>5. \A u : u \in Span(s) <=> u \in Int /\ InBlock(s, u)
  BY <1>3, SpanIsBlock
<1>6. Partition(r, used \cup Span(s), lo, hi)
  BY <1>1, <1>4, <1>5 DEF Partition, UnitsIn
<1> QED BY <1>1, <1>6 DEF r, s

LEMMA FreePages ==
  ASSUME WORD \in Nat, NEW lo \in Nat, NEW hi \in Nat, hi < WORD,
         NEW q, Ordered(q, lo, hi), NEW used, Partition(q, used, lo, hi),
         NEW a \in Nat, NEW n \in Nat, 0 < n, lo <= a, a + n <= hi,
         ~Overlaps(q, a, n)
  PROVE  /\ Ordered(Released(q, a, n), lo, hi)
         /\ Partition(Released(q, a, n), used \ Span(Block(a, n)), lo, hi)
<1> DEFINE r == Released(q, a, n)
           s == Block(a, n)
<1>1. /\ Ordered(r, lo, hi)
      /\ \A u \in Int : InList(r, u) <=> InList(q, u) \/ InBlock(s, u)
  BY ReleasedOrdered
<1>2. s \in BlockSet /\ s.addr = a /\ s.len = n
  BY DEF Block, BlockSet
<1> HIDE DEF r, s
<1>3. \A u : u \in Span(s) <=> u \in Int /\ InBlock(s, u)
  BY <1>2, SpanIsBlock
<1>4. \A u \in Span(s) : u \in lo..(hi - 1)
  BY <1>2 DEF Span
<1>5. Partition(r, used \ Span(s), lo, hi)
  BY <1>1, <1>3, <1>4 DEF Partition, UnitsIn
<1> QED BY <1>1, <1>5 DEF r, s
-----------------------------------------------------------------------------
(* The inductive invariant of the page memory. *)
PagesSound(q, used, lo, hi) == Ordered(q, lo, hi) /\ Partition(q, used, lo, hi)

PageInv ==
  /\ DOMAIN list = Lists /\ DOMAIN pages = Paged
  /\ \A l \in Paged : PagesSound(list[l], pages[l], Start(l), Limit(l))

LEMMA PageInvInit == MemInit => PageInv
<1> SUFFICES ASSUME MemInit PROVE PageInv
  OBVIOUS
<1>1. DOMAIN list = Lists /\ DOMAIN pages = Paged
  BY DEF MemInit
<1>2. ASSUME NEW l \in Paged PROVE PagesSound(list[l], pages[l], Start(l), Limit(l))
  <2> DEFINE b == Block(Start(l), Limit(l) - Start(l))
  <2>1. /\ Start(l) \in Nat /\ Limit(l) \in Nat /\ Start(l) < Limit(l)
    BY PagedLayout
  <2>2. list[l] = <<b>> /\ pages[l] = {}
    BY DEF MemInit, Lists, Paged
  <2>3. b \in BlockSet /\ b.addr = Start(l) /\ b.len = Limit(l) - Start(l)
    BY <2>1 DEF Block, BlockSet
  <2> HIDE DEF b
  <2>4. list[l] \in Seq(BlockSet) /\ Len(list[l]) = 1 /\ list[l][1] = b
    BY <2>2, <2>3
  <2>5. Within(b, Start(l), Limit(l))
    BY <2>1, <2>3 DEF Within
  <2>6. Ordered(list[l], Start(l), Limit(l))
    BY <2>4, <2>5 DEF Ordered
  <2>7. ASSUME NEW u \in Int PROVE InList(list[l], u) <=> u \in Start(l)..(Limit(l) - 1)
    <3>1. InList(list[l], u) <=> InBlock(b, u)
      BY <2>4 DEF InList
    <3> QED BY <2>1, <2>3, <3>1 DEF InBlock
  <2>8. Partition(list[l], pages[l], Start(l), Limit(l))
    BY <2>1, <2>2, <2>7 DEF Partition, UnitsIn
  <2> QED BY <2>6, <2>8 DEF PagesSound
<1> QED BY <1>1, <1>2 DEF PageInv

LEMMA GetpagesPages ==
  ASSUME PageInv, NEW l \in Paged, NEW nbytes \in PageSizes, Getpages(l, nbytes)
  PROVE  PageInv'
<1> DEFINE n == Units(nbytes)
           i == Min(Fits(list[l], n))
<1>1. n \in Nat /\ 0 < n /\ WORD \in Nat
  BY UnitsTyped, Layout DEF Getpages
<1>2. /\ Ordered(list[l], Start(l), Limit(l))
      /\ Partition(list[l], pages[l], Start(l), Limit(l))
  BY DEF PageInv, PagesSound
<1>3. i \in 1..Len(list[l]) /\ n <= list[l][i].len
  <2>1. Fits(list[l], n) # {}
    BY DEF Getpages
  <2> HIDE DEF n
  <2>2. Fits(list[l], n) \in SUBSET Nat /\ DOMAIN list[l] = 1..Len(list[l])
    BY <1>2, BlocksTyped, LenProperties DEF Ordered, Fits
  <2>3. \E x \in Fits(list[l], n) : \A y \in Fits(list[l], n) : x <= y
    BY <2>1, <2>2, LeastNatural
  <2>4. i \in Fits(list[l], n)
    BY <2>3 DEF Min
  <2>5. list[l][i].len \in Nat /\ i \in 1..Len(list[l])
    BY <1>2, <2>2, <2>4, BlocksTyped DEF Ordered, Fits
  <2> QED BY <1>1, <2>4, <2>5 DEF Fits
<1>4. /\ list' = [list EXCEPT ![l] = TakeLow(@, i, n)]
      /\ pages' = [pages EXCEPT ![l] = @ \cup Span(Block(list[l][i].addr, n))]
  BY DEF Getpages
<1> HIDE DEF n, i
<1>5. PagesSound(TakeLow(list[l], i, n), pages[l] \cup Span(Block(list[l][i].addr, n)),
                 Start(l), Limit(l))
  BY <1>1, <1>2, <1>3, PagedLayout, TakePages DEF PagesSound
<1> QED BY <1>4, <1>5 DEF PageInv, Lists

LEMMA FreepagesPages ==
  ASSUME PageInv, NEW l \in Paged, NEW a, NEW nbytes \in PageSizes, Freepages(l, a, nbytes)
  PROVE  PageInv'
<1> DEFINE n == Units(nbytes)
<1>1. n \in Nat /\ 0 < n /\ WORD \in Nat
  BY UnitsTyped, Layout DEF Freepages
<1>2. /\ Ordered(list[l], Start(l), Limit(l))
      /\ Partition(list[l], pages[l], Start(l), Limit(l))
  BY DEF PageInv, PagesSound
<1>3. a \in Nat /\ Start(l) <= a /\ a + n <= Limit(l) /\ ~Overlaps(list[l], a, n)
  BY PagedLayout DEF Freepages
<1>4. /\ list' = [list EXCEPT ![l] = Released(@, a, n)]
      /\ pages' = [pages EXCEPT ![l] = @ \ Span(Block(a, n))]
  BY DEF Freepages
<1> HIDE DEF n
<1>5. PagesSound(Released(list[l], a, n), pages[l] \ Span(Block(a, n)), Start(l), Limit(l))
  BY <1>1, <1>2, <1>3, PagedLayout, FreePages DEF PagesSound
<1> QED BY <1>4, <1>5 DEF PageInv, Lists

LEMMA PageInvNext == PageInv /\ [MemNext]_memvars => PageInv'
<1> SUFFICES ASSUME PageInv, [MemNext]_memvars PROVE PageInv'
  OBVIOUS
<1>1. ASSUME NEW q, list' = [list EXCEPT !["mem"] = q], UNCHANGED pages PROVE PageInv'
  <2>1. \A l \in Paged : list'[l] = list[l]
    BY <1>1 DEF Paged, PageInv
  <2> QED BY <1>1, <2>1 DEF PageInv, Lists
<1>2. CASE \E nbytes \in Requests : Getmem(nbytes)
  BY <1>1, <1>2 DEF Getmem
<1>3. CASE \E nbytes \in Requests : Getstk(nbytes)
  BY <1>1, <1>3 DEF Getstk
<1>4. CASE \E stk \in stacks : Freestk(stk)
  BY <1>1, <1>4 DEF Freestk
<1>5. CASE \E l \in Paged, nbytes \in PageSizes : Getpages(l, nbytes)
  BY <1>5, GetpagesPages
<1>6. CASE \E l \in Paged, nbytes \in PageSizes :
             \E a \in Start(l)..Limit(l) : Freepages(l, a, nbytes)
  BY <1>6, FreepagesPages
<1>7. CASE UNCHANGED memvars
  BY <1>7 DEF memvars, PageInv
<1> QED BY <1>2, <1>3, <1>4, <1>5, <1>6, <1>7 DEF MemNext

LEMMA PageInvariant == MemSpec => []PageInv
BY PageInvInit, PageInvNext, PTL DEF MemSpec

LEMMA PagesPartitionedIs == PageInv => PagesPartitioned
<1> SUFFICES ASSUME PageInv, NEW l \in Paged
             PROVE  /\ FreeUnits(l) \cup pages[l] = Start(l)..(Limit(l) - 1)
                    /\ FreeUnits(l) \cap pages[l] = {}
  BY DEF PagesPartitioned
<1>1. FreeUnits(l) = UnitsIn(list[l])
  BY FreeUnitsAre DEF PageInv, PagesSound, Ordered
<1> QED BY <1>1 DEF PageInv, PagesSound, Partition

(* Page memory is conserved by getptmem, getffsmem, freeptmem and          *)
(* freeffsmem, for every layout and every order of requests.               *)
THEOREM PageMemoryConserved == MemSpec => []PagesPartitioned
BY PagesPartitionedIs, PageInvariant, PTL

LEMMA BlocksApartIs == PageInv => BlocksApart
<1> SUFFICES ASSUME PageInv, NEW l \in Paged,
                    NEW i \in DOMAIN list[l], NEW j \in DOMAIN list[l], i < j
             PROVE  list[l][i].addr + list[l][i].len < list[l][j].addr
  BY DEF BlocksApart
<1>1. DOMAIN list[l] = 1..Len(list[l])
  BY LenProperties DEF PageInv, PagesSound, Ordered
<1> QED BY <1>1 DEF PageInv, PagesSound, Ordered, Gap

(* The free lists of page memory stay in order, with something in use      *)
(* between any two blocks.                                                 *)
THEOREM PageBlocksApart == MemSpec => []BlocksApart
BY BlocksApartIs, PageInvariant, PTL
-----------------------------------------------------------------------------
(* Addresses and lengths stay words, even where the heap's blocks overlap. *)
WordBlock == [addr : 0..(WORD - 1), len : 0..(WORD - 1)]

(* r is q with b linked in at place i. *)
IsWith(r, q, i, b) ==
  /\ r \in Seq(WordBlock) /\ Len(r) = Len(q) + 1
  /\ \A j \in 1..(Len(q) + 1) : r[j] = IF j < i THEN q[j] ELSE IF j = i THEN b ELSE q[j - 1]

LEMMA InsertsWord ==
  ASSUME NEW q \in Seq(WordBlock), NEW i \in 1..(Len(q) + 1), NEW b \in WordBlock
  PROVE  IsWith(InsertAt(q, i, b), q, i, b)
BY InsertAtElements DEF IsWith

LEMMA WordBlocks ==
  ASSUME NEW q \in Seq(WordBlock)
  PROVE  /\ q \in Seq(BlockSet) /\ Len(q) \in Nat /\ DOMAIN q = 1..Len(q)
         /\ \A i \in 1..Len(q) :
              /\ q[i] \in WordBlock
              /\ q[i].addr \in 0..(WORD - 1) /\ q[i].len \in 0..(WORD - 1)
<1>1. Len(q) \in Nat /\ DOMAIN q = 1..Len(q) /\ \A i \in 1..Len(q) : q[i] \in WordBlock
  BY LenProperties, ElementOfSeq
<1>2. \A b \in WordBlock :
        b.addr \in 0..(WORD - 1) /\ b.len \in 0..(WORD - 1) /\ b \in BlockSet
  BY DEF WordBlock, BlockSet
<1> QED BY <1>1, <1>2

LEMMA WrapTyped ==
  ASSUME NEW x \in 0..(WORD - 1), NEW y \in 0..(WORD - 1)
  PROVE  Wrap(x + y) \in 0..(WORD - 1)
BY Layout DEF Wrap

LEMMA TakenTyped ==
  ASSUME NEW q \in Seq(WordBlock), NEW i \in 1..Len(q),
         NEW n \in 0..(WORD - 1), n <= q[i].len
  PROVE  TakeLow(q, i, n) \in Seq(WordBlock) /\ TakeHigh(q, i, n) \in Seq(WordBlock)
<1>1. q[i].addr \in 0..(WORD - 1) /\ q[i].len \in 0..(WORD - 1)
  BY WordBlocks
<1>2. q[i].len - n \in 0..(WORD - 1) /\ Wrap(q[i].addr + n) \in 0..(WORD - 1)
  BY <1>1, Layout, WrapTyped
<1>3. /\ Block(Wrap(q[i].addr + n), q[i].len - n) \in WordBlock
      /\ Block(q[i].addr, q[i].len - n) \in WordBlock
  BY <1>1, <1>2 DEF Block, WordBlock
<1>4. RemoveAt(q, i) \in Seq(WordBlock)
  BY RemoveAtElements
<1> QED BY <1>3, <1>4 DEF TakeLow, TakeHigh

LEMMA LongerTyped ==
  ASSUME NEW b \in WordBlock, NEW n \in 0..(WORD - 1)
  PROVE  Longer(b, n) \in WordBlock
<1>1. b.addr \in 0..(WORD - 1) /\ b.len \in 0..(WORD - 1)
  BY DEF WordBlock
<1>2. Wrap(b.len + n) \in 0..(WORD - 1)
  BY <1>1, WrapTyped
<1> QED BY <1>1, <1>2 DEF Longer, Block, WordBlock

LEMMA MergedTyped ==
  ASSUME NEW q \in Seq(WordBlock), NEW i \in 1..Len(q)
  PROVE  Merged(q, i) \in Seq(WordBlock)
<1>1. CASE ~(i < Len(q) /\ Top(q[i]) = q[i + 1].addr)
  BY <1>1 DEF Merged
<1>2. CASE i < Len(q) /\ Top(q[i]) = q[i + 1].addr
  <2> DEFINE p == [q EXCEPT ![i] = Longer(@, q[i + 1].len)]
  <2>1. i + 1 \in 1..Len(q)
    BY <1>2, WordBlocks
  <2>2. q[i] \in WordBlock /\ q[i + 1].len \in 0..(WORD - 1)
    BY <2>1, WordBlocks
  <2>3. Longer(q[i], q[i + 1].len) \in WordBlock
    BY <2>2, LongerTyped
  <2>4. p \in Seq(WordBlock) /\ Len(p) = Len(q)
    BY <2>3
  <2>5. Merged(q, i) = RemoveAt(p, i + 1)
    BY <1>2 DEF Merged
  <2> HIDE DEF p
  <2> QED BY <2>1, <2>4, <2>5, RemoveAtElements
<1> QED BY <1>1, <1>2

LEMMA ReleasedTyped ==
  ASSUME NEW q \in Seq(WordBlock), NEW b \in WordBlock
  PROVE  Released(q, b.addr, b.len) \in Seq(WordBlock)
<1> DEFINE k == Before(q, b.addr)
           s == Block(b.addr, b.len)
<1>1. b.addr \in 0..(WORD - 1) /\ b.len \in 0..(WORD - 1) /\ s \in WordBlock
  BY DEF WordBlock, Block
<1>2. b.addr \in Nat
  BY <1>1, Layout
<1>3. k \in 0..Len(q) /\ Len(q) \in Nat
  BY <1>2, WordBlocks, BeforeStops
<1>4. Released(q, b.addr, b.len) =
        IF k > 0 /\ Top(q[k]) = b.addr
        THEN Merged([q EXCEPT ![k] = Longer(@, b.len)], k)
        ELSE Merged(InsertAt(q, k + 1, s), k + 1)
  BY DEF Released
<1> HIDE DEF k, s
<1>5. ASSUME k > 0 PROVE Merged([q EXCEPT ![k] = Longer(@, b.len)], k) \in Seq(WordBlock)
  <2> DEFINE p == [q EXCEPT ![k] = Longer(@, b.len)]
  <2>1. k \in 1..Len(q) /\ q[k] \in WordBlock
    BY <1>3, <1>5, WordBlocks
  <2>2. Longer(q[k], b.len) \in WordBlock
    BY <1>1, <2>1, LongerTyped
  <2>3. p \in Seq(WordBlock) /\ k \in 1..Len(p)
    BY <2>1, <2>2
  <2> HIDE DEF p
  <2>4. Merged(p, k) \in Seq(WordBlock)
    BY <2>3, MergedTyped
  <2> QED BY <2>4 DEF p
<1>6. Merged(InsertAt(q, k + 1, s), k + 1) \in Seq(WordBlock)
  <2>1. PICK i \in 1..(Len(q) + 1) : i = k + 1
    BY <1>3
  <2>2. InsertAt(q, i, s) \in Seq(WordBlock) /\ i \in 1..Len(InsertAt(q, i, s))
    <3>1. IsWith(InsertAt(q, i, s), q, i, s)
      BY <1>1, InsertsWord
    <3> QED BY <1>1, <1>3, <3>1 DEF IsWith
  <2> QED BY <2>1, <2>2, MergedTyped
<1> QED BY <1>4, <1>5, <1>6

HeapTyped ==
  /\ DOMAIN list = Lists
  /\ list["mem"] \in Seq(WordBlock)
  /\ heap \subseteq [addr : 0..(WORD - 1), len : 1..(WORD - 1), by : {"getmem", "getstk"}]
  /\ stacks \subseteq heap
  /\ spent \in 0..MaxSpent

(* Which entry the first and the last fit are. *)
LEMMA FitsTyped ==
  ASSUME NEW q \in Seq(WordBlock), NEW n \in Nat, Fits(q, n) # {}
  PROVE  /\ Min(Fits(q, n)) \in 1..Len(q) /\ n <= q[Min(Fits(q, n))].len
         /\ Max(Fits(q, n)) \in 1..Len(q) /\ n <= q[Max(Fits(q, n))].len
<1>1. /\ Len(q) \in Nat /\ DOMAIN q = 1..Len(q)
      /\ \A i \in 1..Len(q) : q[i].len \in 0..(WORD - 1)
  BY WordBlocks
<1>2. \A i \in Fits(q, n) : i \in 1..Len(q) /\ n <= q[i].len
  BY <1>1, Layout DEF Fits
<1> HIDE DEF Fits
<1>3. \E x \in Fits(q, n) : \A y \in Fits(q, n) : x <= y
  BY <1>2, LeastNatural
<1>4. \E x \in Fits(q, n) : \A y \in Fits(q, n) : x >= y
  <2> DEFINE D == {Len(q) - i : i \in Fits(q, n)}
  <2>1. D \in SUBSET Nat /\ D # {}
    BY <1>1, <1>2
  <2>2. PICK d \in D : \A e \in D : d <= e
    BY <2>1, LeastNatural
  <2>3. PICK x \in Fits(q, n) : d = Len(q) - x
    BY <2>2
  <2>4. ASSUME NEW y \in Fits(q, n) PROVE x >= y
    <3>1. d <= Len(q) - y
      BY <2>2
    <3> QED BY <1>1, <1>2, <2>3, <3>1
  <2> QED BY <2>4
<1>5. Min(Fits(q, n)) \in Fits(q, n)
  BY <1>3 DEF Min
<1>6. Max(Fits(q, n)) \in Fits(q, n)
  BY <1>4 DEF Max
<1> QED BY <1>2, <1>5, <1>6

LEMMA HeapTypedInit == MemInit => HeapTyped
<1> SUFFICES ASSUME MemInit PROVE HeapTyped
  OBVIOUS
<1> DEFINE b1 == Block(end, Wrap(HOLESTART - end - 1))
           b2 == Block(HOLEEND, PT_START - HOLEEND - NULLSTK - 1)
<1>1. DOMAIN list = Lists /\ list["mem"] = <<b1, b2>> /\ heap = {} /\ stacks = {} /\ spent = 0
  BY DEF MemInit, Lists
<1>2. /\ Wrap(HOLESTART - end - 1) \in 0..(WORD - 1) /\ end \in 0..(WORD - 1)
      /\ HOLEEND \in 0..(WORD - 1) /\ PT_START - HOLEEND - NULLSTK - 1 \in 0..(WORD - 1)
  BY Layout DEF Wrap
<1>3. b1 \in WordBlock /\ b2 \in WordBlock
  BY <1>2 DEF Block, WordBlock
<1> HIDE DEF b1, b2
<1> QED BY <1>1, <1>3, Layout DEF HeapTyped

LEMMA AllocationTyped ==
  ASSUME HeapTyped, NEW n \in Nat, n > 0, Fits(list["mem"], n) # {}
  PROVE  LET q    == list["mem"]
             low  == Min(Fits(q, n))
             high == Max(Fits(q, n))
         IN  /\ n \in 1..(WORD - 1)
             /\ TakeLow(q, low, n) \in Seq(WordBlock) /\ q[low].addr \in 0..(WORD - 1)
             /\ TakeHigh(q, high, n) \in Seq(WordBlock)
             /\ Wrap(q[high].addr + q[high].len - n) \in 0..(WORD - 1)
<1> DEFINE q    == list["mem"]
           low  == Min(Fits(q, n))
           high == Max(Fits(q, n))
<1>2. q \in Seq(WordBlock)
  BY DEF HeapTyped
<1>3. Fits(q, n) # {}
  OBVIOUS
<1> HIDE DEF q
<1>4. /\ low \in 1..Len(q) /\ n <= q[low].len
      /\ high \in 1..Len(q) /\ n <= q[high].len
  BY <1>2, <1>3, FitsTyped
<1> HIDE DEF low, high
<1>1. n \in 1..(WORD - 1)
  BY <1>2, <1>4, Layout, WordBlocks
<1>5. q[low].addr \in 0..(WORD - 1)
  BY <1>2, <1>4, WordBlocks
<1>6. /\ TakeLow(q, low, n) \in Seq(WordBlock) /\ TakeHigh(q, high, n) \in Seq(WordBlock)
  BY <1>1, <1>2, <1>4, Layout, TakenTyped
<1>7. Wrap(q[high].addr + q[high].len - n) \in 0..(WORD - 1)
  <2>1. q[high].addr \in 0..(WORD - 1) /\ q[high].len \in 0..(WORD - 1)
    BY <1>2, <1>4, WordBlocks
  <2>2. q[high].len - n \in 0..(WORD - 1)
    BY <1>1, <1>4, <2>1, Layout
  <2>3. q[high].addr + q[high].len - n = q[high].addr + (q[high].len - n)
    BY <1>1, <2>1, Layout
  <2> QED BY <2>1, <2>2, <2>3, WrapTyped
<1> QED BY <1>1, <1>5, <1>6, <1>7 DEF q, low, high

(* What getmem, and mkbufpool that keeps its block, do to the heap. *)
Allots(n) ==
  LET fits == Fits(list["mem"], n) IN
  /\ n > 0 /\ fits # {} /\ spent + n <= MaxSpent
  /\ list' = [list EXCEPT !["mem"] = TakeLow(@, Min(fits), n)]
  /\ heap' = heap \cup {Given(list["mem"][Min(fits)].addr, n, "getmem")}
  /\ spent' = spent + n
  /\ UNCHANGED <<pages, stacks>>

LEMMA GetmemAllots ==
  ASSUME NEW nbytes \in Requests, Getmem(nbytes)
  PROVE  Units(nbytes) \in Nat /\ Allots(Units(nbytes))
<1>1. Units(nbytes) \in Nat
  BY UnitsTyped, Layout
<1> QED BY <1>1 DEF Getmem, Allots

LEMMA AllotsTyped ==
  ASSUME HeapTyped, NEW n \in Nat, Allots(n)
  PROVE  HeapTyped'
<1> DEFINE i == Min(Fits(list["mem"], n))
<1>1. /\ n > 0 /\ Fits(list["mem"], n) # {}
      /\ list' = [list EXCEPT !["mem"] = TakeLow(@, i, n)]
      /\ heap' = heap \cup {Given(list["mem"][i].addr, n, "getmem")}
      /\ spent' = spent + n /\ spent + n <= MaxSpent /\ stacks' = stacks
  BY DEF Allots
<1>2. /\ n \in 1..(WORD - 1) /\ TakeLow(list["mem"], i, n) \in Seq(WordBlock)
      /\ list["mem"][i].addr \in 0..(WORD - 1)
  BY <1>1, AllocationTyped
<1> HIDE DEF i
<1>3. Given(list["mem"][i].addr, n, "getmem") \in
        [addr : 0..(WORD - 1), len : 1..(WORD - 1), by : {"getmem", "getstk"}]
  BY <1>2 DEF Given
<1>4. spent' \in 0..MaxSpent
  BY <1>1, <1>2, Layout, SMTT(30) DEF HeapTyped
<1>5. list'["mem"] = TakeLow(list["mem"], i, n) /\ DOMAIN list' = Lists
  BY <1>1 DEF Lists, HeapTyped
<1> QED BY <1>1, <1>2, <1>3, <1>4, <1>5 DEF HeapTyped

LEMMA HeapTypedNext == HeapTyped /\ [MemNext]_memvars => HeapTyped'
<1> SUFFICES ASSUME HeapTyped, [MemNext]_memvars PROVE HeapTyped'
  OBVIOUS
<1> USE DEF HeapTyped
<1>1. ASSUME NEW l \in Paged, NEW q, list' = [list EXCEPT ![l] = q],
             UNCHANGED <<heap, stacks, spent>>
      PROVE  HeapTyped'
  <2>1. list'["mem"] = list["mem"]
    BY <1>1 DEF Paged, Lists
  <2> QED BY <1>1, <2>1
<1>2. ASSUME NEW nbytes \in Requests, Getmem(nbytes) PROVE HeapTyped'
  BY <1>2, GetmemAllots, AllotsTyped
<1>3. ASSUME NEW nbytes \in Requests, Getstk(nbytes) PROVE HeapTyped'
  <2> DEFINE n   == Units(nbytes)
             i   == Max(Fits(list["mem"], n))
             stk == Given(Wrap(list["mem"][i].addr + list["mem"][i].len - n), n, "getstk")
  <2>1. /\ list' = [list EXCEPT !["mem"] = TakeHigh(@, i, n)]
        /\ heap' = heap \cup {stk} /\ stacks' = stacks \cup {stk}
        /\ spent' = spent + n /\ spent + n <= MaxSpent
    BY <1>3 DEF Getstk
  <2>2. /\ n \in 1..(WORD - 1) /\ TakeHigh(list["mem"], i, n) \in Seq(WordBlock)
        /\ Wrap(list["mem"][i].addr + list["mem"][i].len - n) \in 0..(WORD - 1)
    <3>1. n \in Nat
      BY UnitsTyped, Layout
    <3> QED BY <1>3, <3>1, AllocationTyped DEF Getstk
  <2> HIDE DEF n, i
  <2>3. stk \in [addr : 0..(WORD - 1), len : 1..(WORD - 1), by : {"getmem", "getstk"}]
    BY <2>2 DEF Given
  <2>4. spent' \in 0..MaxSpent
    BY <2>1, <2>2, Layout
  <2>5. list'["mem"] = TakeHigh(list["mem"], i, n) /\ DOMAIN list' = Lists
    BY <2>1 DEF Lists
  <2> HIDE DEF stk
  <2> QED BY <2>1, <2>2, <2>3, <2>4, <2>5
<1>4. ASSUME NEW stk \in stacks, Freestk(stk) PROVE HeapTyped'
  <2>1. /\ list' = [list EXCEPT !["mem"] = Freemem(@, stk)]
        /\ (heap' = heap \/ heap' = heap \ {stk})
        /\ stacks' = stacks \ {stk} /\ spent' = spent
    BY <1>4 DEF Freestk
  <2>2. stk.addr \in 0..(WORD - 1) /\ stk.len \in 0..(WORD - 1)
    BY Layout
  <2>3. /\ Block(stk.addr, stk.len) \in WordBlock
        /\ Block(stk.addr, stk.len).addr = stk.addr /\ Block(stk.addr, stk.len).len = stk.len
    BY <2>2 DEF Block, WordBlock
  <2>4. Released(list["mem"], stk.addr, stk.len) \in Seq(WordBlock)
    BY <2>3, ReleasedTyped
  <2>5. list'["mem"] \in Seq(WordBlock) /\ DOMAIN list' = Lists
    BY <2>1, <2>4 DEF Lists, Freemem
  <2> QED BY <2>1, <2>5
<1>5. CASE \E l \in Paged, nbytes \in PageSizes :
             \/ Getpages(l, nbytes)
             \/ \E a \in Start(l)..Limit(l) : Freepages(l, a, nbytes)
  BY <1>1, <1>5 DEF Getpages, Freepages
<1>6. CASE UNCHANGED memvars
  BY <1>6 DEF memvars
<1> QED BY <1>2, <1>3, <1>4, <1>5, <1>6 DEF MemNext

LEMMA HeapTypes == MemSpec => []HeapTyped
BY HeapTypedInit, HeapTypedNext, PTL DEF MemSpec

LEMMA MemTypeOKIs == PageInv /\ HeapTyped => MemTypeOK
<1> SUFFICES ASSUME PageInv, HeapTyped PROVE MemTypeOK
  OBVIOUS
<1>1. ASSUME NEW l \in Paged
      PROVE  /\ list[l] \in Seq([addr : Start(l)..(Limit(l) - 1), len : 1..(Limit(l) - Start(l))])
             /\ pages[l] \subseteq Start(l)..(Limit(l) - 1)
  <2> DEFINE S == [addr : Start(l)..(Limit(l) - 1), len : 1..(Limit(l) - Start(l))]
             q == list[l]
  <2>1. /\ Start(l) \in Nat /\ Limit(l) \in Nat
    BY PagedLayout
  <2>2. /\ Ordered(q, Start(l), Limit(l))
        /\ Partition(q, pages[l], Start(l), Limit(l))
    BY DEF PageInv, PagesSound
  <2> HIDE DEF q
  <2>3. /\ q \in Seq(BlockSet) /\ Len(q) \in Nat
        /\ \A i \in 1..Len(q) : q[i] \in BlockSet /\ q[i].addr \in Nat /\ q[i].len \in Nat
    BY <2>2, BlocksTyped DEF Ordered
  <2>4. ASSUME NEW i \in 1..Len(q) PROVE q[i] \in S
    <3>1. Within(q[i], Start(l), Limit(l)) /\ q[i].addr \in Nat /\ q[i].len \in Nat
      BY <2>2, <2>3 DEF Ordered
    <3>2. q[i].addr \in Start(l)..(Limit(l) - 1) /\ q[i].len \in 1..(Limit(l) - Start(l))
      BY <2>1, <3>1 DEF Within
    <3> QED BY <2>3, <3>2 DEF BlockSet
  <2> HIDE DEF S
  <2>5. q \in Seq(S)
    BY <2>3, <2>4
  <2> QED BY <2>2, <2>5 DEF Partition, q, S
<1>2. DOMAIN list = Lists /\ DOMAIN pages = Paged
  BY DEF PageInv
<1> QED BY <1>1, <1>2 DEF HeapTyped, MemTypeOK, WordBlock

(* Addresses and lengths never leave a word, and the blocks of page memory *)
(* never leave the part of memory they are for, whatever was asked for.    *)
THEOREM MemoryTyped == MemSpec => []MemTypeOK
BY MemTypeOKIs, PageInvariant, HeapTypes, PTL
-----------------------------------------------------------------------------
(* The inductive invariant of the heap.  While less was asked for than     *)
(* there is, the first block, however long it claims to be, grows from the *)
(* program upwards, the second shrinks from the stack downwards, and       *)
(* neither is used up; what they handed out lies in the two parts so left. *)
StackEnd == PT_START - NULLSTK - 1

LowBlock(g)  == Block(end + g, WORD + HOLESTART - end - 1 - g)
HighBlock(h) == Block(HOLEEND, StackEnd - HOLEEND - h)

InLow(b, g)  == end <= b.addr /\ b.addr + b.len <= end + g
InHigh(b, h) == StackEnd - h <= b.addr /\ b.addr + b.len <= StackEnd

Disjoint(b, c) == b.addr + b.len <= c.addr \/ c.addr + c.len <= b.addr

(* g units went to getmem and h to getstk. *)
HeapSplit(g, h) ==
  /\ list["mem"] = <<LowBlock(g), HighBlock(h)>>
  /\ \A b \in heap : InLow(b, g) \/ InHigh(b, h)

HeapInv ==
  spent < StackEnd - end =>
    /\ \E g \in Nat, h \in Nat : g + h = spent /\ HeapSplit(g, h)
    /\ \A b, c \in heap : b # c => Disjoint(b, c)

LEMMA StackEndTyped == StackEnd \in Nat /\ end < StackEnd /\ StackEnd < PT_START
BY Layout DEF StackEnd

LEMMA HeapInvInit == MemInit => HeapInv
<1> SUFFICES ASSUME MemInit PROVE HeapInv
  OBVIOUS
<1>1. /\ DOMAIN list = Lists /\ heap = {} /\ stacks = {} /\ spent = 0
      /\ list["mem"] = << Block(end, Wrap(HOLESTART - end - 1)),
                          Block(HOLEEND, PT_START - HOLEEND - NULLSTK - 1) >>
  BY DEF MemInit, Lists
<1>2. Wrap(HOLESTART - end - 1) = WORD + HOLESTART - end - 1 - 0
  BY Layout DEF Wrap
<1>3. PT_START - HOLEEND - NULLSTK - 1 = StackEnd - HOLEEND - 0
  BY Layout DEF StackEnd
<1>4. end + 0 = end
  BY Layout
<1>5. HeapSplit(0, 0)
  BY <1>1, <1>2, <1>3, <1>4 DEF HeapSplit, LowBlock, HighBlock
<1> QED BY <1>1, <1>5 DEF HeapInv

(* Both blocks are longer than what is still asked for. *)
LEMMA SplitBlocks ==
  ASSUME NEW g \in Nat, NEW h \in Nat, NEW n \in Nat, 0 < n,
         g + h + n < StackEnd - end
  PROVE  /\ LowBlock(g).addr = end + g /\ LowBlock(g).len \in Nat /\ n < LowBlock(g).len
         /\ HighBlock(h).addr = HOLEEND /\ HighBlock(h).len \in Nat /\ n < HighBlock(h).len
         /\ Fits(<<LowBlock(g), HighBlock(h)>>, n) = {1, 2}
<1>1. LowBlock(g).addr = end + g /\ LowBlock(g).len = WORD + HOLESTART - end - 1 - g
  BY DEF LowBlock, Block
<1>2. HighBlock(h).addr = HOLEEND /\ HighBlock(h).len = StackEnd - HOLEEND - h
  BY DEF HighBlock, Block
<1>3. n < WORD + HOLESTART - end - 1 - g /\ n < StackEnd - HOLEEND - h
  BY Layout, StackEndTyped
<1>4. /\ LowBlock(g).len \in Nat /\ n < LowBlock(g).len
      /\ HighBlock(h).len \in Nat /\ n < HighBlock(h).len
  BY <1>1, <1>2, <1>3, Layout, StackEndTyped
<1> DEFINE q == <<LowBlock(g), HighBlock(h)>>
<1>5. DOMAIN q = {1, 2} /\ q[1] = LowBlock(g) /\ q[2] = HighBlock(h)
  OBVIOUS
<1> HIDE DEF q
<1>6. Fits(q, n) = {1, 2}
  BY <1>4, <1>5 DEF Fits
<1> QED BY <1>1, <1>2, <1>4, <1>6 DEF q

LEMMA MinMaxOfTwo == Min({1, 2}) = 1 /\ Max({1, 2}) = 2
<1>1. \A x \in {1, 2} : (\A y \in {1, 2} : x <= y) => x = 1
  OBVIOUS
<1>2. 1 \in {1, 2} /\ \A y \in {1, 2} : 1 <= y
  OBVIOUS
<1>3. \A x \in {1, 2} : (\A y \in {1, 2} : x >= y) => x = 2
  OBVIOUS
<1>4. 2 \in {1, 2} /\ \A y \in {1, 2} : 2 >= y
  OBVIOUS
<1> QED BY <1>1, <1>2, <1>3, <1>4 DEF Min, Max

LEMMA HeapBlocksTyped ==
  ASSUME HeapTyped, NEW b \in heap
  PROVE  b.addr \in Nat /\ b.len \in Nat /\ 0 < b.len
<1>1. b.addr \in 0..(WORD - 1) /\ b.len \in 1..(WORD - 1)
  BY DEF HeapTyped
<1> QED BY <1>1, Layout

LEMMA AllotsSplit ==
  ASSUME HeapTyped, HeapInv, NEW n \in Nat, Allots(n)
  PROVE  HeapInv'
<1> DEFINE i == Min(Fits(list["mem"], n))
           x == Given(list["mem"][i].addr, n, "getmem")
<1>1. n \in Nat /\ 0 < n
  BY DEF Allots
<1>2. /\ list' = [list EXCEPT !["mem"] = TakeLow(@, i, n)]
      /\ heap' = heap \cup {x} /\ spent' = spent + n /\ spent \in Nat
      /\ DOMAIN list = Lists
  BY Layout DEF Allots, HeapTyped
<1> SUFFICES ASSUME spent' < StackEnd - end
             PROVE  /\ \E g \in Nat, h \in Nat : g + h = spent' /\ HeapSplit(g, h)'
                    /\ \A b, c \in heap' : b # c => Disjoint(b, c)
  BY DEF HeapInv, Disjoint
<1>3. spent < StackEnd - end /\ spent + n < StackEnd - end
  BY <1>1, <1>2, StackEndTyped, Layout
<1>4. PICK g \in Nat, h \in Nat : g + h = spent /\ HeapSplit(g, h)
  BY <1>3 DEF HeapInv
<1>5. \A b, c \in heap : b # c => Disjoint(b, c)
  BY <1>3 DEF HeapInv
<1>6. g + h + n < StackEnd - end
  BY <1>3, <1>4
<1>7. /\ LowBlock(g).addr = end + g /\ LowBlock(g).len \in Nat /\ n < LowBlock(g).len
      /\ Fits(<<LowBlock(g), HighBlock(h)>>, n) = {1, 2}
  BY <1>1, <1>6, SplitBlocks
<1>8. list["mem"] = <<LowBlock(g), HighBlock(h)>> /\ i = 1
  BY <1>4, <1>7, MinMaxOfTwo DEF HeapSplit
<1> HIDE DEF i
<1>9. x.addr = end + g /\ x.len = n /\ end + g \in Nat
  BY <1>7, <1>8, Layout DEF Given
<1>10. TakeLow(list["mem"], i, n) = <<LowBlock(g + n), HighBlock(h)>>
  <2>1. TakeLow(list["mem"], i, n) =
          <<Block(Wrap(LowBlock(g).addr + n), LowBlock(g).len - n), HighBlock(h)>>
    BY <1>1, <1>7, <1>8 DEF TakeLow
  <2>2. Wrap(LowBlock(g).addr + n) = end + (g + n)
    BY <1>1, <1>6, <1>7, Layout, StackEndTyped DEF Wrap
  <2>3. LowBlock(g).len - n = WORD + HOLESTART - end - 1 - (g + n)
    BY <1>1, Layout DEF LowBlock, Block
  <2> QED BY <2>1, <2>2, <2>3 DEF LowBlock
<1> HIDE DEF x
<1>11. list'["mem"] = <<LowBlock(g + n), HighBlock(h)>>
  BY <1>2, <1>10 DEF Lists
<1>12. ASSUME NEW b \in heap PROVE InLow(b, g + n) \/ InHigh(b, h)
  <2>1. InLow(b, g) \/ InHigh(b, h)
    BY <1>4 DEF HeapSplit
  <2>2. b.addr \in Nat /\ b.len \in Nat
    BY HeapBlocksTyped
  <2> QED BY <1>1, <2>1, <2>2, Layout DEF InLow
<1>13. InLow(x, g + n)
  BY <1>1, <1>9, Layout DEF InLow
<1>14. ASSUME NEW b \in heap PROVE Disjoint(b, x) /\ Disjoint(x, b)
  <2>1. InLow(b, g) \/ InHigh(b, h)
    BY <1>4 DEF HeapSplit
  <2>2. b.addr \in Nat /\ b.len \in Nat
    BY HeapBlocksTyped
  <2>3. end + g + n <= StackEnd - h
    BY <1>1, <1>6, StackEndTyped, Layout
  <2> QED BY <1>1, <1>9, <2>1, <2>2, <2>3, StackEndTyped, Layout DEF InLow, InHigh, Disjoint
<1>15. \A b, c \in heap' : b # c => Disjoint(b, c)
  BY <1>2, <1>5, <1>14
<1>16. HeapSplit(g + n, h)'
  BY <1>2, <1>11, <1>12, <1>13 DEF HeapSplit, InLow, InHigh, LowBlock, HighBlock, Block, StackEnd
<1>17. g + n \in Nat /\ (g + n) + h = spent'
  BY <1>1, <1>2, <1>4
<1> QED BY <1>15, <1>16, <1>17

LEMMA GetstkSplit ==
  ASSUME HeapTyped, HeapInv, NEW nbytes \in Requests, Getstk(nbytes)
  PROVE  HeapInv'
<1> DEFINE n == Units(nbytes)
           i == Max(Fits(list["mem"], n))
           x == Given(Wrap(list["mem"][i].addr + list["mem"][i].len - n), n, "getstk")
<1>1. n \in Nat /\ 0 < n
  BY UnitsTyped, Layout DEF Getstk
<1>2. /\ list' = [list EXCEPT !["mem"] = TakeHigh(@, i, n)]
      /\ heap' = heap \cup {x} /\ spent' = spent + n /\ spent \in Nat
      /\ DOMAIN list = Lists
  BY Layout DEF Getstk, HeapTyped
<1> HIDE DEF n
<1> SUFFICES ASSUME spent' < StackEnd - end
             PROVE  /\ \E g \in Nat, h \in Nat : g + h = spent' /\ HeapSplit(g, h)'
                    /\ \A b, c \in heap' : b # c => Disjoint(b, c)
  BY DEF HeapInv, Disjoint
<1>3. spent < StackEnd - end /\ spent + n < StackEnd - end
  BY <1>1, <1>2, StackEndTyped, Layout
<1>4. PICK g \in Nat, h \in Nat : g + h = spent /\ HeapSplit(g, h)
  BY <1>3 DEF HeapInv
<1>5. \A b, c \in heap : b # c => Disjoint(b, c)
  BY <1>3 DEF HeapInv
<1>6. g + h + n < StackEnd - end
  BY <1>3, <1>4
<1>7. /\ HighBlock(h).addr = HOLEEND /\ HighBlock(h).len \in Nat /\ n < HighBlock(h).len
      /\ Fits(<<LowBlock(g), HighBlock(h)>>, n) = {1, 2}
  BY <1>1, <1>6, SplitBlocks
<1>8. list["mem"] = <<LowBlock(g), HighBlock(h)>> /\ i = 2
  BY <1>4, <1>7, MinMaxOfTwo DEF HeapSplit
<1> HIDE DEF i
<1>9. HighBlock(h).len = StackEnd - HOLEEND - h
  BY DEF HighBlock, Block
<1>10. x.addr = StackEnd - h - n /\ x.len = n /\ StackEnd - h - n \in Nat
  <2>1. HighBlock(h).addr + HighBlock(h).len - n = StackEnd - h - n
    BY <1>1, <1>7, <1>9, Layout, StackEndTyped
  <2>2. StackEnd - h - n \in 0..(WORD - 1)
    BY <1>1, <1>6, Layout, StackEndTyped
  <2>3. Wrap(StackEnd - h - n) = StackEnd - h - n
    BY <2>2, Layout DEF Wrap
  <2>4. list["mem"][i] = HighBlock(h)
    BY <1>8
  <2>5. x = Given(StackEnd - h - n, n, "getstk")
    BY <2>1, <2>3, <2>4
  <2> QED BY <2>2, <2>5, Layout DEF Given
<1>11. TakeHigh(list["mem"], i, n) = <<LowBlock(g), HighBlock(h + n)>>
  <2>1. TakeHigh(list["mem"], i, n) =
          <<LowBlock(g), Block(HighBlock(h).addr, HighBlock(h).len - n)>>
    BY <1>1, <1>7, <1>8 DEF TakeHigh
  <2>2. HighBlock(h).len - n = StackEnd - HOLEEND - (h + n)
    BY <1>1, <1>9, StackEndTyped, Layout
  <2> QED BY <1>7, <2>1, <2>2 DEF HighBlock
<1> HIDE DEF x
<1>12. list'["mem"] = <<LowBlock(g), HighBlock(h + n)>>
  BY <1>2, <1>11 DEF Lists
<1>13. ASSUME NEW b \in heap PROVE InLow(b, g) \/ InHigh(b, h + n)
  <2>1. InLow(b, g) \/ InHigh(b, h)
    BY <1>4 DEF HeapSplit
  <2>2. b.addr \in Nat /\ b.len \in Nat
    BY HeapBlocksTyped
  <2> QED BY <1>1, <2>1, <2>2, StackEndTyped DEF InHigh
<1>14. InHigh(x, h + n)
  BY <1>1, <1>10, StackEndTyped DEF InHigh
<1>15. ASSUME NEW b \in heap PROVE Disjoint(b, x) /\ Disjoint(x, b)
  <2>1. InLow(b, g) \/ InHigh(b, h)
    BY <1>4 DEF HeapSplit
  <2>2. b.addr \in Nat /\ b.len \in Nat
    BY HeapBlocksTyped
  <2>3. end + g <= StackEnd - h - n
    BY <1>1, <1>6, StackEndTyped, Layout
  <2> QED BY <1>1, <1>10, <2>1, <2>2, <2>3, StackEndTyped, Layout DEF InLow, InHigh, Disjoint
<1>16. \A b, c \in heap' : b # c => Disjoint(b, c)
  BY <1>2, <1>5, <1>15
<1>17. HeapSplit(g, h + n)'
  BY <1>2, <1>12, <1>13, <1>14 DEF HeapSplit, InLow, InHigh, LowBlock, HighBlock, Block, StackEnd
<1>18. h + n \in Nat /\ g + (h + n) = spent'
  BY <1>1, <1>2, <1>4
<1> QED BY <1>16, <1>17, <1>18

(* While the heap is split so, freemem refuses every stack. *)
LEMMA FreestkRefused ==
  ASSUME HeapTyped, HeapInv, spent < StackEnd - end, NEW stk \in stacks, Freestk(stk)
  PROVE  list'["mem"] = list["mem"] /\ heap' = heap
<1>1. PICK g \in Nat, h \in Nat : g + h = spent /\ HeapSplit(g, h)
  BY DEF HeapInv
<1>2. stk \in heap /\ DOMAIN list = Lists
  BY DEF HeapTyped
<1>3. InLow(stk, g) \/ InHigh(stk, h)
  BY <1>1, <1>2 DEF HeapSplit
<1>4. stk.addr \in Nat /\ stk.len \in Nat /\ 0 < stk.len
  BY <1>2, HeapBlocksTyped
<1>5. stk.addr < PT_START
  <2>1. g <= spent /\ spent \in Nat
    BY <1>1
  <2>2. CASE InLow(stk, g)
    BY <1>4, <2>1, <2>2, StackEndTyped, Layout DEF InLow
  <2>3. CASE InHigh(stk, h)
    BY <1>4, <2>3, StackEndTyped, Layout DEF InHigh
  <2> QED BY <1>3, <2>2, <2>3
<1>6. Refused(list["mem"], stk)
  BY <1>4, <1>5, Layout DEF Refused, minheap
<1> QED BY <1>2, <1>6 DEF Freestk, Freemem, Lists

LEMMA HeapInvNext == HeapTyped /\ HeapInv /\ [MemNext]_memvars => HeapInv'
<1> SUFFICES ASSUME HeapTyped, HeapInv, [MemNext]_memvars PROVE HeapInv'
  OBVIOUS
<1>1. ASSUME list'["mem"] = list["mem"], heap' = heap, spent' = spent PROVE HeapInv'
  BY <1>1 DEF HeapInv, HeapSplit, InLow, InHigh, Disjoint, LowBlock, HighBlock, Block, StackEnd
<1>2. ASSUME NEW stk \in stacks, Freestk(stk) PROVE HeapInv'
  <2>1. spent' = spent
    BY <1>2 DEF Freestk
  <2>2. CASE spent < StackEnd - end
    BY <1>1, <1>2, <2>1, <2>2, FreestkRefused
  <2>3. CASE ~(spent < StackEnd - end)
    BY <2>1, <2>3 DEF HeapInv, StackEnd
  <2> QED BY <2>2, <2>3
<1>3. CASE \E nbytes \in Requests : Getmem(nbytes) \/ Getstk(nbytes)
  BY <1>3, GetmemAllots, AllotsSplit, GetstkSplit
<1>4. CASE \E l \in Paged, nbytes \in PageSizes :
             \/ Getpages(l, nbytes)
             \/ \E a \in Start(l)..Limit(l) : Freepages(l, a, nbytes)
  <2>1. PICK l \in Paged : /\ \E q : list' = [list EXCEPT ![l] = q]
                           /\ UNCHANGED <<heap, spent>>
    BY <1>4 DEF Getpages, Freepages
  <2>2. list'["mem"] = list["mem"]
    BY <2>1 DEF Paged, HeapTyped, Lists
  <2> QED BY <1>1, <2>1, <2>2
<1>5. CASE UNCHANGED memvars
  BY <1>1, <1>5 DEF memvars
<1> QED BY <1>2, <1>3, <1>4, <1>5 DEF MemNext

LEMMA ApartUntilSpentIs == HeapInv /\ HeapTyped /\ PageInv => ApartUntilSpent
<1> SUFFICES ASSUME HeapInv, HeapTyped, PageInv, spent < StackEnd - end
             PROVE  AllocationsApart
  BY DEF ApartUntilSpent, StackEnd
<1>1. PICK g \in Nat, h \in Nat : g + h = spent /\ HeapSplit(g, h)
  BY DEF HeapInv
<1>2. ASSUME NEW b \in heap, NEW c \in heap, b # c PROVE Span(b) \cap Span(c) = {}
  <2>1. Disjoint(b, c)
    BY <1>2 DEF HeapInv
  <2>2. b.addr \in Nat /\ b.len \in Nat /\ c.addr \in Nat /\ c.len \in Nat
    BY HeapBlocksTyped
  <2> QED BY <2>1, <2>2 DEF Disjoint, Span
<1>3. ASSUME NEW b \in heap
      PROVE  /\ b.addr \in Nat /\ b.len \in Nat
             /\ end <= b.addr /\ b.addr + b.len <= StackEnd
             /\ b.addr + b.len <= end + g \/ end + g < b.addr
  <2>1. b.addr \in Nat /\ b.len \in Nat /\ 0 < b.len
    BY HeapBlocksTyped
  <2>2. CASE InLow(b, g)
    BY <1>1, <2>1, <2>2, StackEndTyped, Layout DEF InLow
  <2>3. CASE InHigh(b, h)
    BY <1>1, <2>1, <2>3, StackEndTyped, Layout DEF InHigh
  <2> QED BY <1>1, <2>2, <2>3 DEF HeapSplit
<1>4. ASSUME NEW b \in heap PROVE Span(b) \subseteq end..(PT_START - 1)
  BY <1>3, StackEndTyped, Layout DEF Span
<1>5. ASSUME NEW b \in heap, NEW l \in Lists, NEW i \in DOMAIN list[l]
      PROVE  list[l][i].addr \notin Span(b)
  <2>1. CASE l = "mem"
    <3>1. list[l][i] = LowBlock(g) \/ list[l][i] = HighBlock(h)
      BY <1>1, <1>5, <2>1 DEF HeapSplit
    <3>2. list[l][i].addr = end + g \/ list[l][i].addr = HOLEEND
      BY <3>1 DEF LowBlock, HighBlock, Block
    <3> QED BY <1>3, <3>2, Layout DEF Span
  <2>2. CASE l \in Paged
    <3>1. /\ list[l] \in Seq(BlockSet)
          /\ \A j \in 1..Len(list[l]) : Within(list[l][j], Start(l), Limit(l))
      BY <2>2 DEF PageInv, PagesSound, Ordered
    <3>2. i \in 1..Len(list[l])
      BY <1>5, <3>1, LenProperties
    <3>3. list[l][i].addr \in Nat /\ Start(l) <= list[l][i].addr
      BY <3>1, <3>2, BlocksTyped DEF Within
    <3> QED BY <1>3, <2>2, <3>3, PagedLayout, StackEndTyped, Layout DEF Span
  <2> QED BY <2>1, <2>2 DEF Lists
<1> QED BY <1>2, <1>4, <1>5 DEF AllocationsApart

(* What getmem and getstk hand out is sound until as much was asked for as *)
(* there is, although the two blocks they take it from overlap.            *)
THEOREM HeapApartUntilSpent == MemSpec => []ApartUntilSpent
<1>1. MemSpec => []HeapInv
  BY HeapInvInit, HeapInvNext, HeapTypes, PTL DEF MemSpec
<1> QED BY <1>1, ApartUntilSpentIs, HeapTypes, PageInvariant, PTL
-----------------------------------------------------------------------------
(* Buffer pools: the tables are well formed, every pool has a semaphore of *)
(* its own, and whoever stands in its queue waits for one of its buffers.  *)
PoolEntry == [sem : Sems, size : Nat, next : Seq(Nat)]

PoolsTyped ==
  /\ buftab \in Seq(PoolEntry)
  /\ taken \subseteq [addr : Nat, pool : Pools]
  /\ awaits \in [Holder -> {0} \cup Pools]
  /\ SemOK(semtab, Holder)

PoolSems ==
  /\ \A k \in Pools : semtab[buftab[k].sem].state = "S_USED"
  /\ \A j, k \in Pools : j # k => buftab[j].sem # buftab[k].sem
  /\ \A s \in Sems : \A p \in ToSet(semtab[s].queue) :
       awaits[p] # 0 /\ buftab[awaits[p]].sem = s

PoolsInv == PoolsTyped /\ PoolSems /\ BufferForEach

Promises(k) == {p \in Holder : awaits[p] = k /\ ~WaitsIn(semtab, p)}

LEMMA PoolsAre ==
  ASSUME PoolsTyped
  PROVE  /\ Len(buftab) \in Nat /\ Pools = 1..Len(buftab) /\ 0 \notin Pools
         /\ \A k \in Pools :
              /\ buftab[k] \in PoolEntry /\ buftab[k].sem \in Sems /\ buftab[k].size \in Nat
              /\ buftab[k].next \in Seq(Nat) /\ Len(buftab[k].next) \in Nat
<1>1. Len(buftab) \in Nat /\ Pools = 1..Len(buftab)
  BY LenProperties DEF PoolsTyped, Pools
<1>2. \A k \in Pools : buftab[k] \in PoolEntry
  BY <1>1, ElementOfSeq DEF PoolsTyped
<1>3. \A k \in Pools : /\ buftab[k].sem \in Sems /\ buftab[k].size \in Nat
                       /\ buftab[k].next \in Seq(Nat)
  BY <1>2 DEF PoolEntry
<1> QED BY <1>1, <1>2, <1>3, LenProperties

LEMMA PromisedType ==
  ASSUME NEW k
  PROVE  /\ IsFiniteSet(Promises(k)) /\ Promised(k) = Cardinality(Promises(k))
         /\ Promised(k) \in Nat
<1>1. IsFiniteSet(Promises(k))
  BY BufferAssumption, FS_Subset DEF Promises
<1>2. Promised(k) = Cardinality(Promises(k))
  BY DEF Promised, Promises, InQueue
<1> QED BY <1>1, <1>2, FS_CardinalityType

LEMMA PromisedNextType ==
  ASSUME NEW k
  PROVE  /\ IsFiniteSet(Promises(k)') /\ Promised(k)' = Cardinality(Promises(k)')
         /\ Promised(k)' \in Nat
<1>1. IsFiniteSet(Promises(k)')
  BY BufferAssumption, FS_Subset DEF Promises
<1>2. Promised(k)' = Cardinality(Promises(k)')
  BY DEF Promised, Promises, InQueue
<1> QED BY <1>1, <1>2, FS_CardinalityType

(* A promise kept, made or withdrawn moves the count by one. *)
LEMMA PromisesMove ==
  ASSUME NEW k, NEW p
  PROVE  /\ Promises(k)' \subseteq Promises(k) => Promised(k)' <= Promised(k)
         /\ p \in Promises(k) /\ Promises(k)' = Promises(k) \ {p}
              => Promised(k)' + 1 = Promised(k)
         /\ Promises(k)' \subseteq Promises(k) \cup {p} => Promised(k)' <= Promised(k) + 1
<1>1. /\ IsFiniteSet(Promises(k)) /\ Promised(k) = Cardinality(Promises(k))
      /\ Promised(k) \in Nat
  BY PromisedType
<1>2. /\ Promised(k)' = Cardinality(Promises(k)') /\ Promised(k)' \in Nat
  BY PromisedNextType
<1>3. ASSUME Promises(k)' \subseteq Promises(k) PROVE Promised(k)' <= Promised(k)
  BY <1>1, <1>2, <1>3, FS_Subset
<1>4. ASSUME p \in Promises(k), Promises(k)' = Promises(k) \ {p}
      PROVE  Promised(k)' + 1 = Promised(k)
  <2>1. Cardinality(Promises(k) \ {p}) = Cardinality(Promises(k)) - 1
    BY <1>1, <1>4, FS_RemoveElement
  <2> QED BY <1>1, <1>2, <1>4, <2>1
<1>5. ASSUME Promises(k)' \subseteq Promises(k) \cup {p} PROVE Promised(k)' <= Promised(k) + 1
  <2>1. /\ IsFiniteSet(Promises(k) \cup {p})
        /\ Cardinality(Promises(k) \cup {p}) =
             IF p \in Promises(k) THEN Cardinality(Promises(k)) ELSE Cardinality(Promises(k)) + 1
    BY <1>1, FS_AddElement
  <2>2. Cardinality(Promises(k)') <= Cardinality(Promises(k) \cup {p})
    BY <1>5, <2>1, FS_Subset
  <2> QED BY <1>1, <1>2, <2>1, <2>2
<1> QED BY <1>3, <1>4, <1>5

LEMMA LeftIs ==
  ASSUME NEW tab, NEW s, tab[s].count \in Int
  PROVE  /\ Left(tab, s) \in Nat
         /\ tab[s].count > 0 => Left(tab, s) = tab[s].count
         /\ tab[s].count <= 0 => Left(tab, s) = 0
BY DEF Left

LEMMA SemEntries ==
  ASSUME NEW U, NEW tab, SemOK(tab, U), NEW s \in Sems
  PROVE  /\ tab[s].count \in Int /\ tab[s].queue \in Seq(U) /\ ToSet(tab[s].queue) \subseteq U
         /\ tab[s].count >= 0 => ToSet(tab[s].queue) = {}
<1>1. tab[s] \in SemEntry(U) /\ EntryOK(tab[s])
  BY DEF SemOK
<1>2. tab[s].count \in Int /\ tab[s].queue \in Seq(U)
  BY <1>1 DEF SemEntry
<1>3. ToSet(tab[s].queue) \subseteq U
  BY <1>2, ElementOfSeq, LenProperties DEF ToSet
<1>4. tab[s].count >= 0 => ToSet(tab[s].queue) = {}
  BY <1>1, NoneWaits DEF EntryOK
<1> QED BY <1>2, <1>3, <1>4

(* The head of a list goes to taken, and a buffer comes back. *)
LEMMA UnlinkKeeps ==
  ASSUME PoolsTyped, NEW k \in Pools, Len(buftab[k].next) > 0, Unlink(k)
  PROVE  /\ buftab' \in Seq(PoolEntry) /\ Pools' = Pools
         /\ taken' \subseteq [addr : Nat, pool : Pools]
         /\ \A j \in Pools : /\ buftab'[j].sem = buftab[j].sem /\ buftab'[j].size = buftab[j].size
                             /\ j # k => buftab'[j] = buftab[j]
         /\ buftab'[k].next = Tail(buftab[k].next)
         /\ Len(buftab'[k].next) + 1 = Len(buftab[k].next)
<1>1. /\ Len(buftab) \in Nat /\ Pools = 1..Len(buftab)
      /\ buftab[k] \in PoolEntry /\ buftab[k].next \in Seq(Nat) /\ Len(buftab[k].next) \in Nat
  BY PoolsAre
<1>2. buftab[k].next # <<>>
  OBVIOUS
<1>3. /\ Tail(buftab[k].next) \in Seq(Nat) /\ Head(buftab[k].next) \in Nat
      /\ Len(Tail(buftab[k].next)) + 1 = Len(buftab[k].next)
  BY <1>1, <1>2
<1> DEFINE e == [buftab[k] EXCEPT !.next = Tail(@)]
<1>4. /\ e \in PoolEntry /\ e.sem = buftab[k].sem /\ e.size = buftab[k].size
      /\ e.next = Tail(buftab[k].next)
  BY <1>1, <1>3 DEF PoolEntry
<1>5. buftab' = [buftab EXCEPT ![k] = e]
  BY DEF Unlink
<1> HIDE DEF e
<1>6. /\ buftab' \in Seq(PoolEntry) /\ DOMAIN buftab' = DOMAIN buftab /\ buftab'[k] = e
      /\ \A j \in Pools : j # k => buftab'[j] = buftab[j]
  BY <1>1, <1>4, <1>5 DEF PoolsTyped
<1>7. taken' \subseteq [addr : Nat, pool : Pools]
  BY <1>3 DEF Unlink, PoolsTyped
<1> QED BY <1>3, <1>4, <1>6, <1>7 DEF Pools

SameWaiters == \A s \in Sems : ToSet(semtab'[s].queue) = ToSet(semtab[s].queue)

LEMMA WaitersSame ==
  ASSUME SameWaiters
  PROVE  \A p : WaitsIn(semtab, p)' <=> WaitsIn(semtab, p)
BY DEF SameWaiters, WaitsIn

(* A process waits in the queue of its pool's semaphore or in none. *)
LEMMA WaitersAre ==
  ASSUME PoolsInv, NEW p \in Holder
  PROVE  /\ WaitsIn(semtab, p) => /\ awaits[p] \in Pools
                                  /\ p \in ToSet(semtab[buftab[awaits[p]].sem].queue)
         /\ \A k \in Pools : p \in ToSet(semtab[buftab[k].sem].queue) => awaits[p] = k
<1>1. awaits[p] \in {0} \cup Pools
  BY DEF PoolsInv, PoolsTyped
<1>2. \A s \in Sems : p \in ToSet(semtab[s].queue) => awaits[p] \in Pools /\ buftab[awaits[p]].sem = s
  BY <1>1 DEF PoolsInv, PoolSems
<1>3. \A k \in Pools : buftab[k].sem \in Sems
  BY PoolsAre DEF PoolsInv
<1>4. \A j, k \in Pools : j # k => buftab[j].sem # buftab[k].sem
  BY DEF PoolsInv, PoolSems
<1> QED BY <1>2, <1>3, <1>4 DEF WaitsIn

LEMMA RoomIn ==
  ASSUME PoolsInv, NEW k \in Pools
  PROVE  /\ semtab[buftab[k].sem].count \in Int /\ Left(semtab, buftab[k].sem) \in Nat
         /\ Left(semtab, buftab[k].sem) + Promised(k) <= Len(buftab[k].next)
<1>1. buftab[k].sem \in Sems
  BY PoolsAre DEF PoolsInv
<1>2. semtab[buftab[k].sem].count \in Int
  BY <1>1, SemEntries DEF PoolsInv, PoolsTyped
<1> QED BY <1>2, LeftIs DEF PoolsInv, BufferForEach

LEMMA GetbufNow ==
  ASSUME PoolsInv, NEW p \in Holder, NEW k \in Pools, Getbuf(p, k),
         semtab[buftab[k].sem].count > 0
  PROVE  PoolsInv'
<1> DEFINE s == buftab[k].sem
<1>1. /\ s \in Sems /\ semtab[s].count > 0 /\ semtab[s].count \in Int
      /\ Left(semtab, s) + Promised(k) <= Len(buftab[k].next) /\ Len(buftab[k].next) \in Nat
  BY RoomIn, PoolsAre DEF PoolsInv
<1>2. semtab' = Waited(semtab, s) /\ Unlink(k) /\ awaits' = awaits
  BY DEF Getbuf
<1>3. SemOK(semtab, Holder)
  BY DEF PoolsInv, PoolsTyped
<1> HIDE DEF s
<1>4. /\ SemOK(semtab', Holder) /\ OtherSems(semtab, semtab', s)
      /\ semtab'[s].count = semtab[s].count - 1 /\ semtab'[s].state = semtab[s].state
      /\ semtab'[s].queue = semtab[s].queue
  BY <1>1, <1>2, <1>3, WaitedOK
<1>5. SameWaiters
  BY <1>4 DEF SameWaiters, OtherSems
<1>6. Left(semtab, s) = semtab[s].count /\ Len(buftab[k].next) > 0
  BY <1>1, LeftIs, PromisedType
<1>7. /\ buftab' \in Seq(PoolEntry) /\ Pools' = Pools
      /\ taken' \subseteq [addr : Nat, pool : Pools]
      /\ \A j \in Pools : /\ buftab'[j].sem = buftab[j].sem /\ buftab'[j].size = buftab[j].size
                          /\ j # k => buftab'[j] = buftab[j]
      /\ Len(buftab'[k].next) + 1 = Len(buftab[k].next)
  BY <1>2, <1>6, UnlinkKeeps DEF PoolsInv
<1>8. PoolsTyped'
  BY <1>2, <1>4, <1>7 DEF PoolsInv, PoolsTyped
<1>9. PoolSems'
  <2>1. \A j \in Pools' : semtab'[buftab'[j].sem].state = "S_USED"
    BY <1>4, <1>7, PoolsAre DEF PoolsInv, PoolSems, OtherSems
  <2>2. \A r \in Sems : \A x \in ToSet(semtab'[r].queue) :
          awaits'[x] # 0 /\ buftab'[awaits'[x]].sem = r
    <3> SUFFICES ASSUME NEW r \in Sems, NEW x \in ToSet(semtab'[r].queue)
                 PROVE  awaits'[x] # 0 /\ buftab'[awaits'[x]].sem = r
      OBVIOUS
    <3>1. x \in ToSet(semtab[r].queue)
      BY <1>5 DEF SameWaiters
    <3>2. x \in Holder
      BY <1>3, <3>1, SemEntries
    <3>3. awaits[x] \in Pools /\ buftab[awaits[x]].sem = r
      BY <3>1, <3>2 DEF PoolsInv, PoolSems, PoolsTyped
    <3> QED BY <1>2, <1>7, <3>3, PoolsAre DEF PoolsInv
  <2> QED BY <1>7, <2>1, <2>2 DEF PoolsInv, PoolSems
<1>10. BufferForEach'
  <2> SUFFICES ASSUME NEW j \in Pools
               PROVE  Left(semtab, buftab[j].sem)' + Promised(j)' <= Len(buftab'[j].next)
    BY <1>7 DEF BufferForEach
  <2>1. Promises(j)' \subseteq Promises(j)
    BY <1>2, <1>5, WaitersSame DEF Promises
  <2>2. Promised(j)' <= Promised(j) /\ Promised(j)' \in Nat /\ Promised(j) \in Nat
    BY <2>1, PromisesMove, PromisedType, PromisedNextType
  <2>3. CASE j = k
    <3>1. Left(semtab', s) = semtab[s].count - 1
      BY <1>1, <1>4, LeftIs
    <3>2. Left(semtab, buftab[j].sem)' = semtab[s].count - 1
      BY <1>7, <2>3, <3>1 DEF s, Left
    <3>3. PICK new \in Nat, old \in Nat : /\ new = Len(buftab'[j].next) /\ new + 1 = old
                                         /\ old = Len(buftab[j].next)
      <4>1. j \in DOMAIN buftab' /\ buftab' \in Seq(PoolEntry)
        BY <1>7 DEF Pools
      <4>2. buftab'[j] \in PoolEntry
        BY ONLY <4>1
      <4>3. Len(buftab'[j].next) \in Nat
        BY ONLY <4>2 DEF PoolEntry
      <4>4. Len(buftab'[j].next) + 1 = Len(buftab[j].next) /\ Len(buftab[j].next) \in Nat
        BY <1>1, <1>7, <2>3
      <4> QED BY ONLY <4>3, <4>4
    <3>4. PICK count \in Int : count = semtab[s].count
      BY <1>1
    <3>5. PICK less \in Nat, more \in Nat : less = Promised(j)' /\ more = Promised(j) /\ less <= more
      BY <2>2
    <3>6. count + more <= old
      BY <1>1, <1>6, <2>3, <3>3, <3>4, <3>5
    <3>7. new = old - 1 /\ less <= more
      BY <3>3, <3>5
    <3>8. (count - 1) + less <= new
      BY <3>6, <3>7
    <3> QED BY <3>2, <3>3, <3>4, <3>5, <3>8
  <2>4. CASE j # k
    <3>1. buftab[j].sem # s /\ buftab[j].sem \in Sems
      BY <2>4, PoolsAre DEF PoolsInv, PoolSems, s
    <3>2. Left(semtab, buftab[j].sem)' = Left(semtab, buftab[j].sem)
      BY <1>4, <1>7, <3>1 DEF Left, OtherSems
    <3>3. /\ Left(semtab, buftab[j].sem) \in Nat /\ Len(buftab[j].next) \in Nat
          /\ Left(semtab, buftab[j].sem) + Promised(j) <= Len(buftab[j].next)
      BY RoomIn, PoolsAre DEF PoolsInv
    <3> QED BY <1>7, <2>2, <2>4, <3>2, <3>3
  <2> QED BY <2>3, <2>4
<1> QED BY <1>8, <1>9, <1>10 DEF PoolsInv

(* What a step keeps that makes no pool. *)
LEMMA PoolsStep ==
  ASSUME PoolsInv, SemOK(semtab', Holder), buftab' \in Seq(PoolEntry), Pools' = Pools,
         \A k \in Pools : buftab'[k].sem = buftab[k].sem,
         taken' \subseteq [addr : Nat, pool : Pools],
         awaits' \in [Holder -> {0} \cup Pools],
         \A s \in Sems : semtab'[s].state = semtab[s].state,
         \A p \in Holder : \A k \in Pools :
           p \in ToSet(semtab'[buftab[k].sem].queue) => awaits'[p] = k,
         \A s \in Sems : \A p \in ToSet(semtab'[s].queue) : \E k \in Pools : buftab[k].sem = s
  PROVE  PoolsTyped' /\ PoolSems'
<1>1. PoolsTyped'
  BY DEF PoolsTyped
<1>2. \A j \in Pools' : semtab'[buftab'[j].sem].state = "S_USED"
  BY PoolsAre DEF PoolsInv, PoolSems
<1>3. ASSUME NEW s \in Sems, NEW p \in ToSet(semtab'[s].queue)
      PROVE  awaits'[p] # 0 /\ buftab'[awaits'[p]].sem = s
  <2>1. PICK k \in Pools : buftab[k].sem = s
    BY <1>3
  <2>2. p \in Holder
    BY <1>3, SemEntries
  <2>3. awaits'[p] = k
    BY <1>3, <2>1, <2>2
  <2> QED BY <2>1, <2>3, PoolsAre DEF PoolsInv
<1>4. \A j, k \in Pools : j # k => buftab'[j].sem # buftab'[k].sem
  BY DEF PoolsInv, PoolSems
<1> QED BY <1>1, <1>2, <1>3, <1>4 DEF PoolSems

(* Only pools' semaphores have a queue. *)
LEMMA QueuesArePools ==
  ASSUME PoolsInv, NEW s \in Sems, NEW p \in ToSet(semtab[s].queue)
  PROVE  p \in Holder /\ awaits[p] \in Pools /\ buftab[awaits[p]].sem = s
<1>1. p \in Holder
  BY SemEntries DEF PoolsInv, PoolsTyped
<1> QED BY <1>1 DEF PoolsInv, PoolsTyped, PoolSems

LEMMA GetbufWaits ==
  ASSUME PoolsInv, NEW p \in Holder, NEW k \in Pools, Getbuf(p, k),
         ~(semtab[buftab[k].sem].count > 0)
  PROVE  PoolsInv'
<1> DEFINE s == buftab[k].sem
<1>1. /\ s \in Sems /\ semtab[s].count <= 0 /\ semtab[s].count \in Int
      /\ semtab[s].state = "S_USED"
  BY RoomIn, PoolsAre DEF PoolsInv, PoolSems
<1>2. /\ semtab' = Enqueued(semtab, s, p) /\ awaits' = [awaits EXCEPT ![p] = k]
      /\ awaits[p] = 0 /\ UNCHANGED <<buftab, taken>>
  BY DEF Getbuf
<1>3. SemOK(semtab, Holder) /\ awaits \in [Holder -> {0} \cup Pools]
  BY DEF PoolsInv, PoolsTyped
<1>4. ~WaitsIn(semtab, p)
  BY <1>2, WaitersAre, PoolsAre DEF PoolsInv
<1> HIDE DEF s
<1>5. /\ SemOK(semtab', Holder) /\ OtherSems(semtab, semtab', s)
      /\ semtab'[s].count = semtab[s].count - 1 /\ semtab'[s].state = semtab[s].state
      /\ ToSet(semtab'[s].queue) = ToSet(semtab[s].queue) \cup {p}
  <2>1. SemOK(semtab, Holder)
    BY <1>3
  <2>2. /\ SemOK(Enqueued(semtab, s, p), Holder)
        /\ OtherSems(semtab, Enqueued(semtab, s, p), s)
        /\ Enqueued(semtab, s, p)[s].count = semtab[s].count - 1
        /\ Enqueued(semtab, s, p)[s].state = semtab[s].state
        /\ ToSet(Enqueued(semtab, s, p)[s].queue) = ToSet(semtab[s].queue) \cup {p}
    BY ONLY <1>1, <1>4, <2>1, EnqueuedOK
  <2> QED BY ONLY <1>2, <2>2
<1>6. \A j \in Pools : j # k => buftab[j].sem # s /\ buftab[j].sem \in Sems
  BY PoolsAre DEF PoolsInv, PoolSems, s
<1>7. Pools' = Pools /\ buftab' = buftab /\ taken' = taken
  BY <1>2 DEF Pools
<1>8. ASSUME NEW x \in Holder, NEW j \in Pools, x \in ToSet(semtab'[buftab[j].sem].queue)
      PROVE  awaits'[x] = j
  <2>1. CASE j = k
    <3>1. x = p \/ x \in ToSet(semtab[buftab[k].sem].queue)
      BY <1>5, <1>8, <2>1 DEF s
    <3> QED BY <1>2, <1>3, <2>1, <3>1, WaitersAre
  <2>2. CASE j # k
    <3>1. x \in ToSet(semtab[buftab[j].sem].queue)
      BY <1>5, <1>6, <1>8, <2>2 DEF OtherSems
    <3>2. x # p
      BY <1>4, <1>6, <2>2, <3>1 DEF WaitsIn
    <3> QED BY <1>2, <1>3, <3>1, <3>2, WaitersAre
  <2> QED BY <2>1, <2>2
<1>9. ASSUME NEW r \in Sems, NEW x \in ToSet(semtab'[r].queue)
      PROVE  \E j \in Pools : buftab[j].sem = r
  <2>1. CASE r = s
    BY <2>1 DEF s
  <2>2. CASE r # s
    BY <1>5, <1>9, <2>2, QueuesArePools DEF OtherSems
  <2> QED BY <2>1, <2>2
<1>10. PoolsTyped' /\ PoolSems'
  <2>1. \A r \in Sems : semtab'[r].state = semtab[r].state
    BY <1>5 DEF OtherSems
  <2>2. awaits' \in [Holder -> {0} \cup Pools]
    BY <1>2, <1>3
  <2>3. buftab \in Seq(PoolEntry) /\ taken \subseteq [addr : Nat, pool : Pools]
    BY DEF PoolsInv, PoolsTyped
  <2> QED BY <1>5, <1>7, <1>8, <1>9, <2>1, <2>2, <2>3, PoolsStep
<1>11. BufferForEach'
  <2> SUFFICES ASSUME NEW j \in Pools
               PROVE  Left(semtab, buftab[j].sem)' + Promised(j)' <= Len(buftab'[j].next)
    BY <1>7 DEF BufferForEach
  <2>1. Promises(j)' \subseteq Promises(j)
    <3> SUFFICES ASSUME NEW x \in Promises(j)' PROVE x \in Promises(j)
      OBVIOUS
    <3>1. x \in Holder /\ awaits'[x] = j /\ ~WaitsIn(semtab', x)
      BY DEF Promises
    <3>2. x # p
      BY <1>1, <1>5, <3>1 DEF WaitsIn
    <3>3. awaits[x] = j
      BY <1>2, <1>3, <3>1, <3>2
    <3>4. ~WaitsIn(semtab, x)
      BY <1>1, <1>5, <3>1 DEF WaitsIn, OtherSems
    <3> QED BY <3>1, <3>3, <3>4 DEF Promises
  <2>2. Promised(j)' <= Promised(j) /\ Promised(j)' \in Nat /\ Promised(j) \in Nat
    BY <2>1, PromisesMove, PromisedType, PromisedNextType
  <2>3. Left(semtab, buftab[j].sem)' = Left(semtab, buftab[j].sem)
    <3>1. CASE j = k
      <4>1. Left(semtab', s) = 0 /\ Left(semtab, s) = 0
        BY <1>1, <1>5, LeftIs
      <4> QED BY <1>7, <3>1, <4>1 DEF s, Left
    <3>2. CASE j # k
      BY <1>5, <1>6, <1>7, <3>2 DEF Left, OtherSems
    <3> QED BY <3>1, <3>2
  <2>4. /\ Left(semtab, buftab[j].sem) \in Nat /\ Len(buftab[j].next) \in Nat
        /\ Left(semtab, buftab[j].sem) + Promised(j) <= Len(buftab[j].next)
    BY RoomIn, PoolsAre DEF PoolsInv
  <2> QED BY <1>7, <2>2, <2>3, <2>4
<1> QED BY <1>10, <1>11 DEF PoolsInv

LEMMA ResumesPools ==
  ASSUME PoolsInv, NEW p \in Holder, GetbufResumes(p)
  PROVE  PoolsInv'
<1>1. PICK k : k = awaits[p]
  OBVIOUS
<1>2. /\ awaits \in [Holder -> {0} \cup Pools] /\ SemOK(semtab, Holder)
      /\ \A s \in Sems : semtab[s].state \in {"S_FREE", "S_USED"}
  BY DEF PoolsInv, PoolsTyped, SemOK, SemEntry
<1>3. /\ k \in Pools /\ p \in Promises(k) /\ Unlink(k)
      /\ awaits' = [awaits EXCEPT ![p] = 0] /\ semtab' = semtab
  BY <1>1, <1>2 DEF GetbufResumes, Promises, InQueue
<1>4. /\ Left(semtab, buftab[k].sem) \in Nat /\ Len(buftab[k].next) \in Nat
      /\ Left(semtab, buftab[k].sem) + Promised(k) <= Len(buftab[k].next)
  BY <1>3, RoomIn, PoolsAre DEF PoolsInv
<1>5. \A j \in Pools : Promises(j)' = IF j = k THEN Promises(j) \ {p} ELSE Promises(j)
  <2>1. ASSUME NEW j \in Pools, NEW x \in Holder
        PROVE  awaits'[x] = j <=> awaits[x] = j /\ x # p
    <3>1. j # 0 /\ awaits'[x] = IF x = p THEN 0 ELSE awaits[x]
      BY <1>2, <1>3, PoolsAre DEF PoolsInv
    <3> QED BY <3>1
  <2>2. \A x : WaitsIn(semtab', x) <=> WaitsIn(semtab, x)
    BY <1>3
  <2>3. ASSUME NEW j \in Pools, NEW x
        PROVE  x \in Promises(j)' <=> x \in Promises(j) /\ x # p
    BY <2>1, <2>2 DEF Promises
  <2>4. ASSUME NEW j \in Pools, j # k PROVE p \notin Promises(j)
    BY <1>1, <2>4 DEF Promises
  <2> QED BY <2>3, <2>4
<1>6. Promised(k)' + 1 = Promised(k)
  BY <1>3, <1>5, PromisesMove
<1>7. Len(buftab[k].next) > 0
  BY <1>4, <1>6, PromisedType, PromisedNextType
<1>8. /\ buftab' \in Seq(PoolEntry) /\ Pools' = Pools
      /\ taken' \subseteq [addr : Nat, pool : Pools]
      /\ \A j \in Pools : /\ buftab'[j].sem = buftab[j].sem
                          /\ j # k => buftab'[j] = buftab[j]
      /\ Len(buftab'[k].next) + 1 = Len(buftab[k].next)
  BY <1>3, <1>7, UnlinkKeeps DEF PoolsInv
<1>9. PoolsTyped' /\ PoolSems'
  <2>1. awaits' \in [Holder -> {0} \cup Pools]
    BY <1>2, <1>3
  <2>2. ASSUME NEW x \in Holder, NEW j \in Pools, x \in ToSet(semtab'[buftab[j].sem].queue)
        PROVE  awaits'[x] = j
    <3>1. awaits[x] = j /\ WaitsIn(semtab, x)
      BY <1>3, <2>2, WaitersAre, PoolsAre DEF WaitsIn, PoolsInv
    <3>2. x # p
      BY <1>3, <3>1 DEF Promises
    <3> QED BY <1>2, <1>3, <3>1, <3>2
  <2>3. \A s \in Sems : \A x \in ToSet(semtab'[s].queue) : \E j \in Pools : buftab[j].sem = s
    BY <1>3, QueuesArePools
  <2> QED BY <1>2, <1>3, <1>8, <2>1, <2>2, <2>3, PoolsStep
<1>10. BufferForEach'
  <2> SUFFICES ASSUME NEW j \in Pools
               PROVE  Left(semtab, buftab[j].sem)' + Promised(j)' <= Len(buftab'[j].next)
    BY <1>8 DEF BufferForEach
  <2>1. Left(semtab, buftab[j].sem)' = Left(semtab, buftab[j].sem)
    BY <1>3, <1>8 DEF Left
  <2>2. CASE j = k
    BY <1>4, <1>6, <1>7, <1>8, <2>1, <2>2, PromisedType, PromisedNextType
  <2>3. CASE j # k
    <3>1. Promised(j)' <= Promised(j) /\ Promised(j)' \in Nat /\ Promised(j) \in Nat
      BY <1>5, <2>3, PromisesMove, PromisedType, PromisedNextType
    <3>2. /\ Left(semtab, buftab[j].sem) \in Nat /\ Len(buftab[j].next) \in Nat
          /\ Left(semtab, buftab[j].sem) + Promised(j) <= Len(buftab[j].next)
      BY RoomIn, PoolsAre DEF PoolsInv
    <3> QED BY <1>8, <2>1, <2>3, <3>1, <3>2
  <2> QED BY <2>2, <2>3
<1> QED BY <1>9, <1>10 DEF PoolsInv

LEMMA ConsLength ==
  ASSUME NEW S, NEW a \in S, NEW q \in Seq(S)
  PROVE  <<a>> \o q \in Seq(S) /\ Len(<<a>> \o q) = Len(q) + 1
OBVIOUS

LEMMA FreebufPools ==
  ASSUME PoolsInv, NEW b \in taken, Freebuf(b)
  PROVE  PoolsInv'
<1>1. PICK k : k = b.pool
  OBVIOUS
<1>2. PICK s : s = buftab[k].sem
  OBVIOUS
<1>3. /\ taken \subseteq [addr : Nat, pool : Pools] /\ buftab \in Seq(PoolEntry)
      /\ awaits \in [Holder -> {0} \cup Pools]
  BY DEF PoolsInv, PoolsTyped
<1>4. SemOK(semtab, Holder)
  BY DEF PoolsInv, PoolsTyped
<1>5. k \in Pools /\ b.addr \in Nat
  BY <1>1, <1>3
<1>6. /\ s \in Sems /\ s # SYSERR /\ semtab[s].state = "S_USED" /\ semtab[s].count \in Int
      /\ buftab[k] \in PoolEntry /\ buftab[k].next \in Seq(Nat) /\ Len(buftab[k].next) \in Nat
  BY <1>2, <1>5, RoomIn, PoolsAre, SemTableAssumption DEF PoolsInv, PoolSems
<1>7. /\ buftab' = [buftab EXCEPT ![k].next = <<b.addr>> \o @]
      /\ taken' = taken \ {b} /\ awaits' = awaits
      /\ semtab' = Signalled(semtab, s)
  BY <1>1, <1>2 DEF Freebuf
<1>8. /\ SemOK(semtab', Holder) /\ OtherSems(semtab, semtab', s)
      /\ semtab'[s].count = semtab[s].count + 1 /\ semtab'[s].state = semtab[s].state
      /\ semtab[s].count >= 0 => semtab'[s].queue = semtab[s].queue
      /\ semtab[s].count < 0 => \E p \in ToSet(semtab[s].queue) :
                                 ToSet(semtab'[s].queue) = ToSet(semtab[s].queue) \ {p}
  BY <1>4, <1>6, <1>7, SignalledOK
<1>9. /\ buftab' \in Seq(PoolEntry) /\ Pools' = Pools
      /\ \A j \in Pools : /\ buftab'[j].sem = buftab[j].sem
                          /\ j # k => buftab'[j] = buftab[j]
      /\ Len(buftab'[k].next) = Len(buftab[k].next) + 1
  <2> DEFINE r == <<b.addr>> \o buftab[k].next
             e == [buftab[k] EXCEPT !.next = r]
  <2>1. r \in Seq(Nat) /\ Len(r) = Len(buftab[k].next) + 1
    BY <1>5, <1>6, ConsLength
  <2> HIDE DEF r
  <2>2. e \in PoolEntry /\ e.sem = buftab[k].sem /\ e.next = r
    BY <1>6, <2>1 DEF PoolEntry
  <2>3. buftab' = [buftab EXCEPT ![k] = e]
    BY <1>7 DEF r
  <2> HIDE DEF e
  <2>4. /\ buftab' \in Seq(PoolEntry) /\ DOMAIN buftab' = DOMAIN buftab /\ buftab'[k] = e
        /\ \A j \in Pools : j # k => buftab'[j] = buftab[j]
    BY <1>3, <1>5, <2>2, <2>3, PoolsAre DEF PoolsInv
  <2> QED BY <2>1, <2>2, <2>4 DEF Pools
<1>10. \A r \in Sems : ToSet(semtab'[r].queue) \subseteq ToSet(semtab[r].queue)
  <2>1. ToSet(semtab'[s].queue) \subseteq ToSet(semtab[s].queue)
    BY <1>6, <1>8
  <2> QED BY <1>8, <2>1 DEF OtherSems
<1>11. PoolsTyped' /\ PoolSems'
  <2>1. ASSUME NEW x \in Holder, NEW j \in Pools, x \in ToSet(semtab'[buftab[j].sem].queue)
        PROVE  awaits'[x] = j
    <3>1. x \in ToSet(semtab[buftab[j].sem].queue)
      BY <1>10, <2>1, PoolsAre DEF PoolsInv
    <3> QED BY <1>7, <3>1, WaitersAre
  <2>2. \A r \in Sems : \A x \in ToSet(semtab'[r].queue) : \E j \in Pools : buftab[j].sem = r
    BY <1>10, QueuesArePools
  <2>3. \A r \in Sems : semtab'[r].state = semtab[r].state
    BY <1>8 DEF OtherSems
  <2>4. taken' \subseteq [addr : Nat, pool : Pools] /\ awaits' \in [Holder -> {0} \cup Pools]
    BY <1>3, <1>7
  <2> QED BY <1>8, <1>9, <2>1, <2>2, <2>3, <2>4, PoolsStep
<1>12. BufferForEach'
  <2> SUFFICES ASSUME NEW j \in Pools
               PROVE  Left(semtab, buftab[j].sem)' + Promised(j)' <= Len(buftab'[j].next)
    BY <1>9 DEF BufferForEach
  <2>0. /\ Left(semtab, buftab[j].sem) \in Nat /\ Len(buftab[j].next) \in Nat
        /\ Left(semtab, buftab[j].sem) + Promised(j) <= Len(buftab[j].next)
        /\ Promised(j)' \in Nat /\ Promised(j) \in Nat
    BY RoomIn, PoolsAre, PromisedType, PromisedNextType DEF PoolsInv
  <2>1. CASE j # k
    <3>1. buftab[j].sem # s /\ buftab[j].sem \in Sems
      BY <1>2, <1>5, <2>1, PoolsAre DEF PoolsInv, PoolSems
    <3>2. Left(semtab, buftab[j].sem)' = Left(semtab, buftab[j].sem)
      BY <1>8, <1>9, <3>1 DEF Left, OtherSems
    <3>3. Promises(j)' \subseteq Promises(j)
      <4> SUFFICES ASSUME NEW x \in Promises(j)' PROVE x \in Promises(j)
        OBVIOUS
      <4>1. x \in Holder /\ awaits[x] = j /\ ~WaitsIn(semtab', x)
        BY <1>7 DEF Promises
      <4>2. ~WaitsIn(semtab, x)
        <5>1. x \notin ToSet(semtab[buftab[j].sem].queue)
          BY <1>8, <3>1, <4>1 DEF WaitsIn, OtherSems
        <5> QED BY <4>1, <5>1, WaitersAre
      <4> QED BY <4>1, <4>2 DEF Promises
    <3>4. Promised(j)' <= Promised(j)
      BY <3>3, PromisesMove
    <3> QED BY <1>9, <2>0, <2>1, <3>2, <3>4
  <2>2. CASE j = k /\ semtab[s].count >= 0
    <3>1. \A r \in Sems : semtab'[r].queue = semtab[r].queue
      BY <1>8, <2>2 DEF OtherSems
    <3>2. Promises(j)' = Promises(j)
      BY <1>7, <3>1 DEF Promises, WaitsIn
    <3>3. Promised(j)' <= Promised(j)
      BY <3>2, PromisesMove
    <3>4. Left(semtab, buftab[j].sem)' <= Left(semtab, buftab[j].sem) + 1
      <4>1. /\ Left(semtab', s) = semtab[s].count + 1
            /\ semtab[s].count > 0 => Left(semtab, s) = semtab[s].count
            /\ semtab[s].count <= 0 => Left(semtab, s) = 0
        BY <1>6, <1>8, <2>2, LeftIs
      <4>2. Left(semtab', s) <= Left(semtab, s) + 1
        BY <1>6, <2>2, <4>1
      <4> QED BY <1>2, <1>9, <2>2, <4>2 DEF Left
    <3>5. Left(semtab, buftab[j].sem)' \in Nat
      <4>1. Left(semtab', s) \in Nat
        BY <1>6, <1>8, LeftIs
      <4> QED BY <1>2, <1>9, <2>2, <4>1 DEF Left
    <3> QED BY <1>9, <2>0, <2>2, <3>3, <3>4, <3>5
  <2>3. CASE j = k /\ semtab[s].count < 0
    <3>1. PICK p \in ToSet(semtab[s].queue) :
            ToSet(semtab'[s].queue) = ToSet(semtab[s].queue) \ {p}
      BY <1>8, <2>3
    <3>2. Promises(j)' \subseteq Promises(j) \cup {p}
      <4> SUFFICES ASSUME NEW x \in Promises(j)', x # p PROVE x \in Promises(j)
        OBVIOUS
      <4>1. x \in Holder /\ awaits[x] = j /\ ~WaitsIn(semtab', x)
        BY <1>7 DEF Promises
      <4>2. \A r \in Sems : x \in ToSet(semtab[r].queue) => x \in ToSet(semtab'[r].queue)
        BY <1>8, <3>1 DEF OtherSems
      <4> QED BY <4>1, <4>2 DEF Promises, WaitsIn
    <3>3. Promised(j)' <= Promised(j) + 1
      BY <3>2, PromisesMove
    <3>4. Left(semtab', s) = 0
      BY <1>6, <1>8, <2>3, LeftIs
    <3>5. Left(semtab, buftab[j].sem)' = 0
      BY <1>2, <1>9, <2>3, <3>4 DEF Left
    <3> QED BY <1>9, <2>0, <2>3, <3>3, <3>5
  <2> QED BY <1>6, <2>1, <2>2, <2>3
<1> QED BY <1>11, <1>12 DEF PoolsInv

LEMMA KillPools ==
  ASSUME PoolsInv, NEW p \in Holder, KillWaiter(p)
  PROVE  PoolsInv'
<1>1. /\ semtab' = Killed(semtab, p) /\ awaits' = [awaits EXCEPT ![p] = 0]
      /\ buftab' = buftab /\ taken' = taken
  BY DEF KillWaiter
<1>2. SemOK(semtab, Holder)
  BY DEF PoolsInv, PoolsTyped
<1>3. /\ SemOK(semtab', Holder)
      /\ \A s \in Sems :
           /\ semtab'[s].state = semtab[s].state
           /\ ToSet(semtab'[s].queue) = ToSet(semtab[s].queue) \ {p}
           /\ p \notin ToSet(semtab[s].queue) => semtab'[s] = semtab[s]
           /\ p \in ToSet(semtab[s].queue) =>
                semtab[s].count < 0 /\ semtab'[s].count = semtab[s].count + 1
  <2>1. /\ SemOK(Killed(semtab, p), Holder)
        /\ \A s \in Sems :
             /\ Killed(semtab, p)[s].state = semtab[s].state
             /\ ToSet(Killed(semtab, p)[s].queue) = ToSet(semtab[s].queue) \ {p}
             /\ p \notin ToSet(semtab[s].queue) => Killed(semtab, p)[s] = semtab[s]
             /\ p \in ToSet(semtab[s].queue) =>
                  semtab[s].count < 0 /\ Killed(semtab, p)[s].count = semtab[s].count + 1
    BY ONLY <1>2, KilledOK
  <2> QED BY ONLY <1>1, <2>1
<1>4. /\ buftab \in Seq(PoolEntry) /\ taken \subseteq [addr : Nat, pool : Pools]
      /\ awaits \in [Holder -> {0} \cup Pools] /\ Pools' = Pools
  BY <1>1 DEF PoolsInv, PoolsTyped, Pools
<1>5. \A x \in Holder : awaits'[x] = IF x = p THEN 0 ELSE awaits[x]
  BY <1>1, <1>4
<1>6. PoolsTyped' /\ PoolSems'
  <2>1. ASSUME NEW x \in Holder, NEW j \in Pools, x \in ToSet(semtab'[buftab[j].sem].queue)
        PROVE  awaits'[x] = j
    <3>1. x \in ToSet(semtab[buftab[j].sem].queue) /\ x # p
      <4>1. PICK r \in Sems : r = buftab[j].sem
        BY PoolsAre DEF PoolsInv
      <4> QED BY <1>3, <2>1, <4>1
    <3> QED BY <1>5, <3>1, WaitersAre
  <2>2. \A r \in Sems : \A x \in ToSet(semtab'[r].queue) : \E j \in Pools : buftab[j].sem = r
    BY <1>3, QueuesArePools
  <2>3. awaits' \in [Holder -> {0} \cup Pools]
    BY <1>1, <1>4
  <2> QED BY <1>1, <1>3, <1>4, <2>1, <2>2, <2>3, PoolsStep
<1>7. BufferForEach'
  <2> SUFFICES ASSUME NEW j \in Pools
               PROVE  Left(semtab, buftab[j].sem)' + Promised(j)' <= Len(buftab'[j].next)
    BY <1>4 DEF BufferForEach
  <2>1. /\ Left(semtab, buftab[j].sem) \in Nat /\ Len(buftab[j].next) \in Nat
        /\ Left(semtab, buftab[j].sem) + Promised(j) <= Len(buftab[j].next)
        /\ Promised(j)' \in Nat /\ Promised(j) \in Nat
        /\ buftab[j].sem \in Sems /\ j # 0
    BY RoomIn, PoolsAre, PromisedType, PromisedNextType DEF PoolsInv
  <2>2. Promises(j)' \subseteq Promises(j)
    <3> SUFFICES ASSUME NEW x \in Promises(j)' PROVE x \in Promises(j)
      OBVIOUS
    <3>1. x \in Holder /\ awaits'[x] = j /\ ~WaitsIn(semtab', x)
      BY DEF Promises
    <3>2. x # p /\ awaits[x] = j
      BY <1>5, <2>1, <3>1
    <3>3. ~WaitsIn(semtab, x)
      BY <1>3, <3>1, <3>2 DEF WaitsIn
    <3> QED BY <3>1, <3>2, <3>3 DEF Promises
  <2>3. Promised(j)' <= Promised(j)
    BY <2>2, PromisesMove
  <2>4. Left(semtab, buftab[j].sem)' = Left(semtab, buftab[j].sem)
    <3> DEFINE s == buftab[j].sem
    <3>1. semtab[s].count \in Int
      BY RoomIn
    <3>2. Left(semtab', s) = Left(semtab, s)
      BY <1>3, <2>1, <3>1 DEF Left
    <3> QED BY <1>1, <3>2 DEF Left
  <2> QED BY <1>1, <2>1, <2>3, <2>4
<1> QED BY <1>6, <1>7 DEF PoolsInv

(* mkbufpool adds pool k, an entry at the end of the table. *)
AddsPool(k, e) ==
  /\ buftab' \in Seq(PoolEntry) /\ Pools' = Pools \cup {k} /\ k \notin Pools /\ k # 0
  /\ buftab'[k] = e /\ \A j \in Pools : buftab'[j] = buftab[j]

LEMMA AppendedPool ==
  ASSUME PoolsTyped, NEW e \in PoolEntry, buftab' = Append(buftab, e)
  PROVE  AddsPool(Len(buftab) + 1, e)
<1>1. /\ Len(buftab) \in Nat /\ Pools = 1..Len(buftab) /\ buftab \in Seq(PoolEntry)
  BY PoolsAre DEF PoolsTyped
<1>2. /\ Append(buftab, e) \in Seq(PoolEntry) /\ Len(Append(buftab, e)) = Len(buftab) + 1
      /\ Append(buftab, e)[Len(buftab) + 1] = e
      /\ \A j \in 1..Len(buftab) : Append(buftab, e)[j] = buftab[j]
  BY <1>1, AppendProperties
<1>3. PICK k : k = Len(buftab) + 1
  OBVIOUS
<1>4. buftab' \in Seq(PoolEntry) /\ Len(buftab') = k
  BY <1>2, <1>3
<1>5. Pools' = 1..k
  BY <1>4, LenProperties DEF Pools
<1> QED BY <1>1, <1>2, <1>3, <1>4, <1>5 DEF AddsPool

(* Its semaphore counts all of its buffers. *)
LEMMA NewPool ==
  ASSUME PoolsInv, NEW n \in Nat, NEW s \in NewSems(semtab), s # SYSERR,
         NEW k, NEW e, e.sem = s, Len(e.next) = n, AddsPool(k, e),
         semtab' = Semcreate(semtab, n, s), UNCHANGED <<taken, awaits>>
  PROVE  PoolsInv'
<1>1. /\ taken \subseteq [addr : Nat, pool : Pools] /\ buftab \in Seq(PoolEntry)
      /\ awaits \in [Holder -> {0} \cup Pools]
  BY DEF PoolsInv, PoolsTyped
<1>2. SemOK(semtab, Holder)
  BY DEF PoolsInv, PoolsTyped
<1>3. /\ SemOK(semtab', Holder) /\ OtherSems(semtab, semtab', s)
      /\ s \in Sems /\ semtab[s].state = "S_FREE" /\ semtab[s].queue = <<>>
      /\ semtab'[s] = [state |-> "S_USED", count |-> n, queue |-> <<>>]
  BY <1>2, NewSemsOK
<1>4. semtab'[s].state = "S_USED" /\ semtab'[s].count = n /\ semtab'[s].queue = <<>>
  BY <1>3
<1>6. /\ buftab' \in Seq(PoolEntry) /\ Pools' = Pools \cup {k} /\ k \notin Pools /\ k # 0
      /\ buftab'[k] = e /\ \A j \in Pools : buftab'[j] = buftab[j]
  BY DEF AddsPool
<1>7. \A j \in Pools : buftab[j].sem \in Sems /\ buftab[j].sem # s
  BY <1>3, PoolsAre DEF PoolsInv, PoolSems
<1>8. \A r \in Sems : ToSet(semtab'[r].queue) = ToSet(semtab[r].queue)
  BY <1>3, <1>4 DEF OtherSems
<1>9. PoolsTyped'
  <2>1. taken' \subseteq [addr : Nat, pool : Pools'] /\ awaits' \in [Holder -> {0} \cup Pools']
    BY <1>1, <1>6
  <2> QED BY <1>3, <1>6, <2>1 DEF PoolsTyped
<1>10. PoolSems'
  <2>4. buftab'[k].sem = s
    BY <1>6
  <2>5. \A j \in Pools : /\ buftab'[j].sem = buftab[j].sem
                         /\ semtab[buftab[j].sem].state = "S_USED"
                         /\ \A i \in Pools : i # j => buftab[i].sem # buftab[j].sem
    BY <1>6 DEF PoolsInv, PoolSems
  <2>1. ASSUME NEW j, j = k \/ j \in Pools PROVE semtab'[buftab'[j].sem].state = "S_USED"
    <3>1. CASE j = k
      BY <1>4, <2>4, <3>1
    <3>2. CASE j \in Pools
      <4>1. PICK r \in Sems : r # s /\ r = buftab[j].sem
        BY <1>7, <3>2
      <4>2. semtab'[r] = semtab[r]
        BY <1>3, <4>1 DEF OtherSems
      <4> QED BY <2>5, <3>2, <4>1, <4>2
    <3> QED BY <2>1, <3>1, <3>2
  <2>2. ASSUME NEW i, NEW j, i = k \/ i \in Pools, j = k \/ j \in Pools, i # j
        PROVE  buftab'[i].sem # buftab'[j].sem
    BY <1>7, <2>2, <2>4, <2>5
  <2>3. ASSUME NEW r \in Sems, NEW p \in ToSet(semtab'[r].queue)
        PROVE  awaits'[p] # 0 /\ buftab'[awaits'[p]].sem = r
    <3>1. p \in ToSet(semtab[r].queue)
      BY <1>8, <2>3
    <3>2. awaits[p] \in Pools /\ buftab[awaits[p]].sem = r
      BY <3>1, QueuesArePools
    <3> QED BY <1>6, <3>2, PoolsAre DEF PoolsInv
  <2> QED BY <1>6, <2>1, <2>2, <2>3 DEF PoolSems
<1>11. BufferForEach'
  <2> SUFFICES ASSUME NEW j, j = k \/ j \in Pools
               PROVE  Left(semtab, buftab[j].sem)' + Promised(j)' <= Len(buftab'[j].next)
    BY <1>6 DEF BufferForEach
  <2>1. \A i : Promises(i)' = Promises(i)
    BY <1>8 DEF Promises, WaitsIn
  <2>2. Promised(j)' = Promised(j) /\ Promised(j) \in Nat
    BY <2>1, PromisedType, PromisedNextType
  <2>3. CASE j = k
    <3>1. Promises(j) = {}
      BY <1>1, <1>6, <2>3 DEF Promises
    <3>2. Promised(j) = 0
      BY <3>1, PromisedType, FS_EmptySet
    <3>3. Left(semtab', s) <= n
      BY <1>4 DEF Left
    <3>4. Left(semtab, buftab[j].sem)' <= n
      BY <1>6, <2>3, <3>3 DEF Left
    <3>5. Left(semtab', s) \in Nat
      BY <1>4 DEF Left
    <3>6. Left(semtab, buftab[j].sem)' \in Nat
      BY <1>6, <2>3, <3>5 DEF Left
    <3>7. Len(buftab'[j].next) = n
      BY <1>6, <2>3
    <3> QED BY <2>2, <3>2, <3>4, <3>6, <3>7
  <2>4. CASE j # k
    <3>1. j \in Pools
      BY <2>4
    <3>2. Left(semtab, buftab[j].sem)' = Left(semtab, buftab[j].sem)
      BY <1>3, <1>6, <1>7, <3>1 DEF Left, OtherSems
    <3>3. Left(semtab, buftab[j].sem) + Promised(j) <= Len(buftab[j].next)
      BY <3>1, RoomIn
    <3> QED BY <1>6, <2>2, <3>1, <3>2, <3>3
  <2> QED BY <2>3, <2>4
<1> QED BY <1>9, <1>10, <1>11 DEF PoolsInv
-----------------------------------------------------------------------------
(* What mkbufpool does to the storage: it takes a block as getmem does, and *)
(* without a semaphore gives it back if freemem does not refuse it.        *)
NewBlock(n) == Given(list["mem"][Min(Fits(list["mem"], n))].addr, n, "getmem")

GivesBack(n) ==
  LET fits == Fits(list["mem"], n)
      rest == TakeLow(list["mem"], Min(fits), n)
  IN
  /\ n > 0 /\ fits # {} /\ spent + n <= MaxSpent
  /\ ~Refused(rest, NewBlock(n))
  /\ list' = [list EXCEPT !["mem"] = Released(rest, NewBlock(n).addr, n)]
  /\ spent' = spent + n
  /\ UNCHANGED <<heap, pages, stacks>>

(* m buffers of this size are cut from the new block. *)
Cuts(n, size, m) ==
  /\ m * (size + IdSize) <= 8 * n
  /\ \E s \in NewSems(semtab) :
       /\ s # SYSERR /\ semtab' = Semcreate(semtab, m, s)
       /\ buftab' = Append(buftab, [sem |-> s, size |-> size,
                                    next |-> Chain(8 * NewBlock(n).addr, size, m)])
  /\ UNCHANGED <<taken, awaits>>

LEMMA MkbufpoolIs ==
  ASSUME HeapTyped, NEW bufsiz \in Int, NEW numbufs \in Int, Mkbufpool(bufsiz, numbufs)
  PROVE  \E n \in Nat :
           \/ (GivesBack(n) \/ Allots(n)) /\ UNCHANGED bufvars
           \/ Allots(n) /\ \E size \in Nat, m \in Nat \ {0} : Cuts(n, size, m)
<1> DEFINE size == Rounded(bufsiz)
           n    == Units(numbufs * (size + IdSize))
           fits == Fits(list["mem"], n)
           rest == TakeLow(list["mem"], Min(fits), n)
<1>1. bufsiz \in Nat /\ numbufs \in Nat \ {0}
  BY BufferAssumption DEF Mkbufpool
<1>2. size \in Nat
  BY <1>1 DEF Rounded
<1> HIDE DEF size
<1>3. n \in Nat /\ n > 0 /\ numbufs * (size + IdSize) <= 8 * n
  <2>1. numbufs * (size + 4) \in Nat /\ numbufs * (size + 4) > 0
    BY <1>1, <1>2
  <2>2. \A x \in Nat : x > 0 => (x + 7) \div 8 \in Nat /\ (x + 7) \div 8 > 0 /\ x <= 8 * ((x + 7) \div 8)
    OBVIOUS
  <2> QED BY <2>1, <2>2 DEF Units, IdSize
<1>4. /\ fits # {} /\ spent + n <= MaxSpent /\ spent' = spent + n
      /\ \E s \in NewSems(semtab) :
           IF s = SYSERR
           THEN /\ list' = [list EXCEPT !["mem"] = Freemem(rest, NewBlock(n))]
                /\ heap' = IF Refused(rest, NewBlock(n)) THEN heap \cup {NewBlock(n)} ELSE heap
                /\ UNCHANGED <<semtab, buftab>>
           ELSE /\ list' = [list EXCEPT !["mem"] = rest]
                /\ heap' = heap \cup {NewBlock(n)}
                /\ semtab' = Semcreate(semtab, numbufs, s)
                /\ buftab' = Append(buftab, [sem |-> s, size |-> size,
                                     next |-> Chain(8 * NewBlock(n).addr, size, numbufs)])
      /\ UNCHANGED <<pages, stacks, taken, awaits>>
  <2>1. NewBlock(n).addr = list["mem"][Min(fits)].addr
    BY DEF NewBlock, Given
  <2> QED BY <2>1 DEF Mkbufpool, size, NewBlock
<1>5. PICK s \in NewSems(semtab) :
        IF s = SYSERR
        THEN /\ list' = [list EXCEPT !["mem"] = Freemem(rest, NewBlock(n))]
             /\ heap' = IF Refused(rest, NewBlock(n)) THEN heap \cup {NewBlock(n)} ELSE heap
             /\ UNCHANGED <<semtab, buftab>>
        ELSE /\ list' = [list EXCEPT !["mem"] = rest]
             /\ heap' = heap \cup {NewBlock(n)}
             /\ semtab' = Semcreate(semtab, numbufs, s)
             /\ buftab' = Append(buftab, [sem |-> s, size |-> size,
                                  next |-> Chain(8 * NewBlock(n).addr, size, numbufs)])
  BY <1>4
<1> HIDE DEF n
<1>6. NewBlock(n).len = n /\ NewBlock(n) = Given(list["mem"][Min(fits)].addr, n, "getmem")
  BY DEF NewBlock, Given
<1>7. CASE s = SYSERR /\ Refused(rest, NewBlock(n))
  <2>1. Freemem(rest, NewBlock(n)) = rest
    BY <1>7 DEF Freemem
  <2>2. Allots(n) /\ UNCHANGED bufvars
    BY <1>3, <1>4, <1>5, <1>6, <1>7, <2>1 DEF Allots, bufvars
  <2> QED BY <1>3, <2>2
<1>8. CASE s = SYSERR /\ ~Refused(rest, NewBlock(n))
  <2>1. Freemem(rest, NewBlock(n)) = Released(rest, NewBlock(n).addr, n)
    BY <1>6, <1>8 DEF Freemem
  <2>2. GivesBack(n) /\ UNCHANGED bufvars
    BY <1>3, <1>4, <1>5, <1>8, <2>1 DEF GivesBack, bufvars
  <2> QED BY <1>3, <2>2
<1>9. CASE s # SYSERR
  <2>1. Allots(n)
    BY <1>3, <1>4, <1>5, <1>6, <1>9 DEF Allots
  <2>2. Cuts(n, size, numbufs)
    BY <1>3, <1>4, <1>5, <1>9 DEF Cuts
  <2> QED BY <1>1, <1>2, <1>3, <2>1, <2>2
<1> QED BY <1>7, <1>8, <1>9

LEMMA NewBlockIs ==
  ASSUME HeapTyped, NEW n \in Nat, n > 0, Fits(list["mem"], n) # {}
  PROVE  LET q == list["mem"]
             i == Min(Fits(q, n))
         IN  /\ q \in Seq(WordBlock) /\ i \in 1..Len(q) /\ n <= q[i].len /\ n \in 1..(WORD - 1)
             /\ NewBlock(n).addr = q[i].addr /\ NewBlock(n).len = n /\ NewBlock(n).by = "getmem"
             /\ q[i].addr \in 0..(WORD - 1) /\ TakeLow(q, i, n) \in Seq(WordBlock)
<1> DEFINE q == list["mem"]
           i == Min(Fits(q, n))
<1>1. q \in Seq(WordBlock)
  BY DEF HeapTyped
<1>2. i \in 1..Len(q) /\ n <= q[i].len
  BY <1>1, FitsTyped
<1>3. n \in 1..(WORD - 1) /\ q[i].addr \in 0..(WORD - 1) /\ TakeLow(q, i, n) \in Seq(WordBlock)
  BY AllocationTyped
<1>4. NewBlock(n).addr = q[i].addr /\ NewBlock(n).len = n /\ NewBlock(n).by = "getmem"
  BY DEF NewBlock, Given
<1> QED BY <1>1, <1>2, <1>3, <1>4

LEMMA GivesBackTyped ==
  ASSUME HeapTyped, NEW n \in Nat, GivesBack(n)
  PROVE  HeapTyped'
<1> DEFINE rest == TakeLow(list["mem"], Min(Fits(list["mem"], n)), n)
<1>1. /\ n > 0 /\ Fits(list["mem"], n) # {} /\ spent + n <= MaxSpent
      /\ list' = [list EXCEPT !["mem"] = Released(rest, NewBlock(n).addr, n)]
      /\ spent' = spent + n /\ heap' = heap /\ stacks' = stacks
  BY DEF GivesBack
<1>2. /\ NewBlock(n).addr \in 0..(WORD - 1) /\ n \in 1..(WORD - 1) /\ rest \in Seq(WordBlock)
  BY <1>1, NewBlockIs
<1> HIDE DEF rest
<1> DEFINE b == Block(NewBlock(n).addr, n)
<1>3. b \in WordBlock /\ b.addr = NewBlock(n).addr /\ b.len = n
  BY <1>2 DEF Block, WordBlock
<1> HIDE DEF b
<1>4. Released(rest, NewBlock(n).addr, n) \in Seq(WordBlock)
  BY <1>2, <1>3, ReleasedTyped
<1>5. spent' \in 0..MaxSpent
  BY <1>1, Layout DEF HeapTyped
<1>6. list'["mem"] = Released(rest, NewBlock(n).addr, n) /\ DOMAIN list' = Lists
  BY <1>1 DEF Lists, HeapTyped
<1> QED BY <1>1, <1>4, <1>5, <1>6 DEF HeapTyped

(* While the heap is split, freemem refuses what mkbufpool gives back. *)
LEMMA GivesBackSplit ==
  ASSUME HeapTyped, HeapInv, NEW n \in Nat, GivesBack(n)
  PROVE  HeapInv'
<1> DEFINE i == Min(Fits(list["mem"], n))
<1>1. /\ n > 0 /\ Fits(list["mem"], n) # {} /\ spent' = spent + n /\ spent \in Nat
      /\ ~Refused(TakeLow(list["mem"], i, n), NewBlock(n))
  BY Layout DEF GivesBack, HeapTyped
<1>2. NewBlock(n).addr = list["mem"][i].addr
  BY <1>1, NewBlockIs
<1> SUFFICES ASSUME spent' < StackEnd - end PROVE FALSE
  BY DEF HeapInv, StackEnd
<1>3. spent < StackEnd - end /\ spent + n < StackEnd - end
  BY <1>1, StackEndTyped, Layout
<1>4. PICK g \in Nat, h \in Nat : g + h = spent /\ HeapSplit(g, h)
  BY <1>3 DEF HeapInv
<1>5. g + h + n < StackEnd - end
  BY <1>3, <1>4
<1>6. LowBlock(g).addr = end + g /\ Fits(<<LowBlock(g), HighBlock(h)>>, n) = {1, 2}
  BY <1>1, <1>5, SplitBlocks
<1>7. list["mem"] = <<LowBlock(g), HighBlock(h)>> /\ i = 1
  BY <1>4, <1>6, MinMaxOfTwo DEF HeapSplit
<1> HIDE DEF i
<1>8. NewBlock(n).addr = end + g /\ end + g < PT_START /\ end + g \in Nat
  BY <1>2, <1>5, <1>6, <1>7, StackEndTyped, Layout
<1>9. Refused(TakeLow(list["mem"], i, n), NewBlock(n))
  BY <1>8, Layout DEF Refused, minheap
<1> QED BY <1>1, <1>9

StorageInv == PageInv /\ HeapTyped /\ HeapInv

LEMMA StorageNext == StorageInv /\ [PoolsNext]_poolvars => StorageInv'
<1> SUFFICES ASSUME StorageInv, [PoolsNext]_poolvars PROVE StorageInv'
  OBVIOUS
<1> USE DEF StorageInv
<1>1. CASE [MemNext]_memvars
  BY <1>1, PageInvNext, HeapTypedNext, HeapInvNext
<1>2. ASSUME NEW n \in Nat, GivesBack(n) \/ Allots(n) PROVE StorageInv'
  <2>1. HeapTyped' /\ HeapInv'
    BY <1>2, AllotsTyped, AllotsSplit, GivesBackTyped, GivesBackSplit
  <2>2. pages' = pages /\ \E q : list' = [list EXCEPT !["mem"] = q]
    BY <1>2 DEF GivesBack, Allots
  <2>3. \A l \in Paged : list'[l] = list[l]
    BY <2>2 DEF Paged, PageInv
  <2>4. PageInv'
    BY <2>2, <2>3 DEF PageInv, Lists
  <2> QED BY <2>1, <2>4
<1>3. CASE \E shape \in Shapes : Mkbufpool(shape[1], shape[2])
  <2>1. PICK shape \in Shapes : Mkbufpool(shape[1], shape[2])
    BY <1>3
  <2>2. shape[1] \in Int /\ shape[2] \in Int
    BY BufferAssumption
  <2>3. \E n \in Nat : GivesBack(n) \/ Allots(n)
    BY <2>1, <2>2, MkbufpoolIs
  <2> QED BY <1>2, <2>3
<1>4. CASE \/ \E p \in Holder : \/ \E pool \in Pools : Getbuf(p, pool)
                                \/ GetbufResumes(p) \/ KillWaiter(p)
           \/ \E b \in taken : Freebuf(b)
  <2>1. UNCHANGED memvars
    BY <1>4 DEF Getbuf, GetbufResumes, KillWaiter, Freebuf
  <2> QED BY <1>1, <2>1
<1>5. CASE UNCHANGED poolvars
  BY <1>1, <1>5 DEF poolvars
<1> QED BY <1>1, <1>3, <1>4, <1>5 DEF PoolsNext
-----------------------------------------------------------------------------
LEMMA ChainTyped ==
  ASSUME NEW a \in Nat, NEW size \in Nat, NEW m \in Nat
  PROVE  /\ Chain(a, size, m) \in Seq(Nat) /\ Len(Chain(a, size, m)) = m
         /\ \A i \in 1..m : Chain(a, size, m)[i] = a + (i - 1) * (size + IdSize)
<1>1. \A i \in 1..m : a + (i - 1) * (size + IdSize) \in Nat
  <2>1. ASSUME NEW i \in 1..m PROVE a + (i - 1) * (size + IdSize) \in Nat
    <3>1. i - 1 \in Nat /\ size + IdSize \in Nat
      BY DEF IdSize
    <3>2. \A x, y \in Nat : x * y \in Nat
      OBVIOUS
    <3> QED BY <3>1, <3>2
  <2> QED BY <2>1
<1>2. Chain(a, size, m) = [i \in 1..m |-> a + (i - 1) * (size + IdSize)]
  BY DEF Chain
<1> DEFINE F(i) == a + (i - 1) * (size + IdSize)
<1>3. Chain(a, size, m) = [i \in 1..m |-> F(i)] /\ \A i \in 1..m : F(i) \in Nat
  BY <1>1, <1>2
<1> HIDE DEF F
<1>4. /\ [i \in 1..m |-> F(i)] \in Seq(Nat) /\ Len([i \in 1..m |-> F(i)]) = m
      /\ \A i \in 1..m : [j \in 1..m |-> F(j)][i] = F(i)
  BY <1>3
<1> QED BY <1>3, <1>4 DEF F

LEMMA CutsPools ==
  ASSUME PoolsInv, HeapTyped, NEW n \in Nat, Allots(n),
         NEW size \in Nat, NEW m \in Nat, Cuts(n, size, m)
  PROVE  PoolsInv'
<1>1. NewBlock(n).addr \in Nat
  <2>1. n > 0 /\ Fits(list["mem"], n) # {}
    BY DEF Allots
  <2>2. NewBlock(n).addr \in 0..(WORD - 1)
    BY <2>1, NewBlockIs
  <2> QED BY <2>2, Layout
<1>2. PICK a : a = 8 * NewBlock(n).addr
  OBVIOUS
<1>3. a \in Nat
  BY <1>1, <1>2
<1>4. PICK s \in NewSems(semtab) :
        /\ s # SYSERR /\ semtab' = Semcreate(semtab, m, s)
        /\ buftab' = Append(buftab, [sem |-> s, size |-> size, next |-> Chain(a, size, m)])
  BY <1>2 DEF Cuts
<1>5. UNCHANGED <<taken, awaits>>
  BY DEF Cuts
<1>6. PoolsTyped /\ SemOK(semtab, Holder)
  BY DEF PoolsInv, PoolsTyped
<1>7. s \in Sems
  BY <1>4, <1>6, NewSemsOK
<1> DEFINE e == [sem |-> s, size |-> size, next |-> Chain(a, size, m)]
<1>8. e \in PoolEntry /\ e.sem = s /\ Len(e.next) = m
  BY <1>3, <1>7, ChainTyped DEF PoolEntry
<1>9. buftab' = Append(buftab, e)
  BY <1>4
<1> HIDE DEF e
<1>10. PICK k : k = Len(buftab) + 1
  OBVIOUS
<1>11. AddsPool(k, e)
  BY <1>6, <1>8, <1>9, <1>10, AppendedPool
<1>12. semtab' = Semcreate(semtab, m, s) /\ s # SYSERR
  BY <1>4
<1> QED BY ONLY PoolsInv, m \in Nat, s \in NewSems(semtab), <1>5, <1>8, <1>11, <1>12, NewPool

LEMMA PoolsKept ==
  ASSUME PoolsInv, UNCHANGED bufvars
  PROVE  PoolsInv'
<1>1. buftab' = buftab /\ taken' = taken /\ awaits' = awaits /\ semtab' = semtab
  BY DEF bufvars
<1>2. Pools' = Pools
  BY <1>1 DEF Pools
<1>3. PoolsTyped'
  BY <1>1, <1>2 DEF PoolsInv, PoolsTyped
<1>4. PoolSems'
  BY <1>1, <1>2 DEF PoolsInv, PoolSems
<1>5. BufferForEach'
  BY <1>1, <1>2 DEF PoolsInv, BufferForEach, Promised, InQueue, Left
<1> QED BY <1>3, <1>4, <1>5 DEF PoolsInv

LEMMA PoolsInvInit == BufInit /\ SemInit => PoolsInv
<1> SUFFICES ASSUME BufInit, SemInit PROVE PoolsInv
  OBVIOUS
<1>1. buftab = <<>> /\ taken = {} /\ awaits = [p \in Holder |-> 0] /\ Pools = {}
  BY DEF BufInit, Pools
<1>2. SemOK(semtab, Holder)
  BY SemInitOK
<1>3. PoolsTyped
  BY <1>1, <1>2 DEF PoolsTyped
<1>4. ASSUME NEW s \in Sems PROVE ToSet(semtab[s].queue) = {}
  <2>1. semtab[s].queue = <<>>
    BY DEF SemInit, FreeEntry
  <2> QED BY <2>1, NoneWaits
<1>5. PoolSems
  BY <1>1, <1>4 DEF PoolSems
<1>6. BufferForEach
  BY <1>1 DEF BufferForEach
<1> QED BY <1>3, <1>5, <1>6 DEF PoolsInv

LEMMA PoolsInvNext == PoolsInv /\ StorageInv /\ [PoolsNext]_poolvars => PoolsInv'
<1> SUFFICES ASSUME PoolsInv, StorageInv, [PoolsNext]_poolvars PROVE PoolsInv'
  OBVIOUS
<1>1. CASE UNCHANGED bufvars
  BY <1>1, PoolsKept
<1>2. CASE \E shape \in Shapes : Mkbufpool(shape[1], shape[2])
  <2>1. PICK shape \in Shapes : Mkbufpool(shape[1], shape[2])
    BY <1>2
  <2>2. shape[1] \in Int /\ shape[2] \in Int
    BY BufferAssumption
  <2>3. HeapTyped
    BY DEF StorageInv
  <2>4. PICK n \in Nat :
          \/ (GivesBack(n) \/ Allots(n)) /\ UNCHANGED bufvars
          \/ Allots(n) /\ \E size \in Nat, m \in Nat \ {0} : Cuts(n, size, m)
    BY <2>1, <2>2, <2>3, MkbufpoolIs
  <2> QED BY <1>1, <2>3, <2>4, CutsPools
<1>3. CASE \E p \in Holder : \E pool \in Pools : Getbuf(p, pool)
  BY <1>3, GetbufNow, GetbufWaits
<1>4. CASE \E p \in Holder : GetbufResumes(p)
  BY <1>4, ResumesPools
<1>5. CASE \E p \in Holder : KillWaiter(p)
  BY <1>5, KillPools
<1>6. CASE \E b \in taken : Freebuf(b)
  BY <1>6, FreebufPools
<1>7. CASE UNCHANGED poolvars
  BY <1>1, <1>7 DEF poolvars
<1> QED BY <1>1, <1>2, <1>3, <1>4, <1>5, <1>6, <1>7 DEF PoolsNext

LEMMA PoolsInvariant == PoolsSpec => [](StorageInv /\ PoolsInv)
<1>1. MemInit => StorageInv
  BY PageInvInit, HeapTypedInit, HeapInvInit DEF StorageInv
<1> QED BY <1>1, PoolsInvInit, StorageNext, PoolsInvNext, PTL DEF PoolsSpec

(* However many processes take buffers, give them back or are killed while *)
(* they wait, getbuf.c:33 never follows the head of an empty list.         *)
THEOREM ABufferForEach == PoolsSpec => []BufferForEach
BY PoolsInvariant, PTL DEF PoolsInv
-----------------------------------------------------------------------------
(* No block reaches beyond the hole's start, of this turn of the addresses *)
(* or the next: a block that is taken from below wraps to an address below *)
(* the program, never into it.                                             *)
Reach(a, n) == (IF a < HOLEEND THEN a + WORD ELSE a) + n
EndOK(a, n) == Reach(a, n) <= WORD + HOLESTART

ListEnds(q) == \A i \in 1..Len(q) : EndOK(q[i].addr, q[i].len)

WordNat(x) == x \in 0..(WORD - 1)

LEMMA EndTakesLow ==
  ASSUME NEW a, NEW m, WordNat(a), WordNat(m), NEW n \in Nat, n <= m, EndOK(a, m)
  PROVE  /\ EndOK(a, n) /\ EndOK(Wrap(a + n), m - n) /\ EndOK(a, m - n)
         /\ a >= PT_START => Wrap(a + n) >= PT_START \/ Wrap(a + n) < end
<1>1. /\ a \in Nat /\ m \in Nat /\ WORD \in Nat /\ HOLESTART \in Nat /\ HOLEEND \in Nat
      /\ a < WORD /\ m < WORD /\ HOLESTART < HOLEEND /\ HOLEEND < WORD
  BY Layout DEF WordNat
<1>2. EndOK(a, n) /\ EndOK(a, m - n)
  BY <1>1 DEF EndOK, Reach
<1>3. EndOK(Wrap(a + n), m - n)
  <2>1. CASE a < HOLEEND
    <3>1. a + WORD + m <= WORD + HOLESTART
      BY <2>1 DEF EndOK, Reach
    <3>2. a + n < HOLEEND /\ Wrap(a + n) = a + n
      BY <1>1, <3>1 DEF Wrap
    <3> QED BY <1>1, <3>1, <3>2 DEF EndOK, Reach
  <2>2. CASE a >= HOLEEND /\ a + n < WORD
    <3>1. Wrap(a + n) = a + n /\ a + m <= WORD + HOLESTART
      BY <1>1, <2>2 DEF Wrap, EndOK, Reach
    <3> QED BY <1>1, <2>2, <3>1 DEF EndOK, Reach
  <2>3. CASE a >= HOLEEND /\ a + n >= WORD
    <3>1. Wrap(a + n) = a + n - WORD /\ a + m <= WORD + HOLESTART
      BY <1>1, <2>3 DEF Wrap, EndOK, Reach
    <3>2. a + n - WORD < HOLEEND
      BY <1>1, <3>1
    <3> QED BY <1>1, <2>3, <3>1, <3>2 DEF EndOK, Reach
  <2> QED BY <1>1, <2>1, <2>2, <2>3
<1>4. ASSUME a >= PT_START PROVE Wrap(a + n) >= PT_START \/ Wrap(a + n) < end
  <2>1. a >= HOLEEND /\ a + m <= WORD + HOLESTART
    BY <1>1, <1>4, Layout DEF EndOK, Reach
  <2>2. CASE a + n < WORD
    <3>1. Wrap(a + n) = a + n
      BY <1>1, <2>2 DEF Wrap
    <3> QED BY <1>1, <1>4, <3>1, Layout
  <2>3. CASE a + n >= WORD
    <3>1. Wrap(a + n) = a + n - WORD
      BY <1>1, <2>3 DEF Wrap
    <3> QED BY <1>1, <2>1, <3>1, Layout
  <2> QED BY <1>1, <2>2, <2>3
<1> QED BY <1>2, <1>3, <1>4

LEMMA EndTakesHigh ==
  ASSUME NEW a, NEW m, WordNat(a), WordNat(m), NEW n \in Nat, n <= m, EndOK(a, m)
  PROVE  EndOK(Wrap(a + m - n), n)
<1>1. /\ a \in Nat /\ m \in Nat /\ WORD \in Nat /\ HOLESTART \in Nat /\ HOLEEND \in Nat
      /\ a < WORD /\ m < WORD /\ HOLESTART < HOLEEND /\ HOLEEND < WORD
  BY Layout DEF WordNat
<1>2. PICK d \in Nat : d = m - n
  BY <1>1
<1>3. a + m - n = a + d /\ n = m - d /\ d <= m
  BY <1>1, <1>2
<1>4. EndOK(Wrap(a + d), m - d)
  BY <1>3, EndTakesLow
<1> QED BY <1>3, <1>4

(* Joining two blocks, the first of which ends where the other begins. *)
LEMMA EndsJoin ==
  ASSUME NEW a, NEW m, WordNat(a), WordNat(m), NEW b, NEW n, WordNat(b), WordNat(n),
         EndOK(a, m), EndOK(b, n), Wrap(a + m) = b
  PROVE  EndOK(a, Wrap(m + n))
<1>1. /\ a \in Nat /\ m \in Nat /\ WORD \in Nat /\ HOLESTART \in Nat /\ HOLEEND \in Nat
      /\ b \in Nat /\ n \in Nat /\ b < WORD /\ n < WORD
      /\ a < WORD /\ m < WORD /\ HOLESTART < HOLEEND /\ HOLEEND < WORD
  BY Layout DEF WordNat
<1>2. EndOK(a, m + n)
  <2>1. CASE a < HOLEEND
    <3>1. a + WORD + m <= WORD + HOLESTART
      BY <2>1 DEF EndOK, Reach
    <3>2. b = a + m /\ b < HOLEEND
      BY <1>1, <3>1 DEF Wrap
    <3>3. b + WORD + n <= WORD + HOLESTART
      BY <3>2 DEF EndOK, Reach
    <3>4. a + WORD + (m + n) <= WORD + HOLESTART
      BY <1>1, <3>2, <3>3
    <3> QED BY <2>1, <3>4 DEF EndOK, Reach
  <2>2. CASE a >= HOLEEND /\ a + m < WORD
    <3>1. b = a + m /\ ~(b < HOLEEND)
      BY <1>1, <2>2 DEF Wrap
    <3>2. b + n <= WORD + HOLESTART
      BY <3>1 DEF EndOK, Reach
    <3>3. a + (m + n) <= WORD + HOLESTART
      BY <1>1, <3>1, <3>2
    <3> QED BY <1>1, <2>2, <3>3 DEF EndOK, Reach
  <2>3. CASE a >= HOLEEND /\ a + m >= WORD
    <3>1. b = a + m - WORD /\ a + m <= WORD + HOLESTART
      BY <1>1, <2>3 DEF Wrap, EndOK, Reach
    <3>2. b < HOLEEND
      BY <1>1, <3>1
    <3>3. b + WORD + n <= WORD + HOLESTART
      BY <3>2 DEF EndOK, Reach
    <3>4. a + (m + n) <= WORD + HOLESTART
      BY <1>1, <3>1, <3>3
    <3> QED BY <1>1, <2>3, <3>4 DEF EndOK, Reach
  <2> QED BY <1>1, <2>1, <2>2, <2>3
<1>3. Wrap(m + n) \in Nat /\ Wrap(m + n) <= m + n
  BY <1>1 DEF Wrap
<1> QED BY <1>1, <1>2, <1>3 DEF EndOK, Reach

LEMMA WithoutEnds ==
  ASSUME NEW q \in Seq(WordBlock), NEW i \in 1..Len(q), ListEnds(q)
  PROVE  ListEnds(RemoveAt(q, i))
<1>1. IsWithout(RemoveAt(q, i), q, i)
  BY RemoveAtOrder
<1> QED BY <1>1 DEF IsWithout, ListEnds

LEMMA ExceptEnds ==
  ASSUME NEW q \in Seq(WordBlock), NEW i \in 1..Len(q), ListEnds(q),
         NEW b \in WordBlock, EndOK(b.addr, b.len)
  PROVE  [q EXCEPT ![i] = b] \in Seq(WordBlock) /\ ListEnds([q EXCEPT ![i] = b])
<1>1. /\ [q EXCEPT ![i] = b] \in Seq(WordBlock) /\ Len([q EXCEPT ![i] = b]) = Len(q)
      /\ \A j \in 1..Len(q) : [q EXCEPT ![i] = b][j] = IF j = i THEN b ELSE q[j]
  BY LenProperties
<1> QED BY <1>1 DEF ListEnds

LEMMA TakenEnds ==
  ASSUME NEW q \in Seq(WordBlock), NEW i \in 1..Len(q), ListEnds(q),
         NEW n \in Nat, n <= q[i].len
  PROVE  ListEnds(TakeLow(q, i, n)) /\ ListEnds(TakeHigh(q, i, n))
<1>1. WordNat(q[i].addr) /\ WordNat(q[i].len) /\ EndOK(q[i].addr, q[i].len)
  BY WordBlocks DEF WordNat, ListEnds
<1>2. EndOK(Wrap(q[i].addr + n), q[i].len - n) /\ EndOK(q[i].addr, q[i].len - n)
  BY <1>1, EndTakesLow
<1>3. q[i].len - n \in 0..(WORD - 1) /\ Wrap(q[i].addr + n) \in 0..(WORD - 1)
  <2>1. q[i].addr \in 0..(WORD - 1) /\ q[i].len \in 0..(WORD - 1) /\ n \in 0..(WORD - 1)
    BY <1>1, Layout DEF WordNat
  <2> QED BY <2>1, Layout, WrapTyped
<1> DEFINE x == Block(Wrap(q[i].addr + n), q[i].len - n)
           y == Block(q[i].addr, q[i].len - n)
<1>4. /\ x \in WordBlock /\ EndOK(x.addr, x.len)
      /\ y \in WordBlock /\ EndOK(y.addr, y.len)
  BY <1>1, <1>2, <1>3 DEF Block, WordBlock, WordNat
<1>5. ListEnds([q EXCEPT ![i] = x]) /\ ListEnds([q EXCEPT ![i] = y])
  <2> HIDE DEF x, y
  <2> QED BY <1>4, ExceptEnds
<1>6. ListEnds(RemoveAt(q, i))
  BY WithoutEnds
<1> QED BY <1>5, <1>6 DEF TakeLow, TakeHigh

LEMMA MergedEnds ==
  ASSUME NEW q \in Seq(WordBlock), NEW i \in 1..Len(q), ListEnds(q)
  PROVE  ListEnds(Merged(q, i))
<1>1. CASE ~(i < Len(q) /\ Top(q[i]) = q[i + 1].addr)
  BY <1>1 DEF Merged
<1>2. CASE i < Len(q) /\ Top(q[i]) = q[i + 1].addr
  <2>1. i + 1 \in 1..Len(q)
    BY <1>2, WordBlocks
  <2>2. /\ q[i] \in WordBlock /\ WordNat(q[i].addr) /\ WordNat(q[i].len)
        /\ WordNat(q[i + 1].addr) /\ WordNat(q[i + 1].len)
        /\ EndOK(q[i].addr, q[i].len) /\ EndOK(q[i + 1].addr, q[i + 1].len)
    BY <2>1, WordBlocks DEF WordNat, ListEnds
  <2>3. Wrap(q[i].addr + q[i].len) = q[i + 1].addr
    BY <1>2 DEF Top
  <2>4. EndOK(q[i].addr, Wrap(q[i].len + q[i + 1].len))
    BY <2>2, <2>3, EndsJoin
  <2> DEFINE x == Longer(q[i], q[i + 1].len)
             p == [q EXCEPT ![i] = x]
  <2>5. x \in WordBlock
    BY <2>2, LongerTyped DEF WordNat
  <2>6. EndOK(x.addr, x.len)
    BY <2>4 DEF Longer, Block
  <2> HIDE DEF x
  <2>7. p \in Seq(WordBlock) /\ ListEnds(p) /\ Len(p) = Len(q)
    BY <2>5, <2>6, ExceptEnds
  <2>8. Merged(q, i) = RemoveAt(p, i + 1)
    BY <1>2 DEF Merged, x
  <2> HIDE DEF p
  <2> QED BY <2>1, <2>7, <2>8, WithoutEnds
<1> QED BY <1>1, <1>2

(* freemem takes back only what lies above the memory Xinu uses. *)
LEMMA ReleasedEnds ==
  ASSUME NEW q \in Seq(WordBlock), ListEnds(q),
         NEW b \in WordBlock, EndOK(b.addr, b.len)
  PROVE  ListEnds(Released(q, b.addr, b.len))
<1> DEFINE k == Before(q, b.addr)
           s == Block(b.addr, b.len)
<1>1. /\ b.addr \in 0..(WORD - 1) /\ b.len \in 0..(WORD - 1) /\ s \in WordBlock
      /\ s.addr = b.addr /\ s.len = b.len
  BY DEF WordBlock, Block
<1>2. b.addr \in Nat
  BY <1>1, Layout
<1>3. k \in 0..Len(q) /\ Len(q) \in Nat
  BY <1>2, WordBlocks, BeforeStops
<1>4. Released(q, b.addr, b.len) =
        IF k > 0 /\ Top(q[k]) = b.addr
        THEN Merged([q EXCEPT ![k] = Longer(@, b.len)], k)
        ELSE Merged(InsertAt(q, k + 1, s), k + 1)
  BY DEF Released
<1> HIDE DEF k, s
<1>5. ASSUME k > 0, Top(q[k]) = b.addr
      PROVE  ListEnds(Merged([q EXCEPT ![k] = Longer(@, b.len)], k))
  <2>1. k \in 1..Len(q) /\ q[k] \in WordBlock
    BY <1>3, <1>5, WordBlocks
  <2>2. /\ WordNat(q[k].addr) /\ WordNat(q[k].len) /\ EndOK(q[k].addr, q[k].len)
        /\ WordNat(b.addr) /\ WordNat(b.len) /\ Wrap(q[k].addr + q[k].len) = b.addr
    BY <1>1, <1>5, <2>1, WordBlocks DEF WordNat, ListEnds, Top
  <2>3. EndOK(q[k].addr, Wrap(q[k].len + b.len))
    BY <2>2, EndsJoin
  <2> DEFINE x == Longer(q[k], b.len)
             p == [q EXCEPT ![k] = x]
  <2>4. x \in WordBlock
    BY <1>1, <2>1, LongerTyped
  <2>5. EndOK(x.addr, x.len)
    BY <2>3 DEF Longer, Block
  <2> HIDE DEF x
  <2>6. p \in Seq(WordBlock) /\ ListEnds(p) /\ Len(p) = Len(q)
    BY <2>1, <2>4, <2>5, ExceptEnds
  <2> HIDE DEF p
  <2>7. ListEnds(Merged(p, k))
    BY <2>1, <2>6, MergedEnds
  <2> QED BY <2>7 DEF p, x
<1>6. ListEnds(Merged(InsertAt(q, k + 1, s), k + 1))
  <2>1. PICK i \in 1..(Len(q) + 1) : i = k + 1
    BY <1>3
  <2>2. /\ InsertAt(q, i, s) \in Seq(WordBlock) /\ Len(InsertAt(q, i, s)) = Len(q) + 1
        /\ \A j \in 1..(Len(q) + 1) :
             InsertAt(q, i, s)[j] = IF j < i THEN q[j] ELSE IF j = i THEN s ELSE q[j - 1]
    <3>1. s \in WordBlock /\ q \in Seq(WordBlock) /\ i \in 1..(Len(q) + 1)
      BY <1>1
    <3>2. IsWith(InsertAt(q, i, s), q, i, s)
      BY <3>1, InsertsWord
    <3> QED BY <3>2 DEF IsWith
  <2>3. ListEnds(InsertAt(q, i, s))
    <3> SUFFICES ASSUME NEW j \in 1..(Len(q) + 1)
                 PROVE  EndOK(InsertAt(q, i, s)[j].addr, InsertAt(q, i, s)[j].len)
      BY <2>2 DEF ListEnds
    <3>1. CASE j < i
      <4>1. j \in 1..Len(q)
        BY <1>3, <2>1, <3>1
      <4> QED BY <2>2, <3>1, <4>1 DEF ListEnds
    <3>2. CASE j = i
      BY <1>1, <2>2, <3>2
    <3>3. CASE j > i
      <4>1. j - 1 \in 1..Len(q)
        BY <1>3, <2>1, <3>3
      <4> QED BY <2>2, <3>3, <4>1 DEF ListEnds
    <3> QED BY <1>3, <3>1, <3>2, <3>3
  <2> QED BY <1>3, <2>1, <2>2, <2>3, MergedEnds
<1> QED BY <1>4, <1>5, <1>6

(* What the steps of the pools do to the heap. *)
LEMMA HeapSteps ==
  ASSUME HeapTyped, [PoolsNext]_poolvars
  PROVE  \/ list'["mem"] = list["mem"] /\ heap' = heap /\ stacks' = stacks
         \/ \E n \in Nat : Allots(n) \/ GivesBack(n)
         \/ \E nbytes \in Requests : Getstk(nbytes)
         \/ \E stk \in stacks : Freestk(stk)
<1>1. CASE UNCHANGED memvars
  BY <1>1 DEF memvars
<1>2. CASE MemNext
  <2>1. CASE \E nbytes \in Requests : Getmem(nbytes)
    BY <2>1, GetmemAllots
  <2>2. CASE \E l \in Paged, nbytes \in PageSizes :
               \/ Getpages(l, nbytes)
               \/ \E a \in Start(l)..Limit(l) : Freepages(l, a, nbytes)
    <3>1. PICK l \in Paged : /\ \E q : list' = [list EXCEPT ![l] = q]
                             /\ UNCHANGED <<heap, stacks>>
      BY <2>2 DEF Getpages, Freepages
    <3>2. list'["mem"] = list["mem"]
      BY <3>1 DEF Paged, HeapTyped, Lists
    <3> QED BY <3>1, <3>2
  <2> QED BY <1>2, <2>1, <2>2 DEF MemNext
<1>3. CASE \E shape \in Shapes : Mkbufpool(shape[1], shape[2])
  <2>1. PICK shape \in Shapes : Mkbufpool(shape[1], shape[2])
    BY <1>3
  <2>2. shape[1] \in Int /\ shape[2] \in Int
    BY BufferAssumption
  <2>3. \E n \in Nat : Allots(n) \/ GivesBack(n)
    BY <2>1, <2>2, MkbufpoolIs
  <2> QED BY <2>3
<1>4. CASE \/ \E p \in Holder : \/ \E pool \in Pools : Getbuf(p, pool)
                                \/ GetbufResumes(p) \/ KillWaiter(p)
           \/ \E b \in taken : Freebuf(b)
  <2>1. UNCHANGED memvars
    BY <1>4 DEF Getbuf, GetbufResumes, KillWaiter, Freebuf
  <2> QED BY <1>1, <2>1
<1>5. CASE UNCHANGED poolvars
  BY <1>1, <1>5 DEF poolvars
<1> QED BY <1>2, <1>3, <1>4, <1>5 DEF PoolsNext

(* getmem's block comes from the low end of block i of the list. *)
TakesLow(i, n) ==
  LET q == list["mem"] IN
  /\ q \in Seq(WordBlock) /\ i \in 1..Len(q) /\ n \in 1..(WORD - 1) /\ n <= q[i].len
  /\ NewBlock(n).addr = q[i].addr /\ NewBlock(n).len = n /\ NewBlock(n).by = "getmem"

LEMMA AllotsTakes ==
  ASSUME HeapTyped, NEW n \in Nat, Allots(n)
  PROVE  /\ \E i : TakesLow(i, n) /\ list'["mem"] = TakeLow(list["mem"], i, n)
         /\ heap' = heap \cup {NewBlock(n)} /\ stacks' = stacks
<1> DEFINE i == Min(Fits(list["mem"], n))
<1>1. /\ n > 0 /\ Fits(list["mem"], n) # {} /\ DOMAIN list = Lists
      /\ list' = [list EXCEPT !["mem"] = TakeLow(@, i, n)]
      /\ heap' = heap \cup {NewBlock(n)} /\ stacks' = stacks
  BY DEF Allots, NewBlock, HeapTyped
<1>2. TakesLow(i, n)
  BY <1>1, NewBlockIs DEF TakesLow
<1> HIDE DEF i
<1>3. list'["mem"] = TakeLow(list["mem"], i, n)
  BY <1>1 DEF Lists
<1> QED BY <1>1, <1>2, <1>3

LEMMA GivesBackTakes ==
  ASSUME HeapTyped, NEW n \in Nat, GivesBack(n)
  PROVE  /\ \E i : /\ TakesLow(i, n)
                   /\ list'["mem"] = Released(TakeLow(list["mem"], i, n), NewBlock(n).addr, n)
         /\ NewBlock(n).addr >= PT_START
         /\ heap' = heap /\ stacks' = stacks
<1> DEFINE i == Min(Fits(list["mem"], n))
<1>1. /\ n > 0 /\ Fits(list["mem"], n) # {} /\ DOMAIN list = Lists
      /\ list' = [list EXCEPT !["mem"] = Released(TakeLow(list["mem"], i, n), NewBlock(n).addr, n)]
      /\ heap' = heap /\ stacks' = stacks
      /\ ~Refused(TakeLow(list["mem"], i, n), NewBlock(n))
  BY DEF GivesBack, HeapTyped
<1>2. TakesLow(i, n)
  BY <1>1, NewBlockIs DEF TakesLow
<1> HIDE DEF i
<1>3. list'["mem"] = Released(TakeLow(list["mem"], i, n), NewBlock(n).addr, n)
  BY <1>1 DEF Lists
<1>4. NewBlock(n).addr >= PT_START
  BY <1>1 DEF Refused, minheap
<1> QED BY <1>1, <1>2, <1>3, <1>4

(* getstk's stack comes from the high end of one. *)
TakesHigh(i, n, stk) ==
  LET q == list["mem"] IN
  /\ i \in 1..Len(q) /\ n \in 1..(WORD - 1) /\ n <= q[i].len
  /\ list'["mem"] = TakeHigh(q, i, n)
  /\ stk.addr = Wrap(q[i].addr + q[i].len - n) /\ stk.len = n /\ stk.by = "getstk"
  /\ heap' = heap \cup {stk} /\ stacks' = stacks \cup {stk}

LEMMA GetstkTakes ==
  ASSUME HeapTyped, NEW nbytes \in Requests, Getstk(nbytes)
  PROVE  \E i, n, stk : TakesHigh(i, n, stk)
<1> DEFINE n   == Units(nbytes)
           i   == Max(Fits(list["mem"], n))
           stk == Given(Wrap(list["mem"][i].addr + list["mem"][i].len - n), n, "getstk")
<1>1. /\ n > 0 /\ Fits(list["mem"], n) # {} /\ DOMAIN list = Lists
      /\ list' = [list EXCEPT !["mem"] = TakeHigh(@, i, n)]
      /\ heap' = heap \cup {stk} /\ stacks' = stacks \cup {stk}
      /\ list["mem"] \in Seq(WordBlock)
  BY DEF Getstk, HeapTyped
<1>2. n \in Nat
  BY UnitsTyped, Layout
<1> HIDE DEF n
<1>3. i \in 1..Len(list["mem"]) /\ n <= list["mem"][i].len
  BY <1>1, <1>2, FitsTyped
<1>4. n \in 1..(WORD - 1)
  BY <1>1, <1>2, AllocationTyped
<1> HIDE DEF i
<1>5. list'["mem"] = TakeHigh(list["mem"], i, n)
  BY <1>1 DEF Lists
<1>6. /\ stk.addr = Wrap(list["mem"][i].addr + list["mem"][i].len - n)
      /\ stk.len = n /\ stk.by = "getstk"
  BY DEF Given
<1> HIDE DEF stk
<1>7. TakesHigh(i, n, stk)
  BY <1>1, <1>3, <1>4, <1>5, <1>6 DEF TakesHigh
<1> QED BY <1>7

LEMMA FreestkReleases ==
  ASSUME HeapTyped, NEW stk \in stacks, Freestk(stk)
  PROVE  /\ \/ list'["mem"] = list["mem"]
            \/ /\ stk.addr >= PT_START
               /\ list'["mem"] = Released(list["mem"], stk.addr, stk.len)
         /\ heap' \in {heap, heap \ {stk}} /\ stacks' = stacks \ {stk}
         /\ stk.addr \in 0..(WORD - 1) /\ stk.len \in 1..(WORD - 1)
<1>1. /\ DOMAIN list = Lists /\ stk \in heap
      /\ heap \subseteq [addr : 0..(WORD - 1), len : 1..(WORD - 1), by : {"getmem", "getstk"}]
  BY DEF HeapTyped
<1>2. /\ list' = [list EXCEPT !["mem"] = Freemem(@, stk)]
      /\ heap' \in {heap, heap \ {stk}} /\ stacks' = stacks \ {stk}
  BY DEF Freestk
<1>3. list'["mem"] = Freemem(list["mem"], stk)
  BY <1>1, <1>2 DEF Lists
<1>4. stk.addr \in 0..(WORD - 1) /\ stk.len \in 1..(WORD - 1)
  BY <1>1
<1>5. \/ Freemem(list["mem"], stk) = list["mem"]
      \/ /\ stk.addr >= PT_START
         /\ Freemem(list["mem"], stk) = Released(list["mem"], stk.addr, stk.len)
  BY DEF Freemem, Refused, minheap
<1> QED BY <1>2, <1>3, <1>4, <1>5

EndInv ==
  /\ ListEnds(list["mem"])
  /\ \A b \in heap : EndOK(b.addr, b.len)
  /\ \A stk \in stacks : stk.by = "getstk"

LEMMA EndInvInit == MemInit => EndInv
<1> SUFFICES ASSUME MemInit PROVE EndInv
  OBVIOUS
<1>1. /\ heap = {} /\ stacks = {}
      /\ list["mem"] = << Block(end, Wrap(HOLESTART - end - 1)),
                          Block(HOLEEND, PT_START - HOLEEND - NULLSTK - 1) >>
  BY DEF MemInit, Lists
<1>2. EndOK(end, Wrap(HOLESTART - end - 1))
  BY Layout DEF EndOK, Reach, Wrap
<1>3. EndOK(HOLEEND, PT_START - HOLEEND - NULLSTK - 1)
  BY Layout DEF EndOK, Reach
<1>4. ListEnds(list["mem"])
  BY <1>1, <1>2, <1>3 DEF ListEnds, Block
<1> QED BY <1>1, <1>4 DEF EndInv

LEMMA EndInvNext == HeapTyped /\ EndInv /\ [PoolsNext]_poolvars => EndInv'
<1> SUFFICES ASSUME HeapTyped, EndInv, [PoolsNext]_poolvars PROVE EndInv'
  OBVIOUS
<1>1. /\ list["mem"] \in Seq(WordBlock) /\ ListEnds(list["mem"])
      /\ \A b \in heap : EndOK(b.addr, b.len)
      /\ \A stk \in stacks : stk.by = "getstk"
      /\ stacks \subseteq heap
  BY DEF EndInv, HeapTyped
<1>a. \A i \in 1..Len(list["mem"]) :
        /\ WordNat(list["mem"][i].addr) /\ WordNat(list["mem"][i].len)
        /\ EndOK(list["mem"][i].addr, list["mem"][i].len)
  BY <1>1, WordBlocks DEF WordNat, ListEnds
<1>b. \A n \in 1..(WORD - 1) : n \in Nat
  BY Layout
<1>2. CASE list'["mem"] = list["mem"] /\ heap' = heap /\ stacks' = stacks
  <2>1. ListEnds(list'["mem"])
    BY <1>1, <1>2
  <2> QED BY <1>1, <1>2, <2>1 DEF EndInv, ListEnds, EndOK, Reach
<1>3. ASSUME NEW q, ListEnds(q), list'["mem"] = q,
             \A b \in heap' : EndOK(b.addr, b.len),
             \A stk \in stacks' : stk.by = "getstk"
      PROVE  EndInv'
  BY <1>3 DEF EndInv, ListEnds, EndOK, Reach
<1>4. ASSUME NEW n \in Nat, Allots(n) PROVE EndInv'
  <2>1. PICK i : TakesLow(i, n) /\ list'["mem"] = TakeLow(list["mem"], i, n)
    BY <1>4, AllotsTakes
  <2>2. heap' = heap \cup {NewBlock(n)} /\ stacks' = stacks
    BY <1>4, AllotsTakes
  <2>3. ListEnds(TakeLow(list["mem"], i, n))
    BY <1>1, <2>1, TakenEnds DEF TakesLow
  <2>4. EndOK(NewBlock(n).addr, NewBlock(n).len)
    <3>1. i \in 1..Len(list["mem"]) /\ n <= list["mem"][i].len
      BY <2>1 DEF TakesLow
    <3>2. EndOK(list["mem"][i].addr, n)
      BY <1>a, <3>1, EndTakesLow
    <3> QED BY <2>1, <3>2 DEF TakesLow
  <2> QED BY <1>1, <1>3, <2>1, <2>2, <2>3, <2>4
<1>5. ASSUME NEW n \in Nat, GivesBack(n) PROVE EndInv'
  <2>1. PICK i : /\ TakesLow(i, n)
                 /\ list'["mem"] = Released(TakeLow(list["mem"], i, n), NewBlock(n).addr, n)
    BY <1>5, GivesBackTakes
  <2>2. heap' = heap /\ stacks' = stacks
    BY <1>5, GivesBackTakes
  <2>3. /\ i \in 1..Len(list["mem"]) /\ n <= list["mem"][i].len /\ n \in 1..(WORD - 1)
        /\ NewBlock(n).addr = list["mem"][i].addr
    BY <2>1 DEF TakesLow
  <2>4. EndOK(list["mem"][i].addr, n)
    BY <1>a, <2>3, EndTakesLow
  <2> DEFINE rest == TakeLow(list["mem"], i, n)
             b == Block(NewBlock(n).addr, n)
  <2>5. rest \in Seq(WordBlock) /\ ListEnds(rest)
    BY <1>1, <2>3, Layout, TakenEnds, TakenTyped
  <2>6. b \in WordBlock /\ b.addr = NewBlock(n).addr /\ b.len = n
    BY <1>a, <2>3, Layout DEF Block, WordBlock, WordNat
  <2> HIDE DEF rest, b
  <2>7. ListEnds(Released(rest, b.addr, b.len))
    BY <2>3, <2>4, <2>5, <2>6, ReleasedEnds
  <2> QED BY <1>1, <1>3, <2>1, <2>2, <2>6, <2>7 DEF rest
<1>6. ASSUME NEW nbytes \in Requests, Getstk(nbytes) PROVE EndInv'
  <2>0. PICK i, n, stk : TakesHigh(i, n, stk)
    BY <1>6, GetstkTakes
  <2>1. /\ i \in 1..Len(list["mem"]) /\ n \in 1..(WORD - 1) /\ n <= list["mem"][i].len
        /\ list'["mem"] = TakeHigh(list["mem"], i, n)
        /\ stk.addr = Wrap(list["mem"][i].addr + list["mem"][i].len - n)
        /\ stk.len = n /\ stk.by = "getstk"
        /\ heap' = heap \cup {stk} /\ stacks' = stacks \cup {stk}
    BY <2>0 DEF TakesHigh
  <2>2. ListEnds(TakeHigh(list["mem"], i, n))
    BY <1>1, <1>b, <2>1, TakenEnds
  <2>3. EndOK(stk.addr, stk.len)
    BY <1>a, <1>b, <2>1, EndTakesHigh
  <2> QED BY <1>1, <1>3, <2>1, <2>2, <2>3
<1>7. ASSUME NEW stk \in stacks, Freestk(stk) PROVE EndInv'
  <2>1. /\ \/ list'["mem"] = list["mem"]
           \/ list'["mem"] = Released(list["mem"], stk.addr, stk.len)
        /\ heap' \subseteq heap /\ stacks' \subseteq stacks
        /\ stk.addr \in 0..(WORD - 1) /\ stk.len \in 1..(WORD - 1)
    BY <1>7, FreestkReleases
  <2> DEFINE b == Block(stk.addr, stk.len)
  <2>2. b \in WordBlock /\ b.addr = stk.addr /\ b.len = stk.len /\ EndOK(b.addr, b.len)
    BY <1>1, <2>1, Layout DEF Block, WordBlock
  <2> HIDE DEF b
  <2>3. ListEnds(Released(list["mem"], b.addr, b.len))
    BY <1>1, <2>2, ReleasedEnds
  <2> QED BY <1>1, <1>3, <2>1, <2>2, <2>3
<1> QED BY <1>2, <1>4, <1>5, <1>6, <1>7, HeapSteps

(* While all that getmem handed out lies between the program and the page  *)
(* tables, only the first block of the list begins there, and behind all   *)
(* of it: no address is handed out a second time.                          *)
InRoom(a) == end <= a /\ a < PT_START

Behind(H, a) == \A b \in H : b.by = "getmem" => b.addr + b.len <= a
Roomy(H)     == \A b \in H : b.by = "getmem" => end <= b.addr /\ b.addr + b.len <= PT_START

OnlyFirst(q) == \A i \in 1..Len(q) : InRoom(q[i].addr) => i = 1

RoomInv ==
  Roomy(heap) =>
    /\ OnlyFirst(list["mem"])
    /\ \A i \in 1..Len(list["mem"]) :
         InRoom(list["mem"][i].addr) => Behind(heap, list["mem"][i].addr)

(* What begins there in r is the first block, as in q. *)
SameRoom(r, q) ==
  \A j \in 1..Len(r) : InRoom(r[j].addr) => j = 1 /\ 1 \in 1..Len(q) /\ r[1].addr = q[1].addr

LEMMA SameRoomTwice ==
  ASSUME NEW p, NEW q, NEW r, SameRoom(q, p), SameRoom(r, q)
  PROVE  SameRoom(r, p) /\ OnlyFirst(r)
BY DEF SameRoom, OnlyFirst

LEMMA ExceptRoom ==
  ASSUME NEW q \in Seq(WordBlock), OnlyFirst(q), NEW i \in 1..Len(q), NEW b \in WordBlock,
         b.addr = q[i].addr \/ ~InRoom(b.addr)
  PROVE  [q EXCEPT ![i] = b] \in Seq(WordBlock) /\ SameRoom([q EXCEPT ![i] = b], q)
<1> DEFINE r == [q EXCEPT ![i] = b]
<1>1. /\ r \in Seq(WordBlock) /\ Len(r) = Len(q) /\ Len(q) \in Nat
      /\ \A j \in 1..Len(q) : r[j] = IF j = i THEN b ELSE q[j]
  BY LenProperties
<1> HIDE DEF r
<1>2. SameRoom(r, q)
  BY <1>1 DEF SameRoom, OnlyFirst
<1> QED BY <1>1, <1>2 DEF r

LEMMA WithoutRoom ==
  ASSUME NEW q \in Seq(WordBlock), OnlyFirst(q), NEW i \in 1..Len(q)
  PROVE  SameRoom(RemoveAt(q, i), q)
<1> DEFINE r == RemoveAt(q, i)
<1>1. /\ Len(r) = Len(q) - 1 /\ Len(q) \in Nat
      /\ \A j \in 1..(Len(q) - 1) : r[j] = IF j < i THEN q[j] ELSE q[j + 1]
  BY RemoveAtElements, LenProperties
<1> HIDE DEF r
<1>2. ASSUME NEW j \in 1..Len(r), InRoom(r[j].addr)
      PROVE  j = 1 /\ 1 \in 1..Len(q) /\ r[1].addr = q[1].addr
  <2>1. CASE j < i
    <3>1. r[j] = q[j] /\ j \in 1..Len(q)
      BY <1>1, <2>1
    <3>2. j = 1
      BY <1>2, <3>1 DEF OnlyFirst
    <3> QED BY <3>1, <3>2
  <2>2. CASE j >= i
    <3>1. r[j] = q[j + 1] /\ j + 1 \in 1..Len(q) /\ j + 1 # 1
      BY <1>1, <2>2
    <3> QED BY <1>2, <3>1 DEF OnlyFirst
  <2> QED BY <1>1, <2>1, <2>2
<1>3. SameRoom(r, q)
  BY <1>2 DEF SameRoom
<1> QED BY <1>3 DEF r

LEMMA InsertRoom ==
  ASSUME NEW q \in Seq(WordBlock), OnlyFirst(q), NEW i \in 1..(Len(q) + 1),
         NEW b \in WordBlock, ~InRoom(b.addr),
         i = 1 => \A j \in 1..Len(q) : ~InRoom(q[j].addr)
  PROVE  /\ InsertAt(q, i, b) \in Seq(WordBlock) /\ Len(InsertAt(q, i, b)) = Len(q) + 1
         /\ SameRoom(InsertAt(q, i, b), q)
<1> DEFINE r == InsertAt(q, i, b)
<1>1. /\ r \in Seq(WordBlock) /\ Len(r) = Len(q) + 1
      /\ \A j \in 1..(Len(q) + 1) : r[j] = IF j < i THEN q[j] ELSE IF j = i THEN b ELSE q[j - 1]
  <2>1. IsWith(r, q, i, b)
    BY InsertsWord
  <2> QED BY <2>1 DEF IsWith
<1>a. Len(q) \in Nat
  BY LenProperties
<1> HIDE DEF r
<1>2. ASSUME NEW j \in 1..Len(r), InRoom(r[j].addr)
      PROVE  j = 1 /\ 1 \in 1..Len(q) /\ r[1].addr = q[1].addr
  <2>1. CASE j < i
    <3>1. r[j] = q[j] /\ j \in 1..Len(q)
      BY <1>1, <1>a, <2>1
    <3>2. j = 1
      BY <1>2, <3>1 DEF OnlyFirst
    <3> QED BY <3>1, <3>2
  <2>2. CASE j = i
    BY <1>1, <1>2, <2>2
  <2>3. CASE j > i
    <3>1. r[j] = q[j - 1] /\ j - 1 \in 1..Len(q)
      BY <1>1, <1>a, <2>3
    <3>2. j - 1 = 1
      BY <1>2, <3>1 DEF OnlyFirst
    <3>3. i = 1
      BY <1>a, <2>3, <3>2
    <3> QED BY <1>2, <3>1, <3>3
  <2> QED BY <1>1, <1>a, <2>1, <2>2, <2>3
<1>3. SameRoom(r, q)
  BY <1>2 DEF SameRoom
<1> QED BY <1>1, <1>3 DEF r

LEMMA TakeHighRoom ==
  ASSUME NEW q \in Seq(WordBlock), OnlyFirst(q), NEW i \in 1..Len(q),
         NEW n \in Nat, n <= q[i].len
  PROVE  SameRoom(TakeHigh(q, i, n), q)
<1>1. q[i].addr \in 0..(WORD - 1) /\ q[i].len \in 0..(WORD - 1)
  BY WordBlocks
<1> DEFINE b == Block(q[i].addr, q[i].len - n)
<1>2. b \in WordBlock /\ b.addr = q[i].addr
  BY <1>1, Layout DEF Block, WordBlock
<1> HIDE DEF b
<1>3. SameRoom([q EXCEPT ![i] = b], q) /\ SameRoom(RemoveAt(q, i), q)
  BY <1>2, ExceptRoom, WithoutRoom
<1> QED BY <1>3 DEF TakeHigh, b

(* The rest of the block begins where the part taken ends. *)
LEMMA TakeLowRoom ==
  ASSUME NEW q \in Seq(WordBlock), OnlyFirst(q), NEW i \in 1..Len(q),
         NEW n \in Nat, n <= q[i].len
  PROVE  /\ TakeLow(q, i, n) \in Seq(WordBlock)
         /\ ~InRoom(Wrap(q[i].addr + n)) => SameRoom(TakeLow(q, i, n), q)
         /\ i = 1 => \A j \in 1..Len(TakeLow(q, i, n)) :
                       InRoom(TakeLow(q, i, n)[j].addr) =>
                         j = 1 /\ TakeLow(q, i, n)[j].addr = Wrap(q[i].addr + n)
<1>1. q[i].addr \in 0..(WORD - 1) /\ q[i].len \in 0..(WORD - 1) /\ n \in 0..(WORD - 1)
  <2>1. q[i].addr \in 0..(WORD - 1) /\ q[i].len \in 0..(WORD - 1)
    BY WordBlocks
  <2> QED BY <2>1, Layout
<1> DEFINE b == Block(Wrap(q[i].addr + n), q[i].len - n)
<1>2. b \in WordBlock /\ b.addr = Wrap(q[i].addr + n)
  <2>1. Wrap(q[i].addr + n) \in 0..(WORD - 1) /\ q[i].len - n \in 0..(WORD - 1)
    BY <1>1, Layout, WrapTyped
  <2> QED BY <2>1 DEF Block, WordBlock
<1> DEFINE r == TakeLow(q, i, n)
<1>3. r = IF q[i].len = n THEN RemoveAt(q, i) ELSE [q EXCEPT ![i] = b]
  BY DEF TakeLow
<1> HIDE DEF b
<1>4. r \in Seq(WordBlock)
  BY <1>1, TakenTyped
<1> HIDE DEF r
<1>5. SameRoom(RemoveAt(q, i), q)
  BY WithoutRoom
<1>6. ASSUME ~InRoom(Wrap(q[i].addr + n)) PROVE SameRoom(r, q)
  BY <1>2, <1>3, <1>5, <1>6, ExceptRoom
<1>7. ASSUME i = 1, NEW j \in 1..Len(r), InRoom(r[j].addr)
      PROVE  j = 1 /\ r[j].addr = Wrap(q[i].addr + n)
  <2>1. CASE q[i].len = n
    <3>1. /\ Len(r) = Len(q) - 1 /\ Len(q) \in Nat
          /\ \A k \in 1..(Len(q) - 1) : r[k] = IF k < i THEN q[k] ELSE q[k + 1]
      BY <1>3, <2>1, RemoveAtElements, LenProperties
    <3>2. r[j] = q[j + 1] /\ j + 1 \in 1..Len(q) /\ j + 1 # 1
      BY <1>7, <3>1
    <3> QED BY <1>7, <3>2 DEF OnlyFirst
  <2>2. CASE q[i].len # n
    <3>1. /\ Len(r) = Len(q) /\ \A k \in 1..Len(q) : r[k] = IF k = i THEN b ELSE q[k]
      BY <1>3, <2>2, LenProperties
    <3> QED BY <1>2, <1>7, <3>1 DEF OnlyFirst
  <2> QED BY <2>1, <2>2
<1> QED BY <1>4, <1>6, <1>7 DEF r

LEMMA MergedRoom ==
  ASSUME NEW q \in Seq(WordBlock), OnlyFirst(q), NEW i \in 1..Len(q)
  PROVE  SameRoom(Merged(q, i), q)
<1>1. CASE ~(i < Len(q) /\ Top(q[i]) = q[i + 1].addr)
  <2>1. Merged(q, i) = q
    BY <1>1 DEF Merged
  <2>2. SameRoom(q, q)
    BY DEF SameRoom, OnlyFirst
  <2> QED BY <2>1, <2>2
<1>2. CASE i < Len(q) /\ Top(q[i]) = q[i + 1].addr
  <2>1. i + 1 \in 1..Len(q)
    BY <1>2, WordBlocks
  <2>2. q[i] \in WordBlock /\ q[i + 1].len \in 0..(WORD - 1)
    BY <2>1, WordBlocks
  <2> DEFINE x == Longer(q[i], q[i + 1].len)
             p == [q EXCEPT ![i] = x]
  <2>3. x \in WordBlock /\ x.addr = q[i].addr
    BY <2>2, LongerTyped DEF Longer, Block
  <2> HIDE DEF x
  <2>4. p \in Seq(WordBlock) /\ SameRoom(p, q) /\ Len(p) = Len(q)
    BY <2>3, ExceptRoom
  <2>5. Merged(q, i) = RemoveAt(p, i + 1)
    BY <1>2 DEF Merged, x
  <2> HIDE DEF p
  <2>6. OnlyFirst(p)
    BY <2>4 DEF SameRoom, OnlyFirst
  <2>7. SameRoom(RemoveAt(p, i + 1), p)
    BY <2>1, <2>4, <2>6, WithoutRoom
  <2> QED BY <2>4, <2>5, <2>7, SameRoomTwice
<1> QED BY <1>1, <1>2

LEMMA ReleasedRoom ==
  ASSUME NEW q \in Seq(WordBlock), OnlyFirst(q), NEW b \in WordBlock, b.addr >= PT_START
  PROVE  SameRoom(Released(q, b.addr, b.len), q)
<1> DEFINE k == Before(q, b.addr)
           s == Block(b.addr, b.len)
<1>1. /\ b.addr \in 0..(WORD - 1) /\ b.len \in 0..(WORD - 1) /\ s \in WordBlock
      /\ s.addr = b.addr
  BY DEF WordBlock, Block
<1>2. b.addr \in Nat /\ ~InRoom(s.addr)
  BY <1>1, Layout DEF InRoom
<1>3. /\ k \in 0..Len(q) /\ Len(q) \in Nat
      /\ k < Len(q) => q[k + 1].addr >= b.addr
  BY <1>2, WordBlocks, BeforeStops
<1>4. Released(q, b.addr, b.len) =
        IF k > 0 /\ Top(q[k]) = b.addr
        THEN Merged([q EXCEPT ![k] = Longer(@, b.len)], k)
        ELSE Merged(InsertAt(q, k + 1, s), k + 1)
  BY DEF Released
<1> HIDE DEF k, s
<1>5. ASSUME k > 0 PROVE SameRoom(Merged([q EXCEPT ![k] = Longer(@, b.len)], k), q)
  <2>1. k \in 1..Len(q) /\ q[k] \in WordBlock
    BY <1>3, <1>5, WordBlocks
  <2> DEFINE x == Longer(q[k], b.len)
             p == [q EXCEPT ![k] = x]
  <2>2. x \in WordBlock /\ x.addr = q[k].addr
    BY <1>1, <2>1, LongerTyped DEF Longer, Block
  <2> HIDE DEF x
  <2>3. p \in Seq(WordBlock) /\ SameRoom(p, q) /\ Len(p) = Len(q)
    BY <2>1, <2>2, ExceptRoom
  <2> HIDE DEF p
  <2>4. OnlyFirst(p)
    BY <2>3 DEF SameRoom, OnlyFirst
  <2>5. SameRoom(Merged(p, k), p)
    BY <2>1, <2>3, <2>4, MergedRoom
  <2>6. SameRoom(Merged(p, k), q)
    BY <2>3, <2>5, SameRoomTwice
  <2> QED BY <2>6 DEF p, x
<1>6. SameRoom(Merged(InsertAt(q, k + 1, s), k + 1), q)
  <2>1. PICK i \in 1..(Len(q) + 1) : i = k + 1
    BY <1>3
  <2>2. ASSUME i = 1, NEW j \in 1..Len(q) PROVE ~InRoom(q[j].addr)
    <3>1. k < Len(q) /\ q[1].addr >= b.addr
      BY <1>3, <2>1, <2>2
    <3>2. ~InRoom(q[1].addr)
      <4>1. 1 \in 1..Len(q)
        BY <1>3, <2>2
      <4>2. q[1].addr \in 0..(WORD - 1)
        BY <4>1, WordBlocks
      <4> QED BY <1>2, <3>1, <4>2, Layout DEF InRoom
    <3> QED BY <3>2 DEF OnlyFirst
  <2> DEFINE p == InsertAt(q, i, s)
  <2>3. p \in Seq(WordBlock) /\ Len(p) = Len(q) + 1 /\ SameRoom(p, q)
    BY <1>1, <1>2, <2>2, InsertRoom
  <2> HIDE DEF p
  <2>4. OnlyFirst(p)
    BY <2>3 DEF SameRoom, OnlyFirst
  <2>5. i \in 1..Len(p)
    BY <2>3
  <2>6. SameRoom(Merged(p, i), p)
    BY <2>3, <2>4, <2>5, MergedRoom
  <2>7. SameRoom(Merged(p, i), q)
    BY <2>3, <2>6, SameRoomTwice
  <2> QED BY <2>1, <2>7 DEF p
<1> QED BY <1>4, <1>5, <1>6

LEMMA RoomInvInit == MemInit => RoomInv
<1> SUFFICES ASSUME MemInit PROVE RoomInv
  OBVIOUS
<1>1. /\ heap = {}
      /\ list["mem"] = << Block(end, Wrap(HOLESTART - end - 1)),
                          Block(HOLEEND, PT_START - HOLEEND - NULLSTK - 1) >>
  BY DEF MemInit, Lists
<1>2. Len(list["mem"]) = 2 /\ list["mem"][2].addr = HOLEEND
  BY <1>1 DEF Block
<1>3. ~InRoom(HOLEEND)
  BY Layout DEF InRoom
<1>4. OnlyFirst(list["mem"])
  BY <1>2, <1>3 DEF OnlyFirst
<1> QED BY <1>1, <1>4 DEF RoomInv, Behind

(* What getmem handed out stays: only stacks are given back. *)
SameGetmem == \A b : b.by = "getmem" => (b \in heap' <=> b \in heap)

LEMMA RoomKept ==
  ASSUME RoomInv, SameGetmem, NEW r, list'["mem"] = r,
         OnlyFirst(list["mem"]) => SameRoom(r, list["mem"])
  PROVE  RoomInv'
<1>1. PICK q : q = list["mem"]
  OBVIOUS
<1> SUFFICES ASSUME Roomy(heap')
             PROVE  /\ OnlyFirst(r)
                    /\ \A i \in 1..Len(r) : InRoom(r[i].addr) => Behind(heap', r[i].addr)
  BY DEF RoomInv, Roomy, OnlyFirst, InRoom, Behind
<1>2. Roomy(heap)
  BY DEF SameGetmem, Roomy
<1>3. /\ OnlyFirst(q)
      /\ \A i \in 1..Len(q) : InRoom(q[i].addr) => Behind(heap, q[i].addr)
  BY <1>1, <1>2 DEF RoomInv
<1>4. SameRoom(r, q)
  BY <1>1, <1>3
<1>5. OnlyFirst(r)
  BY <1>4 DEF SameRoom, OnlyFirst
<1>6. ASSUME NEW i \in 1..Len(r), InRoom(r[i].addr) PROVE Behind(heap', r[i].addr)
  <2>1. i = 1 /\ 1 \in 1..Len(q) /\ r[i].addr = q[1].addr
    BY <1>4, <1>6 DEF SameRoom
  <2>2. Behind(heap, r[i].addr)
    BY <1>3, <1>6, <2>1
  <2> QED BY <2>2 DEF Behind, SameGetmem
<1> QED BY <1>5, <1>6

LEMMA RoomInvNext == HeapTyped /\ EndInv /\ RoomInv /\ [PoolsNext]_poolvars => RoomInv'
<1> SUFFICES ASSUME HeapTyped, EndInv, RoomInv, [PoolsNext]_poolvars PROVE RoomInv'
  OBVIOUS
<1>1. PICK q : q = list["mem"]
  OBVIOUS
<1>2. /\ q \in Seq(WordBlock) /\ ListEnds(q) /\ \A stk \in stacks : stk.by = "getstk"
      /\ \A b \in heap : b.addr \in 0..(WORD - 1) /\ b.len \in 1..(WORD - 1)
      /\ \A b \in heap : EndOK(b.addr, b.len)
      /\ stacks \subseteq heap
  BY <1>1 DEF EndInv, HeapTyped
<1>3. CASE list'["mem"] = list["mem"] /\ heap' = heap
  <2>1. SameGetmem
    BY <1>3 DEF SameGetmem
  <2>2. OnlyFirst(q) => SameRoom(q, q)
    BY DEF SameRoom, OnlyFirst
  <2> QED BY <1>1, <1>3, <2>1, <2>2, RoomKept
<1>4. ASSUME NEW n \in Nat, Allots(n) PROVE RoomInv'
  <2>1. PICK i : TakesLow(i, n) /\ list'["mem"] = TakeLow(q, i, n)
    BY <1>1, <1>4, AllotsTakes
  <2>2. PICK new : new = NewBlock(n)
    OBVIOUS
  <2>3. /\ heap' = heap \cup {new} /\ new.by = "getmem" /\ new.addr = q[i].addr /\ new.len = n
        /\ i \in 1..Len(q) /\ n \in 1..(WORD - 1) /\ n <= q[i].len
    BY <1>1, <1>4, <2>1, <2>2, AllotsTakes DEF TakesLow
  <2> DEFINE r == TakeLow(q, i, n)
  <2>4. list'["mem"] = r
    BY <2>1
  <2> SUFFICES ASSUME Roomy(heap')
               PROVE  /\ OnlyFirst(r)
                      /\ \A j \in 1..Len(r) : InRoom(r[j].addr) => Behind(heap', r[j].addr)
    BY <2>4 DEF RoomInv, Roomy, OnlyFirst, InRoom, Behind
  <2>5. Roomy(heap) /\ end <= q[i].addr /\ q[i].addr + n <= PT_START
    BY <2>3 DEF Roomy
  <2>6. /\ OnlyFirst(q)
        /\ \A j \in 1..Len(q) : InRoom(q[j].addr) => Behind(heap, q[j].addr)
    BY <1>1, <2>5 DEF RoomInv
  <2>7. q[i].addr \in Nat /\ InRoom(q[i].addr) /\ Wrap(q[i].addr + n) = q[i].addr + n
    <3>1. q[i].addr \in 0..(WORD - 1)
      BY <1>2, <2>3, WordBlocks
    <3> QED BY <2>3, <2>5, <3>1, Layout DEF InRoom, Wrap
  <2>8. i = 1 /\ Behind(heap, q[i].addr)
    <3>1. i \in 1..Len(q) /\ InRoom(q[i].addr)
      BY <2>3, <2>7
    <3>2. i = 1
      BY ONLY <2>6, <3>1, Zenon DEF OnlyFirst
    <3>3. Behind(heap, q[i].addr)
      BY ONLY <2>6, <3>1, Zenon
    <3> QED BY ONLY <3>2, <3>3
  <2>9. \A j \in 1..Len(r) : InRoom(r[j].addr) => j = 1 /\ r[j].addr = q[i].addr + n
    <3>1. \A j \in 1..Len(r) : InRoom(r[j].addr) => j = 1 /\ r[j].addr = Wrap(q[i].addr + n)
      BY <1>2, <2>3, <2>6, <2>8, TakeLowRoom
    <3> QED BY <2>7, <3>1
  <2> HIDE DEF r
  <2>10. Behind(heap', q[i].addr + n)
    <3> SUFFICES ASSUME NEW b \in heap', b.by = "getmem" PROVE b.addr + b.len <= q[i].addr + n
      BY DEF Behind
    <3>1. CASE b = new
      BY <2>3, <2>7, <3>1
    <3>2. CASE b \in heap
      <4>1. b.addr + b.len <= q[i].addr
        BY <2>8, <3>2 DEF Behind
      <4>2. b.addr \in Nat /\ b.len \in Nat
        BY <1>2, <3>2, Layout
      <4> QED BY <2>3, <2>7, <4>1, <4>2
    <3> QED BY <2>3, <3>1, <3>2
  <2> QED BY <2>9, <2>10 DEF OnlyFirst
<1>5. ASSUME NEW n \in Nat, GivesBack(n) PROVE RoomInv'
  <2>1. PICK i : TakesLow(i, n) /\ list'["mem"] = Released(TakeLow(q, i, n), NewBlock(n).addr, n)
    BY <1>1, <1>5, GivesBackTakes
  <2>2. /\ NewBlock(n).addr = q[i].addr /\ q[i].addr >= PT_START
        /\ i \in 1..Len(q) /\ n \in 1..(WORD - 1) /\ n <= q[i].len
    BY <1>1, <1>5, <2>1, GivesBackTakes DEF TakesLow
  <2>3. SameGetmem
    BY <1>5, GivesBackTakes DEF SameGetmem
  <2>4. WordNat(q[i].addr) /\ WordNat(q[i].len) /\ EndOK(q[i].addr, q[i].len)
    BY <1>2, <2>2, WordBlocks DEF ListEnds, WordNat
  <2>5. ~InRoom(Wrap(q[i].addr + n))
    <3>1. Wrap(q[i].addr + n) >= PT_START \/ Wrap(q[i].addr + n) < end
      BY <2>2, <2>4, EndTakesLow
    <3>2. Wrap(q[i].addr + n) \in 0..(WORD - 1)
      BY <2>2, <2>4, Layout, WrapTyped DEF WordNat
    <3> QED BY <3>1, <3>2, Layout DEF InRoom
  <2> DEFINE rest == TakeLow(q, i, n)
             b == Block(q[i].addr, n)
             r == Released(rest, b.addr, b.len)
  <2>6. b \in WordBlock /\ b.addr = q[i].addr /\ b.len = n
    BY <2>2, <2>4, Layout DEF Block, WordBlock, WordNat
  <2> HIDE DEF b
  <2>7. list'["mem"] = r
    BY <2>1, <2>2, <2>6
  <2>8. ASSUME OnlyFirst(q) PROVE SameRoom(r, q)
    <3>1. rest \in Seq(WordBlock) /\ SameRoom(rest, q)
      BY <1>2, <2>2, <2>5, <2>8, TakeLowRoom
    <3> HIDE DEF rest
    <3>2. OnlyFirst(rest)
      BY <3>1 DEF SameRoom, OnlyFirst
    <3>3. SameRoom(r, rest)
      BY <2>2, <2>6, <3>1, <3>2, ReleasedRoom
    <3> QED BY <3>1, <3>3, SameRoomTwice
  <2> HIDE DEF r
  <2> QED BY <1>1, <2>3, <2>7, <2>8, RoomKept
<1>6. ASSUME NEW nbytes \in Requests, Getstk(nbytes) PROVE RoomInv'
  <2>0. PICK i, n, stk : TakesHigh(i, n, stk)
    BY <1>6, GetstkTakes
  <2>1. /\ i \in 1..Len(q) /\ n \in 1..(WORD - 1) /\ n <= q[i].len
        /\ list'["mem"] = TakeHigh(q, i, n)
        /\ stk.by = "getstk" /\ heap' = heap \cup {stk}
    BY <1>1, <2>0 DEF TakesHigh
  <2>2. SameGetmem
    BY <2>1 DEF SameGetmem
  <2>3. n \in Nat
    BY <2>1, Layout
  <2>4. OnlyFirst(q) => SameRoom(TakeHigh(q, i, n), q)
    BY <1>2, <2>1, <2>3, TakeHighRoom
  <2> QED BY <1>1, <2>1, <2>2, <2>4, RoomKept
<1>7. ASSUME NEW stk \in stacks, Freestk(stk) PROVE RoomInv'
  <2>1. /\ \/ list'["mem"] = q
           \/ /\ stk.addr >= PT_START
              /\ list'["mem"] = Released(q, stk.addr, stk.len)
        /\ heap' \in {heap, heap \ {stk}}
        /\ stk.addr \in 0..(WORD - 1) /\ stk.len \in 1..(WORD - 1)
    BY <1>1, <1>7, FreestkReleases
  <2>2. SameGetmem
    <3>1. stk.by = "getstk"
      BY <1>2
    <3> QED BY <2>1, <3>1 DEF SameGetmem
  <2> DEFINE b == Block(stk.addr, stk.len)
  <2>3. b \in WordBlock /\ b.addr = stk.addr /\ b.len = stk.len
    BY <2>1, Layout DEF Block, WordBlock
  <2> HIDE DEF b
  <2>4. CASE list'["mem"] = q
    <3>1. OnlyFirst(q) => SameRoom(q, q)
      BY DEF SameRoom, OnlyFirst
    <3> QED BY <1>1, <2>2, <2>4, <3>1, RoomKept
  <2>5. CASE stk.addr >= PT_START /\ list'["mem"] = Released(q, stk.addr, stk.len)
    <3>1. OnlyFirst(q) => SameRoom(Released(q, b.addr, b.len), q)
      BY <1>2, <2>3, <2>5, ReleasedRoom
    <3> QED BY <1>1, <2>2, <2>3, <2>5, <3>1, RoomKept
  <2> QED BY <2>1, <2>4, <2>5
<1> QED BY <1>3, <1>4, <1>5, <1>6, <1>7, HeapSteps
-----------------------------------------------------------------------------
(* The buffers of a pool, free or taken, keep apart from each other and    *)
(* lie in the block the pool was cut from, which no other pool has.        *)
InPool(a, k) == a \in ToSet(buftab[k].next) \/ [addr |-> a, pool |-> k] \in taken
Width(k)     == buftab[k].size + IdSize

OnceEach(k) ==
  /\ IsInjective(buftab[k].next)
  /\ \A b \in taken : b.pool = k => b.addr \notin ToSet(buftab[k].next)

Spread(k) ==
  \A a, c : InPool(a, k) /\ InPool(c, k) /\ a # c
              => a + Width(k) <= c \/ c + Width(k) <= a

CutFrom(k, b) ==
  /\ b \in heap /\ b.by = "getmem"
  /\ \A a : InPool(a, k) => 8 * b.addr <= a /\ a + Width(k) <= 8 * (b.addr + b.len)

CutApart(base) ==
  /\ \A k \in Pools : CutFrom(k, base[k])
  /\ Roomy(heap) => \A j, k \in Pools : j # k => base[j] # base[k]

ApartInv ==
  /\ \A k \in Pools : OnceEach(k) /\ Spread(k)
  /\ \E base : CutApart(base)

(* What getmem handed out is never taken back. *)
GetmemStays == \A b \in heap : b.by = "getmem" => b \in heap'

LEMMA GetmemNeverFreed ==
  ASSUME HeapTyped, EndInv, [PoolsNext]_poolvars
  PROVE  GetmemStays
<1>1. CASE heap' = heap
  BY <1>1 DEF GetmemStays
<1>2. ASSUME NEW n \in Nat, Allots(n) PROVE GetmemStays
  BY <1>2, AllotsTakes DEF GetmemStays
<1>3. ASSUME NEW n \in Nat, GivesBack(n) PROVE GetmemStays
  BY <1>3, GivesBackTakes DEF GetmemStays
<1>4. ASSUME NEW nbytes \in Requests, Getstk(nbytes) PROVE GetmemStays
  BY <1>4, GetstkTakes DEF GetmemStays, TakesHigh
<1>5. ASSUME NEW stk \in stacks, Freestk(stk) PROVE GetmemStays
  <2>1. heap' \in {heap, heap \ {stk}} /\ stk.by = "getstk"
    BY <1>5, FreestkReleases DEF EndInv
  <2> QED BY <2>1 DEF GetmemStays
<1> QED BY <1>1, <1>2, <1>3, <1>4, <1>5, HeapSteps

SameMembers ==
  \A k \in Pools : /\ buftab'[k].size = buftab[k].size
                   /\ \A a : InPool(a, k)' <=> InPool(a, k)

LEMMA ApartKept ==
  ASSUME ApartInv, GetmemStays, Pools' = Pools, SameMembers, \A k \in Pools : OnceEach(k)'
  PROVE  ApartInv'
<1>1. \A k \in Pools : Width(k)' = Width(k)
  BY DEF SameMembers, Width
<1>2. ASSUME NEW k \in Pools PROVE Spread(k)'
  <2>1. Spread(k)
    BY DEF ApartInv
  <2> QED BY <1>1, <2>1 DEF Spread, SameMembers
<1>3. PICK base : CutApart(base)
  BY DEF ApartInv
<1>4. ASSUME NEW k \in Pools PROVE CutFrom(k, base[k])'
  <2>1. CutFrom(k, base[k])
    BY <1>3 DEF CutApart
  <2> QED BY <1>1, <2>1 DEF CutFrom, SameMembers, GetmemStays
<1>5. Roomy(heap') => Roomy(heap)
  BY DEF Roomy, GetmemStays
<1>6. CutApart(base)'
  BY <1>3, <1>4, <1>5 DEF CutApart, Roomy
<1> QED BY <1>2, <1>6 DEF ApartInv

LEMMA UnlinkApart ==
  ASSUME PoolsTyped, NEW k \in Pools, Len(buftab[k].next) > 0, Unlink(k), OnceEach(k),
         \A j \in Pools : OnceEach(j)
  PROVE  Pools' = Pools /\ SameMembers /\ \A j \in Pools : OnceEach(j)'
<1>1. /\ Pools' = Pools
      /\ \A j \in Pools : buftab'[j].size = buftab[j].size /\ (j # k => buftab'[j] = buftab[j])
      /\ buftab'[k].next = Tail(buftab[k].next)
  BY UnlinkKeeps
<1>2. PICK q \in Seq(Nat) : q = buftab[k].next
  BY PoolsAre
<1>3. /\ Head(q) \in ToSet(q) /\ ToSet(Tail(q)) = ToSet(q) \ {Head(q)} /\ IsInjective(Tail(q))
      /\ IsInjective(q)
  <2>1. q # <<>> /\ IsInjective(q)
    BY <1>2 DEF OnceEach
  <2> QED BY <2>1, TailSet
<1>4. taken' = taken \cup {[addr |-> Head(q), pool |-> k]}
  BY <1>2 DEF Unlink
<1>5. \A b \in taken : b.pool = k => b.addr \notin ToSet(q)
  BY <1>2 DEF OnceEach
<1>6. ASSUME NEW j \in Pools, NEW a PROVE InPool(a, j)' <=> InPool(a, j)
  <2>1. CASE j = k
    <3>1. InPool(a, j)' <=> a \in ToSet(Tail(q)) \/ [addr |-> a, pool |-> k] \in taken'
      BY <1>1, <1>2, <2>1 DEF InPool
    <3>2. [addr |-> a, pool |-> k] \in taken' <=> [addr |-> a, pool |-> k] \in taken \/ a = Head(q)
      BY <1>4
    <3> QED BY <1>2, <1>3, <2>1, <3>1, <3>2 DEF InPool
  <2>2. CASE j # k
    <3>1. [addr |-> a, pool |-> j] \in taken' <=> [addr |-> a, pool |-> j] \in taken
      BY <1>4, <2>2
    <3> QED BY <1>1, <2>2, <3>1 DEF InPool
  <2> QED BY <2>1, <2>2
<1>7. ASSUME NEW j \in Pools PROVE OnceEach(j)'
  <2>1. CASE j = k
    <3>1. \A b \in taken' : b.pool = k => b.addr \notin ToSet(Tail(q))
      BY <1>3, <1>4, <1>5
    <3> QED BY <1>1, <1>2, <1>3, <2>1, <3>1 DEF OnceEach
  <2>2. CASE j # k
    <3>1. \A b \in taken' : b.pool = j => b \in taken
      BY <1>4, <2>2
    <3>2. OnceEach(j) /\ buftab'[j] = buftab[j]
      BY <1>1, <2>2
    <3> QED BY <3>1, <3>2 DEF OnceEach
  <2> QED BY <2>1, <2>2
<1> QED BY <1>1, <1>6, <1>7 DEF SameMembers

LEMMA ConsSet ==
  ASSUME NEW S, NEW a \in S, NEW q \in Seq(S), IsInjective(q), a \notin ToSet(q)
  PROVE  ToSet(<<a>> \o q) = ToSet(q) \cup {a} /\ IsInjective(<<a>> \o q)
<1> DEFINE r == <<a>> \o q
<1>1. /\ r \in Seq(S) /\ Len(r) = Len(q) + 1 /\ Len(q) \in Nat
      /\ \A i \in 1..(Len(q) + 1) : r[i] = IF i = 1 THEN a ELSE q[i - 1]
  BY ConsLength, LenProperties
<1>2. \A i \in 1..Len(q) : r[i + 1] = q[i] /\ i + 1 \in 1..Len(r)
  BY <1>1
<1>a. r[1] = a /\ 1 \in 1..Len(r)
  BY <1>1
<1>b. \A i \in 1..Len(r) : i = 1 \/ (i - 1 \in 1..Len(q) /\ r[i] = q[i - 1])
  BY <1>1
<1> HIDE DEF r
<1>c. DOMAIN r = 1..Len(r) /\ DOMAIN q = 1..Len(q)
  BY <1>1, LenProperties
<1>3. ToSet(r) = ToSet(q) \cup {a}
  <2>1. ASSUME NEW x \in ToSet(r) PROVE x \in ToSet(q) \cup {a}
    <3>1. PICK i \in 1..Len(r) : x = r[i]
      BY <1>c, <2>1 DEF ToSet
    <3>2. CASE i = 1
      BY <1>a, <3>1, <3>2
    <3>3. CASE i # 1
      <4>1. i - 1 \in 1..Len(q) /\ r[i] = q[i - 1]
        BY <1>b, <3>1, <3>3
      <4> QED BY <1>c, <3>1, <4>1 DEF ToSet
    <3> QED BY <3>2, <3>3
  <2>2. ASSUME NEW x \in ToSet(q) PROVE x \in ToSet(r)
    <3>1. PICK i \in 1..Len(q) : x = q[i]
      BY <1>c, <2>2 DEF ToSet
    <3>2. r[i + 1] = x /\ i + 1 \in 1..Len(r)
      BY <1>2, <3>1
    <3> QED BY <1>c, <3>2 DEF ToSet
  <2>3. a \in ToSet(r)
    BY <1>a, <1>c DEF ToSet
  <2> QED BY <2>1, <2>2, <2>3
<1>4. \A i, j \in 1..Len(q) : q[i] = q[j] => i = j
  BY <1>c DEF IsInjective
<1>5. \A i \in 1..Len(q) : q[i] # a
  BY <1>c DEF ToSet
<1>6. ASSUME NEW i \in 1..Len(r), NEW j \in 1..Len(r), r[i] = r[j] PROVE i = j
  <2>1. CASE i = 1 /\ j = 1
    BY <2>1
  <2>2. CASE i = 1 /\ j # 1
    BY <1>a, <1>b, <1>5, <1>6, <2>2
  <2>3. CASE i # 1 /\ j = 1
    BY <1>a, <1>b, <1>5, <1>6, <2>3
  <2>4. CASE i # 1 /\ j # 1
    <3>1. i - 1 = j - 1
      BY <1>b, <1>4, <1>6, <2>4
    <3> QED BY <1>1, <3>1
  <2> QED BY <2>1, <2>2, <2>3, <2>4
<1>7. IsInjective(r)
  BY <1>6, <1>c DEF IsInjective
<1> QED BY <1>3, <1>7 DEF r

LEMMA FreebufApart ==
  ASSUME PoolsTyped, NEW b \in taken, Freebuf(b), \A j \in Pools : OnceEach(j)
  PROVE  Pools' = Pools /\ SameMembers /\ \A j \in Pools : OnceEach(j)'
<1>1. PICK k \in Pools, a \in Nat : b = [addr |-> a, pool |-> k]
  BY DEF PoolsTyped
<1>2. PICK q \in Seq(Nat) : q = buftab[k].next
  BY PoolsAre
<1>3. PICK r : r = <<a>> \o q
  OBVIOUS
<1>4. /\ buftab' = [buftab EXCEPT ![k].next = r] /\ taken' = taken \ {b}
  BY <1>1, <1>2, <1>3 DEF Freebuf
<1>5. /\ buftab \in Seq(PoolEntry) /\ buftab[k] \in PoolEntry /\ Pools = 1..Len(buftab)
  BY PoolsAre DEF PoolsTyped
<1>6. /\ Pools' = Pools /\ buftab'[k].next = r
      /\ \A j \in Pools : buftab'[j].size = buftab[j].size /\ (j # k => buftab'[j] = buftab[j])
  BY <1>4, <1>5 DEF Pools, PoolEntry
<1>7. /\ IsInjective(q) /\ a \notin ToSet(q)
      /\ \A c \in taken : c.pool = k => c.addr \notin ToSet(q)
  BY <1>1, <1>2 DEF OnceEach
<1>8. ToSet(r) = ToSet(q) \cup {a} /\ IsInjective(r)
  BY <1>1, <1>3, <1>7, ConsSet
<1>9. ASSUME NEW j \in Pools, NEW c PROVE InPool(c, j)' <=> InPool(c, j)
  <2>1. CASE j = k
    <3>1. InPool(c, j)' <=> c \in ToSet(r) \/ [addr |-> c, pool |-> k] \in taken'
      BY <1>6, <2>1 DEF InPool
    <3>2. [addr |-> c, pool |-> k] \in taken' <=> [addr |-> c, pool |-> k] \in taken /\ c # a
      BY <1>1, <1>4
    <3>3. [addr |-> a, pool |-> k] \in taken
      BY <1>1
    <3> QED BY <1>2, <1>8, <2>1, <3>1, <3>2, <3>3 DEF InPool
  <2>2. CASE j # k
    <3>1. [addr |-> c, pool |-> j] \in taken' <=> [addr |-> c, pool |-> j] \in taken
      BY <1>1, <1>4, <2>2
    <3> QED BY <1>6, <2>2, <3>1 DEF InPool
  <2> QED BY <2>1, <2>2
<1>10. ASSUME NEW j \in Pools PROVE OnceEach(j)'
  <2>1. CASE j = k
    <3>1. ASSUME NEW c \in taken', c.pool = k PROVE c.addr \notin ToSet(r)
      <4>1. c \in taken /\ c # b
        BY <1>4, <3>1
      <4>2. PICK x \in Nat : c = [addr |-> x, pool |-> k]
        BY <3>1, <4>1 DEF PoolsTyped
      <4> QED BY <1>1, <1>7, <1>8, <3>1, <4>1, <4>2
    <3> QED BY <1>6, <1>8, <2>1, <3>1 DEF OnceEach
  <2>2. CASE j # k
    <3>1. OnceEach(j) /\ buftab'[j] = buftab[j]
      BY <1>6, <2>2
    <3> QED BY <1>4, <3>1 DEF OnceEach
  <2> QED BY <2>1, <2>2
<1> QED BY <1>6, <1>9, <1>10 DEF SameMembers

(* Buffers cut one after the other. *)
LEMMA Multiples ==
  ASSUME NEW w \in Nat, NEW i \in Nat, NEW j \in Nat, i < j
  PROVE  i * w + w <= j * w
<1>1. PICK d \in Nat : j = i + 1 + d
  <2>1. j - i - 1 \in Nat /\ j = i + 1 + (j - i - 1)
    OBVIOUS
  <2> QED BY <2>1
<1>2. j * w = i * w + w + d * w
  BY <1>1
<1>3. d * w \in Nat /\ i * w \in Nat
  OBVIOUS
<1> QED BY <1>2, <1>3

LEMMA ChainSpread ==
  ASSUME NEW a \in Nat, NEW size \in Nat, NEW m \in Nat, NEW n \in Nat,
         m * (size + IdSize) <= 8 * n
  PROVE  LET c == Chain(a, size, m) IN
         /\ IsInjective(c)
         /\ \A x \in ToSet(c) : x \in Nat /\ a <= x /\ x + (size + IdSize) <= a + 8 * n
         /\ \A x, y \in ToSet(c) :
              x # y => x + (size + IdSize) <= y \/ y + (size + IdSize) <= x
<1>1. PICK c : c = Chain(a, size, m)
  OBVIOUS
<1>2. PICK w \in Nat : w = size + IdSize /\ w > 0
  BY DEF IdSize
<1>3. c \in Seq(Nat) /\ Len(c) = m /\ \A i \in 1..m : c[i] = a + (i - 1) * w
  <2>1. /\ c \in Seq(Nat) /\ Len(c) = m
        /\ \A i \in 1..m : c[i] = a + (i - 1) * (size + IdSize)
    <3>1. /\ Chain(a, size, m) \in Seq(Nat) /\ Len(Chain(a, size, m)) = m
          /\ \A i \in 1..m : Chain(a, size, m)[i] = a + (i - 1) * (size + IdSize)
      BY ChainTyped
    <3> QED BY ONLY <1>1, <3>1, Zenon
  <2>2. size + IdSize = w
    BY <1>2
  <2> QED BY <2>1, <2>2, Zenon
<1>a. m * w <= 8 * n
  <2>1. size + IdSize = w
    BY <1>2
  <2> QED BY <2>1, Zenon
<1>4. DOMAIN c = 1..m
  BY <1>3, LenProperties
<1>5. ASSUME NEW i \in 1..m, NEW j \in 1..m, i < j PROVE c[i] + w <= c[j]
  <2>1. PICK x \in Nat : x = i - 1
    BY <1>5
  <2>2. PICK y \in Nat : y = j - 1
    BY <1>5
  <2>3. x * w + w <= y * w
    BY <1>5, <2>1, <2>2, Multiples
  <2>4. c[i] = a + x * w /\ c[j] = a + y * w
    BY <1>3, <2>1, <2>2
  <2>5. x * w \in Nat /\ y * w \in Nat
    OBVIOUS
  <2> HIDE <2>1, <2>2
  <2> QED BY <2>3, <2>4, <2>5
<1>6. ASSUME NEW i \in 1..m PROVE c[i] \in Nat /\ a <= c[i] /\ c[i] + w <= a + 8 * n
  <2>1. PICK x \in Nat : x = i - 1
    BY <1>6
  <2>2. x * w + w <= m * w
    BY <1>6, <2>1, Multiples
  <2>3. c[i] = a + x * w /\ x * w \in Nat /\ m * w \in Nat /\ m * w <= 8 * n
    BY <1>a, <1>3, <2>1
  <2> QED BY <2>2, <2>3
<1>7. ASSUME NEW i \in 1..m, NEW j \in 1..m, c[i] = c[j] PROVE i = j
  <2>1. c[i] \in Nat /\ c[j] \in Nat
    BY <1>6
  <2> QED BY <1>2, <1>5, <1>7, <2>1
<1>8. IsInjective(c)
  BY <1>4, <1>7 DEF IsInjective
<1>9. \A x \in ToSet(c) : \E i \in 1..m : x = c[i]
  BY <1>4 DEF ToSet
<1>10. \A x \in ToSet(c) : x \in Nat /\ a <= x /\ x + w <= a + 8 * n
  BY <1>6, <1>9
<1>11. ASSUME NEW x \in ToSet(c), NEW y \in ToSet(c), x # y PROVE x + w <= y \/ y + w <= x
  <2>1. PICK i \in 1..m : x = c[i]
    BY <1>9
  <2>2. PICK j \in 1..m : y = c[j]
    BY <1>9
  <2>3. i < j \/ j < i
    BY <1>11, <2>1, <2>2
  <2> QED BY <1>5, <2>1, <2>2, <2>3
<1> QED BY <1>1, <1>2, <1>8, <1>10, <1>11

(* What is handed out while the heap is in its room was not handed out     *)
(* before.                                                                 *)
LEMMA NewBlockIsNew ==
  ASSUME HeapTyped, RoomInv, NEW n \in Nat, Allots(n), Roomy(heap')
  PROVE  \A b \in heap : b.by = "getmem" => b # NewBlock(n)
<1>1. PICK i : TakesLow(i, n)
  BY AllotsTakes
<1>2. PICK new : new = NewBlock(n)
  OBVIOUS
<1>3. PICK q : q = list["mem"]
  OBVIOUS
<1>4. /\ heap' = heap \cup {new} /\ new.by = "getmem" /\ new.addr = q[i].addr /\ new.len = n
      /\ i \in 1..Len(q) /\ n \in 1..(WORD - 1) /\ q \in Seq(WordBlock)
  BY <1>1, <1>2, <1>3, AllotsTakes DEF TakesLow
<1>5. q[i].addr \in 0..(WORD - 1)
  BY <1>4, WordBlocks
<1>6. Roomy(heap) /\ InRoom(q[i].addr)
  <2>1. end <= new.addr /\ new.addr + new.len <= PT_START
    BY <1>4 DEF Roomy
  <2> QED BY <1>4, <1>5, <2>1, Layout DEF Roomy, InRoom
<1>7. Behind(heap, q[i].addr)
  BY <1>3, <1>4, <1>6 DEF RoomInv
<1>8. ASSUME NEW b \in heap, b.by = "getmem" PROVE b # new
  <2>1. b.addr + b.len <= q[i].addr
    BY <1>7, <1>8 DEF Behind
  <2>2. b.addr \in Nat /\ b.len \in Nat /\ 0 < b.len
    BY HeapBlocksTyped
  <2>3. b.addr # q[i].addr
    BY <1>5, <2>1, <2>2, Layout
  <2> QED BY <1>4, <2>3
<1> QED BY <1>2, <1>8

LEMMA CutsApart ==
  ASSUME PoolsInv, HeapTyped, RoomInv, ApartInv, GetmemStays, NEW n \in Nat, Allots(n),
         NEW size \in Nat, NEW m \in Nat, Cuts(n, size, m)
  PROVE  ApartInv'
<1>1. PICK new : new = NewBlock(n)
  OBVIOUS
<1>2. heap' = heap \cup {new}
  BY <1>1, AllotsTakes
<1>3. new.addr \in Nat /\ new.len = n /\ new.by = "getmem"
  <2>1. n > 0 /\ Fits(list["mem"], n) # {}
    BY DEF Allots
  <2>2. /\ NewBlock(n).addr \in 0..(WORD - 1) /\ NewBlock(n).len = n
        /\ NewBlock(n).by = "getmem"
    BY <2>1, NewBlockIs
  <2> QED BY <1>1, <2>2, Layout
<1>4. PICK a \in Nat : a = 8 * new.addr
  BY <1>3
<1>5. PICK c : c = Chain(a, size, m)
  OBVIOUS
<1>6. PICK s \in NewSems(semtab) :
        /\ s # SYSERR
        /\ buftab' = Append(buftab, [sem |-> s, size |-> size, next |-> c])
  BY <1>1, <1>4, <1>5 DEF Cuts
<1>7. taken' = taken /\ m * (size + IdSize) <= 8 * n
  BY DEF Cuts
<1>8. PoolsTyped /\ SemOK(semtab, Holder) /\ taken \subseteq [addr : Nat, pool : Pools]
  BY DEF PoolsInv, PoolsTyped
<1>9. s \in Sems
  BY <1>6, <1>8, NewSemsOK
<1> DEFINE e == [sem |-> s, size |-> size, next |-> c]
<1>10. e \in PoolEntry /\ e.size = size /\ e.next = c
  BY <1>5, <1>9, ChainTyped DEF PoolEntry
<1>11. buftab' = Append(buftab, e)
  BY <1>6
<1> HIDE DEF e
<1>12. PICK k : k = Len(buftab) + 1
  OBVIOUS
<1>13. AddsPool(k, e)
  BY <1>8, <1>10, <1>11, <1>12, AppendedPool
<1>14. /\ Pools' = Pools \cup {k} /\ k \notin Pools /\ buftab'[k] = e
       /\ \A j \in Pools : buftab'[j] = buftab[j]
  BY <1>13 DEF AddsPool
<1> HIDE <1>6, <1>11
<1>15. /\ IsInjective(c)
       /\ \A x \in ToSet(c) : x \in Nat /\ a <= x /\ x + (size + IdSize) <= a + 8 * n
       /\ \A x, y \in ToSet(c) :
            x # y => x + (size + IdSize) <= y \/ y + (size + IdSize) <= x
  BY <1>5, <1>7, ChainSpread
<1>16. \A x : InPool(x, k)' <=> x \in ToSet(c)
  <2>1. \A x : [addr |-> x, pool |-> k] \notin taken
    BY <1>8, <1>14
  <2> QED BY <1>7, <1>10, <1>14, <2>1 DEF InPool
<1>17. Width(k)' = size + IdSize
  BY <1>10, <1>14 DEF Width
<1>18. OnceEach(k)' /\ Spread(k)'
  <2>1. \A b \in taken : b.pool # k
    BY <1>8, <1>14
  <2>2. OnceEach(k)'
    BY <1>7, <1>10, <1>14, <1>15, <2>1 DEF OnceEach
  <2>3. Spread(k)'
    BY <1>15, <1>16, <1>17 DEF Spread
  <2> QED BY <2>2, <2>3
<1>19. CutFrom(k, new)'
  <2>1. ASSUME NEW x \in ToSet(c)
        PROVE  8 * new.addr <= x /\ x + (size + IdSize) <= 8 * (new.addr + new.len)
    <3>1. a <= x /\ x + (size + IdSize) <= a + 8 * n
      BY <1>15
    <3>2. 8 * (new.addr + new.len) = a + 8 * n
      BY <1>3, <1>4
    <3> QED BY <1>4, <3>1, <3>2
  <2> QED BY <1>2, <1>3, <1>16, <1>17, <2>1 DEF CutFrom
<1>20. ASSUME NEW j \in Pools
       PROVE  /\ OnceEach(j)' /\ Spread(j)'
              /\ \A b : CutFrom(j, b) => CutFrom(j, b)'
  <2>1. OnceEach(j) /\ Spread(j) /\ buftab'[j] = buftab[j]
    BY <1>14 DEF ApartInv
  <2>2. OnceEach(j)'
    BY <1>7, <2>1 DEF OnceEach
  <2>3. Width(j)' = Width(j) /\ \A x : InPool(x, j)' <=> InPool(x, j)
    BY <1>7, <2>1 DEF Width, InPool
  <2>4. Spread(j)'
    BY <2>1, <2>3 DEF Spread
  <2>5. \A b : CutFrom(j, b) => CutFrom(j, b)'
    BY <1>2, <2>3 DEF CutFrom
  <2> QED BY <2>2, <2>4, <2>5
<1>21. PICK base : CutApart(base)
  BY DEF ApartInv
<1>a. PICK base2 : base2 = [j \in Pools \cup {k} |-> IF j = k THEN new ELSE base[j]]
  OBVIOUS
<1>22. base2[k] = new /\ \A j \in Pools : base2[j] = base[j]
  BY <1>a, <1>14
<1>23. \A j \in Pools : CutFrom(j, base[j])
  BY <1>21 DEF CutApart
<1>24. \A j \in Pools \cup {k} : CutFrom(j, base2[j])'
  BY <1>19, <1>20, <1>22, <1>23
<1>25. ASSUME Roomy(heap'), NEW i \in Pools \cup {k}, NEW j \in Pools \cup {k}, i # j
       PROVE  base2[i] # base2[j]
  <2>1. Roomy(heap)
    BY <1>25, <1>2 DEF Roomy
  <2>2. \A x, y \in Pools : x # y => base[x] # base[y]
    BY <1>21, <2>1 DEF CutApart
  <2>3. \A x \in Pools : base[x] # new
    <3>1. \A b \in heap : b.by = "getmem" => b # new
      BY <1>1, <1>25, NewBlockIsNew
    <3> QED BY <1>23, <3>1 DEF CutFrom
  <2> QED BY <1>22, <1>25, <2>2, <2>3
<1>26. CutApart(base2)'
  BY <1>14, <1>24, <1>25 DEF CutApart, Roomy
<1> QED BY <1>14, <1>18, <1>20, <1>26 DEF ApartInv

LEMMA NothingMoves ==
  ASSUME UNCHANGED <<buftab, taken>>, \A j \in Pools : OnceEach(j)
  PROVE  Pools' = Pools /\ SameMembers /\ \A j \in Pools : OnceEach(j)'
<1>1. buftab' = buftab /\ taken' = taken
  OBVIOUS
<1>2. Pools' = Pools
  BY <1>1 DEF Pools
<1>3. SameMembers
  BY <1>1 DEF SameMembers, InPool
<1>4. \A j \in Pools : OnceEach(j)'
  BY <1>1 DEF OnceEach
<1> QED BY <1>2, <1>3, <1>4

(* Who has waited finds a buffer. *)
LEMMA ResumesFinds ==
  ASSUME PoolsInv, NEW p \in Holder, GetbufResumes(p)
  PROVE  awaits[p] \in Pools /\ Len(buftab[awaits[p]].next) > 0
<1>1. PICK k : k = awaits[p]
  OBVIOUS
<1>2. k \in Pools
  BY <1>1 DEF GetbufResumes, PoolsInv, PoolsTyped
<1>3. p \in Promises(k)
  BY <1>1 DEF GetbufResumes, Promises, InQueue
<1>4. Promised(k) # 0 /\ Promised(k) \in Nat
  BY <1>3, PromisedType, FS_EmptySet
<1>5. /\ Left(semtab, buftab[k].sem) \in Nat /\ Len(buftab[k].next) \in Nat
      /\ Left(semtab, buftab[k].sem) + Promised(k) <= Len(buftab[k].next)
  BY <1>2, RoomIn, PoolsAre DEF PoolsInv
<1> QED BY <1>1, <1>2, <1>4, <1>5

LEMMA GetbufFinds ==
  ASSUME PoolsInv, NEW k \in Pools, semtab[buftab[k].sem].count > 0
  PROVE  Len(buftab[k].next) > 0
<1>1. PICK s : s = buftab[k].sem
  OBVIOUS
<1>2. /\ Left(semtab, s) \in Nat /\ Len(buftab[k].next) \in Nat /\ semtab[s].count \in Int
      /\ Left(semtab, s) + Promised(k) <= Len(buftab[k].next)
  BY <1>1, RoomIn, PoolsAre DEF PoolsInv
<1>3. Left(semtab, s) = semtab[s].count
  BY <1>1, <1>2, LeftIs
<1>4. Promised(k) \in Nat
  BY PromisedType
<1> QED BY <1>1, <1>2, <1>3, <1>4

LEMMA ApartInvInit == BufInit => ApartInv
<1> SUFFICES ASSUME BufInit PROVE ApartInv
  OBVIOUS
<1>1. Pools = {}
  BY DEF BufInit, Pools
<1>2. CutApart(buftab)
  BY <1>1 DEF CutApart
<1> QED BY <1>1, <1>2 DEF ApartInv

LEMMA ApartInvNext ==
  PoolsInv /\ HeapTyped /\ EndInv /\ RoomInv /\ ApartInv /\ [PoolsNext]_poolvars => ApartInv'
<1> SUFFICES ASSUME PoolsInv, HeapTyped, EndInv, RoomInv, ApartInv, [PoolsNext]_poolvars
             PROVE  ApartInv'
  OBVIOUS
<1>1. GetmemStays
  BY GetmemNeverFreed
<1>2. PoolsTyped /\ \A j \in Pools : OnceEach(j)
  BY DEF PoolsInv, ApartInv
<1>3. ASSUME Pools' = Pools, SameMembers, \A j \in Pools : OnceEach(j)' PROVE ApartInv'
  BY <1>1, <1>3, ApartKept
<1>4. CASE UNCHANGED <<buftab, taken>>
  BY <1>2, <1>3, <1>4, NothingMoves
<1>5. CASE \E shape \in Shapes : Mkbufpool(shape[1], shape[2])
  <2>1. PICK shape \in Shapes : Mkbufpool(shape[1], shape[2])
    BY <1>5
  <2>2. shape[1] \in Int /\ shape[2] \in Int
    BY BufferAssumption
  <2>3. PICK n \in Nat :
          \/ (GivesBack(n) \/ Allots(n)) /\ UNCHANGED bufvars
          \/ Allots(n) /\ \E size \in Nat, m \in Nat \ {0} : Cuts(n, size, m)
    BY <2>1, <2>2, MkbufpoolIs
  <2>4. CASE UNCHANGED bufvars
    BY <1>4, <2>4 DEF bufvars
  <2> QED BY <1>1, <2>3, <2>4, CutsApart
<1>6. ASSUME NEW p \in Holder, NEW k \in Pools, Getbuf(p, k) PROVE ApartInv'
  <2>1. CASE semtab[buftab[k].sem].count > 0
    <3>1. Unlink(k) /\ Len(buftab[k].next) > 0
      BY <1>6, <2>1, GetbufFinds DEF Getbuf
    <3> QED BY <1>2, <1>3, <3>1, UnlinkApart
  <2>2. CASE ~(semtab[buftab[k].sem].count > 0)
    BY <1>4, <1>6, <2>2 DEF Getbuf
  <2> QED BY <2>1, <2>2
<1>7. ASSUME NEW p \in Holder, GetbufResumes(p) PROVE ApartInv'
  <2>1. PICK k : k = awaits[p]
    OBVIOUS
  <2>2. k \in Pools /\ Len(buftab[k].next) > 0 /\ Unlink(k)
    BY <1>7, <2>1, ResumesFinds DEF GetbufResumes
  <2> QED BY <1>2, <1>3, <2>2, UnlinkApart
<1>8. CASE \E p \in Holder : KillWaiter(p)
  BY <1>4, <1>8 DEF KillWaiter
<1>9. ASSUME NEW b \in taken, Freebuf(b) PROVE ApartInv'
  BY <1>2, <1>3, <1>9, FreebufApart
<1>10. CASE UNCHANGED poolvars
  BY <1>4, <1>10 DEF poolvars, bufvars
<1>11. CASE MemNext /\ UNCHANGED bufvars
  BY <1>4, <1>11 DEF bufvars
<1> QED BY <1>5, <1>6, <1>7, <1>8, <1>9, <1>10, <1>11 DEF PoolsNext

LEMMA BuffersInvariant == PoolsSpec => [](StorageInv /\ PoolsInv /\ EndInv /\ RoomInv /\ ApartInv)
<1>1. StorageInv => HeapTyped
  BY DEF StorageInv
<1> QED BY <1>1, PoolsInvariant, EndInvInit, EndInvNext, RoomInvInit, RoomInvNext,
           ApartInvInit, ApartInvNext, PTL DEF PoolsSpec

(* What AllocationsApart says, of blocks with a length. *)
LEMMA SpansApart ==
  ASSUME NEW a \in Nat, NEW m \in Nat, 0 < m, NEW b \in Nat, NEW n \in Nat, 0 < n,
         (a..(a + m - 1)) \cap (b..(b + n - 1)) = {}
  PROVE  a + m <= b \/ b + n <= a
<1>1. CASE a <= b /\ ~(a + m <= b)
  <2>1. b \in a..(a + m - 1) /\ b \in b..(b + n - 1)
    BY <1>1
  <2> QED BY <2>1
<1>2. CASE b <= a /\ ~(b + n <= a)
  <2>1. a \in a..(a + m - 1) /\ a \in b..(b + n - 1)
    BY <1>2
  <2> QED BY <2>1
<1> QED BY <1>1, <1>2

LEMMA ApartIsDisjoint ==
  ASSUME HeapTyped, AllocationsApart, NEW b \in heap, NEW c \in heap, b # c
  PROVE  Disjoint(b, c)
<1>1. /\ b.addr \in Nat /\ b.len \in Nat /\ 0 < b.len
      /\ c.addr \in Nat /\ c.len \in Nat /\ 0 < c.len
  BY HeapBlocksTyped
<1>2. Span(b) \cap Span(c) = {}
  BY DEF AllocationsApart
<1> QED BY <1>1, <1>2, SpansApart DEF Span, Disjoint

LEMMA ApartIsRoomy ==
  ASSUME HeapTyped, AllocationsApart
  PROVE  Roomy(heap)
<1> SUFFICES ASSUME NEW b \in heap PROVE end <= b.addr /\ b.addr + b.len <= PT_START
  BY DEF Roomy
<1>1. b.addr \in Nat /\ b.len \in Nat /\ 0 < b.len
  BY HeapBlocksTyped
<1>2. Span(b) \subseteq end..(PT_START - 1)
  BY DEF AllocationsApart
<1>3. b.addr \in Span(b) /\ b.addr + b.len - 1 \in Span(b)
  BY <1>1 DEF Span
<1>4. b.addr \in end..(PT_START - 1) /\ b.addr + b.len - 1 \in end..(PT_START - 1)
  BY <1>2, <1>3
<1> QED BY <1>1, <1>4, Layout

LEMMA KnownAre ==
  ASSUME PoolsTyped, NEW b \in Known
  PROVE  /\ b = [addr |-> b.addr, pool |-> b.pool] /\ b.addr \in Nat /\ b.pool \in Pools
         /\ InPool(b.addr, b.pool)
<1>1. CASE b \in taken
  <2>1. b \in [addr : Nat, pool : Pools]
    BY <1>1 DEF PoolsTyped
  <2> QED BY <1>1, <2>1 DEF InPool
<1>2. CASE b \notin taken
  <2>1. PICK k \in Pools :
          \E i \in DOMAIN buftab[k].next : b = [addr |-> buftab[k].next[i], pool |-> k]
    BY <1>2 DEF Known
  <2>2. PICK q \in Seq(Nat) : q = buftab[k].next
    BY PoolsAre
  <2>3. PICK i \in DOMAIN q : b = [addr |-> q[i], pool |-> k]
    BY <2>1, <2>2
  <2>4. q[i] \in Nat /\ q[i] \in ToSet(q)
    BY <2>3, ElementOfSeq, LenProperties DEF ToSet
  <2> QED BY <2>2, <2>3, <2>4 DEF InPool
<1> QED BY <1>1, <1>2

(* Whatever is asked of the pools and of the rest of the storage, and in   *)
(* whatever order, two buffers share no byte with each other or a stack    *)
(* while the heap is as it should be.                                      *)
THEOREM TheBuffersApart == PoolsSpec => []BuffersApart
<1>1. HeapTyped /\ PoolsInv /\ EndInv /\ ApartInv => BuffersApart
  <2> SUFFICES ASSUME HeapTyped, PoolsInv, EndInv, ApartInv PROVE BuffersApart
    OBVIOUS
  <2>1. \A pool \in Pools :
          /\ IsInjective(buftab[pool].next)
          /\ \A b \in taken : b.pool = pool => b.addr \notin ToSet(buftab[pool].next)
    BY DEF ApartInv, OnceEach
  <2>2. PICK base : CutApart(base)
    BY DEF ApartInv
  <2>3. ASSUME AllocationsApart, NEW b \in Known
        PROVE  /\ \A c \in Known \ {b} :
                    Bytes(b.addr, b.pool) \cap Bytes(c.addr, c.pool) = {}
               /\ \A s \in stacks :
                    Bytes(b.addr, b.pool) \cap (8 * s.addr)..(8 * (s.addr + s.len) - 1) = {}
    <3>1. \A x \in Known : /\ x = [addr |-> x.addr, pool |-> x.pool] /\ x.addr \in Nat
                           /\ x.pool \in Pools /\ InPool(x.addr, x.pool)
      BY KnownAre DEF PoolsInv
    <3>2. \A k \in Pools : /\ Width(k) \in Nat
                           /\ \A a \in Nat : Bytes(a, k) = a..(a + Width(k) - 1)
      <4>1. \A k \in Pools : buftab[k].size \in Nat
        BY PoolsAre DEF PoolsInv
      <4> QED BY <4>1 DEF Width, Bytes, IdSize
    <3>3. \A k \in Pools :
            /\ base[k] \in heap /\ base[k].by = "getmem"
            /\ base[k].addr \in Nat /\ base[k].len \in Nat
            /\ \A a : InPool(a, k) =>
                 8 * base[k].addr <= a /\ a + Width(k) <= 8 * (base[k].addr + base[k].len)
      BY <2>2, HeapBlocksTyped DEF CutApart, CutFrom
    <3>4. ASSUME NEW c \in Known \ {b}
          PROVE  Bytes(b.addr, b.pool) \cap Bytes(c.addr, c.pool) = {}
      <4>1. b.addr + Width(b.pool) <= c.addr \/ c.addr + Width(c.pool) <= b.addr
        <5>1. CASE b.pool = c.pool
          <6>1. b.addr # c.addr
            BY <3>1, <3>4, <5>1
          <6>2. Spread(b.pool)
            BY <3>1 DEF ApartInv
          <6> QED BY <3>1, <5>1, <6>1, <6>2 DEF Spread
        <5>2. CASE b.pool # c.pool
          <6>1. base[b.pool] # base[c.pool]
            BY <2>2, <2>3, <3>1, <5>2, ApartIsRoomy DEF CutApart
          <6>2. Disjoint(base[b.pool], base[c.pool])
            BY <2>3, <3>1, <3>3, <6>1, ApartIsDisjoint
          <6>3. PICK x \in heap : x = base[b.pool] /\ x.addr \in Nat /\ x.len \in Nat
            BY <3>1, <3>3
          <6>4. PICK y \in heap : y = base[c.pool] /\ y.addr \in Nat /\ y.len \in Nat
            BY <3>1, <3>3
          <6>5. /\ 8 * x.addr <= b.addr /\ b.addr + Width(b.pool) <= 8 * (x.addr + x.len)
                /\ 8 * y.addr <= c.addr /\ c.addr + Width(c.pool) <= 8 * (y.addr + y.len)
            BY <3>1, <3>3, <6>3, <6>4
          <6>6. x.addr + x.len <= y.addr \/ y.addr + y.len <= x.addr
            BY <6>2, <6>3, <6>4 DEF Disjoint
          <6>7. /\ b.addr \in Nat /\ c.addr \in Nat
                /\ Width(b.pool) \in Nat /\ Width(c.pool) \in Nat
            BY <3>1, <3>2
          <6> QED BY <6>3, <6>4, <6>5, <6>6, <6>7
        <5> QED BY <5>1, <5>2
      <4>2. /\ b.addr \in Nat /\ c.addr \in Nat
            /\ Width(b.pool) \in Nat /\ Width(c.pool) \in Nat
            /\ Bytes(b.addr, b.pool) = b.addr..(b.addr + Width(b.pool) - 1)
            /\ Bytes(c.addr, c.pool) = c.addr..(c.addr + Width(c.pool) - 1)
        BY <3>1, <3>2
      <4> QED BY <4>1, <4>2
    <3>5. ASSUME NEW s \in stacks
          PROVE  Bytes(b.addr, b.pool) \cap (8 * s.addr)..(8 * (s.addr + s.len) - 1) = {}
      <4>1. s \in heap /\ s.by = "getstk" /\ s.addr \in Nat /\ s.len \in Nat
        BY HeapBlocksTyped DEF HeapTyped, EndInv
      <4>2. PICK x \in heap : /\ x = base[b.pool] /\ x.addr \in Nat /\ x.len \in Nat
                              /\ x.by = "getmem"
        BY <3>1, <3>3
      <4>3. x.addr + x.len <= s.addr \/ s.addr + s.len <= x.addr
        <5>1. x # s
          BY <4>1, <4>2
        <5> QED BY <2>3, <4>1, <5>1, ApartIsDisjoint DEF Disjoint
      <4>4. 8 * x.addr <= b.addr /\ b.addr + Width(b.pool) <= 8 * (x.addr + x.len)
        BY <3>1, <3>3, <4>2
      <4>5. /\ b.addr \in Nat /\ Width(b.pool) \in Nat
            /\ Bytes(b.addr, b.pool) = b.addr..(b.addr + Width(b.pool) - 1)
        BY <3>1, <3>2
      <4>6. PICK u \in Nat : u = 8 * s.addr
        BY <4>1
      <4>7. PICK v \in Nat : v = 8 * (s.addr + s.len)
        BY <4>1
      <4>8. b.addr + Width(b.pool) <= u \/ v <= b.addr
        <5>1. ASSUME NEW i \in Nat, NEW m \in Nat, NEW j \in Nat, NEW n \in Nat,
                     NEW a \in Nat, NEW w \in Nat, i + m <= j \/ j + n <= i,
                     8 * i <= a, a + w <= 8 * (i + m)
              PROVE  a + w <= 8 * j \/ 8 * (j + n) <= a
          BY <5>1
        <5>2. /\ x.addr \in Nat /\ x.len \in Nat /\ s.addr \in Nat /\ s.len \in Nat
              /\ b.addr \in Nat /\ Width(b.pool) \in Nat
          BY <4>1, <4>2, <4>5
        <5>3. b.addr + Width(b.pool) <= 8 * s.addr \/ 8 * (s.addr + s.len) <= b.addr
          BY <4>3, <4>4, <5>1, <5>2
        <5> QED BY <4>6, <4>7, <5>3
      <4>9. (b.addr..(b.addr + Width(b.pool) - 1)) \cap (u..(v - 1)) = {}
        BY <4>5, <4>8
      <4> QED BY <4>5, <4>6, <4>7, <4>9
    <3> QED BY <3>4, <3>5
  <2> QED BY <2>1, <2>3 DEF BuffersApart
<1>2. StorageInv => HeapTyped
  BY DEF StorageInv
<1> QED BY <1>1, <1>2, BuffersInvariant, PTL

(* The pools take their storage with getmem; with them at work, and the    *)
(* stacks and page memory too, the storage keeps what it keeps on its own. *)
THEOREM PoolsKeepStorage ==
  PoolsSpec => [](MemTypeOK /\ PagesPartitioned /\ BlocksApart /\ ApartUntilSpent)
<1>1. StorageInv => MemTypeOK /\ PagesPartitioned /\ BlocksApart /\ ApartUntilSpent
  BY MemTypeOKIs, PagesPartitionedIs, BlocksApartIs, ApartUntilSpentIs DEF StorageInv
<1> QED BY <1>1, BuffersInvariant, PTL
=============================================================================
