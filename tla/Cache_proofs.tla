---------------------------- MODULE Cache_proofs ----------------------------
(***************************************************************************)
(* Proofs about Cache, for any number of keys, any sizes and any budgets.  *)
(***************************************************************************)
EXTENDS Cache, FoldTheorems

-----------------------------------------------------------------------------
(* The order of use *)

LEMMA MembersOfASequence ==
    ASSUME NEW S, NEW s \in Seq(S)
    PROVE  ToSet(s) = {s[i] : i \in 1..Len(s)} /\ ToSet(s) \subseteq S
BY DEF ToSet

LEMMA AppendedToASequence ==
    ASSUME NEW S, NEW s \in Seq(S), NEW e \in S
    PROVE  /\ Append(s, e) \in Seq(S)
           /\ ToSet(Append(s, e)) = ToSet(s) \cup {e}
           /\ IsInjective(s) /\ e \notin ToSet(s) => IsInjective(Append(s, e))
<1>1. Append(s, e) \in Seq(S) /\ Len(Append(s, e)) = Len(s) + 1 /\ Append(s, e)[Len(s) + 1] = e
      /\ \A i \in 1..Len(s) : Append(s, e)[i] = s[i]
  OBVIOUS
<1>2. DOMAIN s = 1..Len(s) /\ DOMAIN Append(s, e) = 1..(Len(s) + 1) /\ Len(s) \in Nat
  BY <1>1
<1>3. ToSet(Append(s, e)) = ToSet(s) \cup {e}
  BY <1>1, <1>2 DEF ToSet
<1>4. ASSUME IsInjective(s), e \notin ToSet(s) PROVE IsInjective(Append(s, e))
  BY <1>1, <1>2, <1>4 DEF ToSet, IsInjective
<1>. QED
  BY <1>1, <1>3, <1>4

(* What Without computes on the way through s.                             *)
Keeps(s, keys, n, f) ==
    f = [i \in 0..n |->
           IF i = 0 THEN <<>> ELSE IF s[i] \in keys THEN f[i - 1] ELSE Append(f[i - 1], s[i])]

LEMMA KeepsExists ==
    ASSUME NEW s, NEW keys, NEW n \in Nat
    PROVE  \E f : Keeps(s, keys, n, f)
<1>. DEFINE Good == {i \in 0..n : \E f : Keeps(s, keys, i, f)}
<1>1. 0 \in Good
  <2>1. Keeps(s, keys, 0, [i \in 0..0 |-> <<>>])
    BY DEF Keeps
  <2>. QED
    BY <2>1
<1>2. ASSUME NEW i \in 0..n, i < n, i \in Good PROVE i + 1 \in Good
  <2>1. PICK f : Keeps(s, keys, i, f)
    BY <1>2
  <2>. DEFINE g == [j \in 0..(i + 1) |->
                      IF j # i + 1 THEN f[j]
                      ELSE IF s[j] \in keys THEN f[i] ELSE Append(f[i], s[j])]
  <2>2. \A j \in 0..(i + 1) : g[j] = IF j = 0 THEN <<>>
                                     ELSE IF s[j] \in keys THEN g[j - 1]
                                     ELSE Append(g[j - 1], s[j])
    <3>1. \A j \in 0..i : g[j] = f[j]
      OBVIOUS
    <3>2. ASSUME NEW j \in 0..i, j # 0 PROVE j - 1 \in 0..i
      BY <3>2
    <3>3. \A j \in 0..i : f[j] = IF j = 0 THEN <<>>
                                 ELSE IF s[j] \in keys THEN f[j - 1]
                                 ELSE Append(f[j - 1], s[j])
      BY <2>1 DEF Keeps
    <3>4. i + 1 # 0 /\ i \in 0..i /\ (i + 1) - 1 = i /\ \A j \in 0..(i + 1) : j # i + 1 => j \in 0..i
      OBVIOUS
    <3>5. g[i + 1] = IF s[i + 1] \in keys THEN f[i] ELSE Append(f[i], s[i + 1])
      OBVIOUS
    <3>. HIDE DEF g
    <3>. QED
      BY <3>1, <3>2, <3>3, <3>4, <3>5
  <2>3. g = [j \in 0..(i + 1) |-> IF j = 0 THEN <<>>
                                 ELSE IF s[j] \in keys THEN g[j - 1]
                                 ELSE Append(g[j - 1], s[j])]
    <3>1. g = [j \in 0..(i + 1) |-> g[j]]
      OBVIOUS
    <3>. HIDE DEF g
    <3>. QED
      BY <2>2, <3>1
  <2>4. Keeps(s, keys, i + 1, g)
    <3>. HIDE DEF g
    <3>. QED
      BY <2>3 DEF Keeps
  <2>. QED
    BY <1>2, <2>4
<1>3. \A i \in 0..n : i \in Good
  <2>. HIDE DEF Good
  <2>. QED
    BY <1>1, <1>2, NumberInduction
<1>. QED
  BY <1>3

LEMMA WithoutIsKept ==
    ASSUME NEW s, Len(s) \in Nat, NEW keys
    PROVE  \E f : Keeps(s, keys, Len(s), f) /\ Without(s, keys) = f[Len(s)]
<1>1. Without(s, keys) = (CHOOSE f : Keeps(s, keys, Len(s), f))[Len(s)]
  BY Zenon DEF Without, Keeps
<1>2. \E f : Keeps(s, keys, Len(s), f)
  BY KeepsExists
<1>. QED
  BY <1>1, <1>2

(* An order without some keys has every other key once, if it had.         *)
LEMMA WithoutKeepsOthers ==
    ASSUME NEW S, NEW s \in Seq(S), NEW keys
    PROVE  /\ Without(s, keys) \in Seq(S)
           /\ ToSet(Without(s, keys)) = ToSet(s) \ keys
           /\ IsInjective(s) => IsInjective(Without(s, keys))
<1>. DEFINE n == Len(s)
<1>1. n \in Nat /\ DOMAIN s = 1..n /\ \A i \in 1..n : s[i] \in S
  OBVIOUS
<1>2. PICK f : Keeps(s, keys, n, f) /\ Without(s, keys) = f[n]
  BY <1>1, WithoutIsKept
<1>. DEFINE Before(i) == {s[j] : j \in 1..i} \ keys
            Good == {i \in 0..n : /\ f[i] \in Seq(S)
                                  /\ ToSet(f[i]) = Before(i)
                                  /\ IsInjective(s) => IsInjective(f[i])}
<1>3. 0 \in Good
  <2>1. f[0] = <<>>
    BY <1>1, <1>2 DEF Keeps
  <2>2. Before(0) = {}
    OBVIOUS
  <2>3. <<>> \in Seq(S) /\ ToSet(<<>>) = {} /\ IsInjective(<<>>)
    BY DEF ToSet, IsInjective
  <2>. HIDE DEF Before
  <2>4. f[0] \in Seq(S) /\ ToSet(f[0]) = Before(0) /\ (IsInjective(s) => IsInjective(f[0]))
    BY <2>1, <2>2, <2>3
  <2>5. 0 \in 0..n
    BY <1>1
  <2>. QED
    BY <2>4, <2>5
<1>4. ASSUME NEW i \in 0..n, i < n, i \in Good PROVE i + 1 \in Good
  <2>1. i + 1 \in 1..n /\ i + 1 \in 0..n /\ i + 1 # 0 /\ (i + 1) - 1 = i
    BY <1>1, <1>4
  <2>2. f[i + 1] = IF s[i + 1] \in keys THEN f[i] ELSE Append(f[i], s[i + 1])
    BY <1>2, <2>1 DEF Keeps
  <2>3. Before(i + 1) = IF s[i + 1] \in keys THEN Before(i) ELSE Before(i) \cup {s[i + 1]}
    BY <1>1, <2>1
  <2>4. IsInjective(s) => s[i + 1] \notin Before(i)
    BY <1>1, <2>1 DEF IsInjective
  <2>5. s[i + 1] \in S
    BY <1>1, <2>1
  <2>6. f[i] \in Seq(S) /\ ToSet(f[i]) = Before(i) /\ (IsInjective(s) => IsInjective(f[i]))
    BY <1>4
  <2>7. /\ Append(f[i], s[i + 1]) \in Seq(S)
        /\ ToSet(Append(f[i], s[i + 1])) = ToSet(f[i]) \cup {s[i + 1]}
        /\ IsInjective(f[i]) /\ s[i + 1] \notin ToSet(f[i]) => IsInjective(Append(f[i], s[i + 1]))
    BY <2>5, <2>6, AppendedToASequence
  <2>. HIDE DEF Before
  <2>. QED
    BY <2>1, <2>2, <2>3, <2>4, <2>6, <2>7
<1>5. n \in Good
  <2>1. \A i \in 0..n : i \in Good
    <3>. HIDE DEF Good, n
    <3>. QED
      BY <1>1, <1>3, <1>4, NumberInduction
  <2>. QED
    BY <1>1, <2>1
<1>6. Before(n) = ToSet(s) \ keys
  BY <1>1 DEF ToSet
<1>. QED
  BY <1>2, <1>5, <1>6

-----------------------------------------------------------------------------
(* Bytes *)

LEMMA Numbers ==
    /\ IsFiniteSet(Key) /\ IsFiniteSet(Name)
    /\ MemBudget \in Nat /\ DiskBudget \in Nat /\ Grace \in Nat
    /\ \A v \in Value : Size[v] \in Nat
<1>1. IsFiniteSet(Scratch \cup {Final})
  BY FS_AddElement, CacheAssumption
<1>2. IsFiniteSet(Name)
  BY <1>1, FS_Product, CacheAssumption DEF Name
<1>3. IsFiniteSet(Key)
  BY FS_Union, CacheAssumption DEF Key
<1>. QED
  BY <1>2, <1>3, CacheAssumption

LEMMA SizesAreNumbers == \A e \in Entry \cup {None} : SizeOf(e) \in Nat
BY Numbers, NoneAssumption DEF SizeOf, Entry

(* The sizes of what a memory tier holds.                                  *)
Sizes(m) == [k \in Key |-> SizeOf(m[k])]

LEMMA MemBytesIsTotal ==
    ASSUME NEW m, NEW keys, keys \subseteq Key
    PROVE  MemBytes(keys, m) = Total(Sizes(m), keys)
<1>. DEFINE Rec(it) == it = [s \in SUBSET keys |->
                               IF s = {} THEN 0 ELSE SizeOf(m[First(s)]) + it[s \ {First(s)}]]
<1>1. MemBytes(keys, m) = (CHOOSE it : Rec(it))[keys]
  BY Zenon DEF MemBytes, MapThenSumSet, MapThenFoldSet, First
<1>2. IsFiniteSet(keys)
  BY Numbers, FS_Subset
<1>3. \A s \in SUBSET keys : s # {} => Sizes(m)[First(s)] = SizeOf(m[First(s)])
  BY FirstIsMember DEF Sizes
<1>4. ASSUME NEW it PROVE Rec(it) <=> Adds(Sizes(m), keys, it)
  BY <1>3 DEF Adds
<1>5. \E it : Adds(Sizes(m), keys, it)
  BY <1>2, AddsExists
<1>6. Rec(CHOOSE it : Rec(it))
  <2>. HIDE DEF Rec
  <2>. QED
    BY <1>4, <1>5
<1>7. Adds(Sizes(m), keys, CHOOSE it : Rec(it))
  <2>. HIDE DEF Rec
  <2>. QED
    BY <1>4, <1>6
<1>. HIDE DEF Rec
<1>. QED
  BY <1>1, <1>2, <1>7, AddsIsTotal

Memory == [Key -> Entry \cup {None}]

LEMMA SizesOfMemory == ASSUME NEW m \in Memory PROVE \A k \in Key : Sizes(m)[k] \in Nat
BY SizesAreNumbers DEF Sizes, Memory

LEMMA MemBytesIsNat ==
    ASSUME NEW m \in Memory, NEW keys, keys \subseteq Key
    PROVE  MemBytes(keys, m) \in Nat
<1>1. IsFiniteSet(keys)
  BY Numbers, FS_Subset
<1>2. \A k \in keys : Sizes(m)[k] \in Nat
  BY SizesOfMemory
<1>. QED
  BY <1>1, <1>2, TotalIsNat, MemBytesIsTotal

(* What entries that leave take with them.                                 *)
LEMMA MemBytesOfRest ==
    ASSUME NEW m \in Memory, NEW gone, gone \subseteq Key
    PROVE  MemBytes(Key, [k \in Key |-> IF k \in gone THEN None ELSE m[k]])
             = MemBytes(Key, m) - MemBytes(gone, m)
<1>. DEFINE r == [k \in Key |-> IF k \in gone THEN None ELSE m[k]]
            rest == Key \ gone
<1>1. IsFiniteSet(Key) /\ IsFiniteSet(gone) /\ IsFiniteSet(rest)
  BY Numbers, FS_Subset
<1>2. r \in Memory
  BY DEF Memory
<1>3. \A k \in Key : Sizes(m)[k] \in Nat /\ Sizes(r)[k] \in Nat
  BY <1>2, SizesOfMemory
<1>4. Total(Sizes(r), Key) = Total(Sizes(r), gone) + Total(Sizes(r), rest)
  <2>1. \A k \in Key : Sizes(r)[k] \in Nat
    BY <1>3
  <2>. HIDE DEF r
  <2>. QED
    BY <1>1, <2>1, TotalOfParts
<1>5. Total(Sizes(m), Key) = Total(Sizes(m), gone) + Total(Sizes(m), rest)
  <2>1. \A k \in Key : Sizes(m)[k] \in Nat
    BY <1>3
  <2>. QED
    BY <1>1, <2>1, TotalOfParts
<1>6. Total(Sizes(r), rest) = Total(Sizes(m), rest)
  <2>1. \A k \in rest : Sizes(r)[k] = Sizes(m)[k]
    BY DEF Sizes
  <2>. HIDE DEF r, rest
  <2>. QED
    BY <1>1, <2>1, TotalOfSame
<1>7. Total(Sizes(r), gone) = 0
  <2>1. \A k \in gone : Sizes(r)[k] = 0
    BY DEF Sizes, SizeOf
  <2>. HIDE DEF r
  <2>. QED
    BY <1>1, <2>1, TotalOfZeros
<1>8. Total(Sizes(m), rest) \in Nat /\ Total(Sizes(m), gone) \in Nat
  <2>1. \A k \in rest : Sizes(m)[k] \in Nat
    BY <1>3
  <2>2. \A k \in gone : Sizes(m)[k] \in Nat
    BY <1>3
  <2>. HIDE DEF rest
  <2>. QED
    BY <1>1, <2>1, <2>2, TotalIsNat
<1>9. MemBytes(Key, r) = Total(Sizes(r), Key) /\ MemBytes(Key, m) = Total(Sizes(m), Key)
      /\ MemBytes(gone, m) = Total(Sizes(m), gone)
  BY MemBytesIsTotal
<1>10. MemBytes(Key, r) = MemBytes(Key, m) - MemBytes(gone, m)
  <2>. HIDE DEF r, rest
  <2>. QED
    BY <1>4, <1>5, <1>6, <1>7, <1>8, <1>9
<1>. QED
  BY <1>10

(* What an entry that is replaced does to the sum.                         *)
LEMMA MemBytesOfReplaced ==
    ASSUME NEW m \in Memory, NEW k \in Key, NEW e \in Entry
    PROVE  MemBytes(Key, [m EXCEPT ![k] = e]) = MemBytes(Key, m) - SizeOf(m[k]) + SizeOf(e)
<1>. DEFINE r == [m EXCEPT ![k] = e]
            rest == Key \ {k}
<1>1. IsFiniteSet(Key) /\ IsFiniteSet(rest)
  BY Numbers, FS_Subset
<1>2. r \in Memory
  BY DEF Memory
<1>3. \A j \in Key : Sizes(m)[j] \in Nat /\ Sizes(r)[j] \in Nat
  BY <1>2, SizesOfMemory
<1>4. Total(Sizes(r), Key) = Sizes(r)[k] + Total(Sizes(r), rest)
  BY <1>1, <1>3, TotalWithout
<1>5. Total(Sizes(m), Key) = Sizes(m)[k] + Total(Sizes(m), rest)
  BY <1>1, <1>3, TotalWithout
<1>6. Total(Sizes(r), rest) = Total(Sizes(m), rest)
  <2>1. \A j \in rest : Sizes(r)[j] = Sizes(m)[j]
    BY DEF Sizes, Memory
  <2>. HIDE DEF r, rest
  <2>. QED
    BY <1>1, <2>1, TotalOfSame
<1>7. Sizes(r)[k] = SizeOf(e) /\ Sizes(m)[k] = SizeOf(m[k])
  BY DEF Sizes, Memory
<1>8. Total(Sizes(m), rest) \in Nat
  <2>1. \A j \in rest : Sizes(m)[j] \in Nat
    BY <1>3
  <2>. HIDE DEF rest
  <2>. QED
    BY <1>1, <2>1, TotalIsNat
<1>9. MemBytes(Key, r) = Total(Sizes(r), Key) /\ MemBytes(Key, m) = Total(Sizes(m), Key)
  BY MemBytesIsTotal
<1>10. SizeOf(e) \in Nat /\ SizeOf(m[k]) \in Nat
  BY SizesAreNumbers DEF Memory
<1>11. MemBytes(Key, r) = MemBytes(Key, m) - SizeOf(m[k]) + SizeOf(e)
  <2>. HIDE DEF r, rest
  <2>. QED
    BY <1>4, <1>5, <1>6, <1>7, <1>8, <1>9, <1>10
<1>. QED
  BY <1>11

-----------------------------------------------------------------------------
(* The memory tier *)

(* What MemoryAccounted says, without the types of the disk.               *)
MemoryOK ==
    /\ mem \in Memory /\ recent \in Seq(Key) /\ bytes \in Nat
    /\ bytes = MemBytes(Key, mem) /\ bytes <= MemBudget
    /\ ToSet(recent) = {k \in Key : mem[k] # None} /\ IsInjective(recent)

LEMMA DropKeepsMemory ==
    ASSUME MemoryOK, NEW keys, keys \subseteq Key, Drop(keys)
    PROVE  MemoryOK' /\ \A k \in Key : mem'[k] = IF k \in keys THEN None ELSE mem[k]
<1>. DEFINE m == [k \in Key |-> IF k \in keys THEN None ELSE mem[k]]
<1>1. mem' = m /\ recent' = Without(recent, keys) /\ bytes' = bytes - MemBytes(keys, mem)
  BY DEF Drop
<1>2. m \in Memory
  BY DEF Memory, MemoryOK
<1>3. MemBytes(Key, m) = MemBytes(Key, mem) - MemBytes(keys, mem)
  BY MemBytesOfRest DEF MemoryOK
<1>4. MemBytes(Key, m) \in Nat /\ MemBytes(keys, mem) \in Nat
  <2>. HIDE DEF m
  <2>. QED
    BY <1>2, MemBytesIsNat DEF MemoryOK
<1>5. bytes' = MemBytes(Key, m) /\ bytes' \in Nat /\ bytes' <= MemBudget
  <2>. HIDE DEF m
  <2>. QED
    BY <1>1, <1>3, <1>4, Numbers DEF MemoryOK
<1>6. recent' \in Seq(Key) /\ ToSet(recent') = ToSet(recent) \ keys /\ IsInjective(recent')
  BY <1>1, WithoutKeepsOthers DEF MemoryOK
<1>7. ToSet(recent') = {k \in Key : m[k] # None}
  BY <1>6 DEF MemoryOK
<1>. QED
  BY <1>1, <1>2, <1>5, <1>6, <1>7 DEF MemoryOK

(* The order when a key is the last one touched.                           *)
LEMMA TouchedIsAnOrder ==
    ASSUME MemoryOK, NEW k \in Key
    PROVE  /\ Touched(k) \in Seq(Key)
           /\ ToSet(Touched(k)) = ToSet(recent) \cup {k}
           /\ IsInjective(Touched(k))
<1>. DEFINE others == Without(recent, {k})
<1>1. others \in Seq(Key) /\ ToSet(others) = ToSet(recent) \ {k} /\ IsInjective(others)
  BY WithoutKeepsOthers DEF MemoryOK
<1>2. Touched(k) = Append(others, k)
  BY DEF Touched
<1>. HIDE DEF others
<1>3. /\ Append(others, k) \in Seq(Key)
      /\ ToSet(Append(others, k)) = ToSet(others) \cup {k}
      /\ IsInjective(Append(others, k))
  BY <1>1, AppendedToASequence
<1>. QED
  BY <1>1, <1>2, <1>3

LEMMA HitKeepsMemory ==
    ASSUME MemoryOK, NEW k \in Key, mem[k] # None, recent' = Touched(k), UNCHANGED <<mem, bytes>>
    PROVE  MemoryOK'
BY TouchedIsAnOrder DEF MemoryOK

(* A tail of an order.                                                     *)
LEMMA TailOfAnOrder ==
    ASSUME NEW S, NEW s \in Seq(S), IsInjective(s), NEW first \in 1..(Len(s) + 1)
    PROVE  /\ SubSeq(s, first, Len(s)) \in Seq(S)
           /\ ToSet(SubSeq(s, first, Len(s))) = ToSet(s) \ {s[i] : i \in 1..(first - 1)}
           /\ IsInjective(SubSeq(s, first, Len(s)))
<1>. DEFINE t == SubSeq(s, first, Len(s))
            n == Len(s) - first + 1
<1>1. Len(s) \in Nat /\ DOMAIN s = 1..Len(s) /\ n \in Nat
  OBVIOUS
<1>2. t \in Seq(S) /\ Len(t) = n /\ \A i \in 1..n : t[i] = s[first + i - 1]
  OBVIOUS
<1>3. DOMAIN t = 1..n
  BY <1>2
<1>4. \A i \in 1..n : first + i - 1 \in 1..Len(s)
  BY <1>1
<1>5. \A j \in first..Len(s) : j - first + 1 \in 1..n /\ first + (j - first + 1) - 1 = j
  BY <1>1
<1>. HIDE DEF t
<1>6. IsInjective(t)
  <2>. SUFFICES ASSUME NEW a \in 1..n, NEW b \in 1..n, t[a] = t[b] PROVE a = b
    BY <1>3 DEF IsInjective
  <2>1. s[first + a - 1] = s[first + b - 1]
    BY <1>2
  <2>2. first + a - 1 = first + b - 1
    BY <1>1, <1>4, <2>1 DEF IsInjective
  <2>. QED
    BY <1>1, <2>2
<1>7. ToSet(t) = {s[j] : j \in first..Len(s)}
  BY <1>1, <1>2, <1>3, <1>4, <1>5 DEF ToSet
<1>8. {s[j] : j \in first..Len(s)} = ToSet(s) \ {s[i] : i \in 1..(first - 1)}
  <2>1. \A j \in first..Len(s), i \in 1..(first - 1) : j \in 1..Len(s) /\ i \in 1..Len(s) /\ i # j
    BY <1>1
  <2>2. \A j \in 1..Len(s) : j \in first..Len(s) \/ j \in 1..(first - 1)
    BY <1>1
  <2>3. \A j \in first..Len(s), i \in 1..(first - 1) : s[j] # s[i]
    BY <1>1, <2>1 DEF IsInjective
  <2>4. ToSet(s) = {s[j] : j \in 1..Len(s)}
    BY <1>1 DEF ToSet
  <2>. QED
    BY <2>1, <2>2, <2>3, <2>4
<1>. QED
  BY <1>2, <1>6, <1>7, <1>8 DEF t

(* However much has to go, the accounts are right afterwards, and no entry *)
(* comes to memory that is neither the new one nor an old one.             *)
LEMMA PutKeepsMemory ==
    ASSUME MemoryOK, NEW k \in Key, NEW e \in Entry, MemPut(k, e)
    PROVE  MemoryOK' /\ \A j \in Key : mem'[j] = None \/ mem'[j] = IF j = k THEN e ELSE mem[j]
<1>. DEFINE order == Touched(k)
            n == Len(order)
            m == [mem EXCEPT ![k] = e]
            after == bytes - SizeOf(mem[k]) + SizeOf(e)
            Gone(i) == {order[j] : j \in 1..(i - 1)}
            Left(i) == after - MemBytes(Gone(i), m)
            first == CHOOSE i \in 1..(n + 1) :
                       /\ i = n + 1 \/ Left(i) <= MemBudget
                       /\ \A j \in 1..(i - 1) : Left(j) > MemBudget
            rest == [j \in Key |-> IF j \in Gone(first) THEN None ELSE m[j]]
<1>1. mem' = rest /\ recent' = SubSeq(order, first, n) /\ bytes' = Left(first)
  BY DEF MemPut
<1>2. order \in Seq(Key) /\ n \in Nat /\ IsInjective(order)
      /\ ToSet(order) = ToSet(recent) \cup {k} /\ ToSet(order) = Gone(n + 1)
      /\ \A i \in 1..(n + 1) : Gone(i) \subseteq Key
  <2>1. order \in Seq(Key) /\ IsInjective(order) /\ ToSet(order) = ToSet(recent) \cup {k}
    BY TouchedIsAnOrder
  <2>. HIDE DEF order
  <2>2. n \in Nat /\ DOMAIN order = 1..n /\ \A i \in 1..n : order[i] \in Key
    BY <2>1
  <2>3. ToSet(order) = Gone(n + 1)
    BY <2>2 DEF ToSet
  <2>4. \A i \in 1..(n + 1) : Gone(i) \subseteq Key
    BY <2>2
  <2>. QED
    BY <2>1, <2>2, <2>3, <2>4
<1>3. m \in Memory /\ m[k] = e /\ \A j \in Key \ {k} : m[j] = mem[j]
  BY DEF Memory, MemoryOK
<1>4. after = MemBytes(Key, m) /\ after \in Nat
  <2>1. after = MemBytes(Key, m)
    BY MemBytesOfReplaced DEF MemoryOK
  <2>2. MemBytes(Key, m) \in Nat
    <3>. HIDE DEF m
    <3>. QED
      BY <1>3, MemBytesIsNat
  <2>. QED
    BY <2>1, <2>2
<1>5. \A i \in 1..(n + 1) : Left(i) = MemBytes(Key, [j \in Key |-> IF j \in Gone(i) THEN None ELSE m[j]])
                            /\ Left(i) \in Nat
  <2>. SUFFICES ASSUME NEW i \in 1..(n + 1)
                PROVE  Left(i) = MemBytes(Key, [j \in Key |-> IF j \in Gone(i) THEN None ELSE m[j]])
                       /\ Left(i) \in Nat
    OBVIOUS
  <2>. DEFINE G == Gone(i)
              r == [j \in Key |-> IF j \in G THEN None ELSE m[j]]
  <2>1. G \subseteq Key
    BY <1>2
  <2>2. r \in Memory
    BY <1>3 DEF Memory
  <2>. HIDE DEF m, G, after
  <2>3. MemBytes(Key, r) = MemBytes(Key, m) - MemBytes(G, m)
    BY <1>3, <2>1, MemBytesOfRest
  <2>4. MemBytes(Key, r) \in Nat
    <3>. HIDE DEF r
    <3>. QED
      BY <2>2, MemBytesIsNat
  <2>. QED
    BY <1>4, <2>3, <2>4 DEF G
<1>6. first \in 1..(n + 1) /\ (first = n + 1 \/ Left(first) <= MemBudget)
  <2>. DEFINE Fits == {i \in 1..(n + 1) : i = n + 1 \/ Left(i) <= MemBudget}
  <2>1. n + 1 \in Fits /\ Fits \subseteq Nat
    BY <1>2
  <2>2. \E i \in Fits : \A j \in Fits : i <= j
    <3>. HIDE DEF Fits
    <3>. QED
      BY <2>1, LeastNumber
  <2>3. PICK i \in Fits : \A j \in Fits : i <= j
    BY <2>2
  <2>. HIDE DEF Left, order
  <2>. HIDE DEF n
  <2>4. \A j \in 1..(i - 1) : j \in 1..(n + 1) /\ j # n + 1 /\ j \notin Fits /\ Left(j) \in Nat
    <3>1. i \in 1..(n + 1) /\ n \in Nat
      BY <1>2
    <3>2. \A j \in 1..(i - 1) : j \in 1..(n + 1) /\ j # n + 1 /\ ~ (i <= j)
      BY <3>1
    <3>3. \A j \in 1..(n + 1) : Left(j) \in Nat
      BY <1>5
    <3>. HIDE DEF Fits
    <3>. QED
      BY <2>3, <3>2, <3>3
  <2>5. \A j \in 1..(i - 1) : Left(j) > MemBudget
    BY <2>4, Numbers
  <2>. QED
    BY <2>3, <2>5
<1>7. bytes' = MemBytes(Key, rest) /\ bytes' \in Nat
  BY <1>1, <1>5, <1>6
<1>8. bytes' <= MemBudget
  <2>1. CASE first = n + 1
    <3>1. \A j \in Key : rest[j] = None
      <4>1. \A j \in Key : j \notin Gone(n + 1) => m[j] = None
        BY <1>2, <1>3 DEF MemoryOK
      <4>. HIDE DEF m
      <4>. QED
        BY <2>1, <4>1
    <3>. HIDE DEF rest
    <3>2. \A j \in Key : Sizes(rest)[j] = 0
      BY <3>1 DEF Sizes, SizeOf
    <3>3. MemBytes(Key, rest) = 0
      BY <3>2, Numbers, TotalOfZeros, MemBytesIsTotal
    <3>. QED
      BY <1>7, <3>3, Numbers
  <2>2. CASE first # n + 1
    BY <1>1, <1>6, <2>2
  <2>. QED
    BY <2>1, <2>2
<1>9. rest \in Memory
  BY <1>3 DEF Memory
<1>10. recent' \in Seq(Key) /\ ToSet(recent') = ToSet(order) \ Gone(first) /\ IsInjective(recent')
  <2>. HIDE DEF order, first
  <2>. QED
    BY <1>1, <1>2, <1>6, TailOfAnOrder
<1>11. ToSet(order) = {j \in Key : m[j] # None}
  BY <1>2, <1>3, NoneAssumption DEF MemoryOK
<1>12. ToSet(recent') = {j \in Key : rest[j] # None}
  <2>. HIDE DEF order, first, m
  <2>. QED
    BY <1>10, <1>11
<1>. HIDE DEF first, Gone
<1>. QED
  BY <1>1, <1>3, <1>7, <1>8, <1>9, <1>10, <1>12 DEF MemoryOK

-----------------------------------------------------------------------------
(* The invariant *)

(* The sweep looks at a name once: what it saw is to be inspected, to be   *)
(* unlinked, or counted.                                                   *)
SweepSeesOnce ==
    /\ IsFiniteSet(sweep.live)
    /\ \A x, y \in sweep.live : x[1] = y[1] => x = y
    /\ \A x \in sweep.live : x[1] \notin sweep.todo
    /\ sweep.doomed # None =>
         /\ sweep.doomed[1] \notin sweep.todo
         /\ \A x \in sweep.live : x[1] # sweep.doomed[1]
    /\ sweep.stage # "list" => sweep.doomed = None

(* What it is about to unlink had to go, and what has expired or was given *)
(* up stays so.                                                            *)
ToGo(n, f, t) ==
    \/ f.content = "garbage"
    \/ ~IsScratch(n) /\ f.entry.expires <= t
    \/ IsScratch(n) /\ t - f.written > Grace
DoomedForCause == sweep.doomed # None => ToGo(sweep.doomed[1], sweep.doomed[2], now)

(* Its sum covers what it counts.                                          *)
CountedEnough == sweep.stage = "evict" => FileBytes(sweep.live) <= sweep.total

(* A put on its way: the scratch file holds its entry, and once that is in *)
(* place nothing older is.                                                 *)
PutInPlace ==
    writer # None =>
      /\ writer[1][1] \in Stored /\ IsScratch(writer[1])
      /\ ~renamed /\ file[writer[1]] # None => file[writer[1]].entry = writer[2]
      /\ renamed => /\ writer[1][1] \notin tainted
                    /\ file[Path(writer[1][1])] # None =>
                         file[Path(writer[1][1])].entry = writer[2]

(* Where the disk refused nothing, a file is the last put of its key, or   *)
(* of the put that has just renamed it.                                    *)
FilesAreTheLast ==
    \A k \in Stored \ tainted :
      /\ file[Path(k)] # None
      /\ ~(writer # None /\ renamed /\ writer[1][1] = k)
      => file[Path(k)].entry = last[k]

IInv ==
    /\ TypeOK /\ MemoryOK
    /\ SweepSeesOnce /\ DoomedForCause /\ CountedEnough
    /\ PutInPlace /\ FilesAreTheLast

Files == [Name -> File \cup {None}]
Sweeps == [stage : {"idle", "list", "evict"}, todo : SUBSET Name,
           doomed : Seen \cup {None}, live : SUBSET Seen, total : Nat]

(* The types of what is not in memory.                                     *)
DiskOK ==
    /\ now \in Nat /\ faults \in Nat /\ up \in BOOLEAN /\ due \in BOOLEAN /\ renamed \in BOOLEAN
    /\ file \in Files
    /\ writer \in (Name \X Entry) \cup {None}
    /\ sweep \in Sweeps
    /\ last \in Memory
    /\ tainted \subseteq Stored

LEMMA TypesSplit == TypeOK /\ MemoryOK <=> DiskOK /\ MemoryOK
BY DEF TypeOK, MemoryOK, DiskOK, Files, Sweeps, Memory

LEMMA AccountedIsOK == TypeOK => (MemoryAccounted <=> MemoryOK)
BY DEF TypeOK, MemoryOK, MemoryAccounted, Memory

LEMMA EntriesAreNotNone ==
    /\ None \notin Entry /\ None \notin File
    /\ \A n \in Name, e \in Entry : <<n, e>> # None /\ <<n, e>> \in Name \X Entry
    /\ \A n \in Name, f \in File : <<n, f>> # None /\ <<n, f>> \in Seen
    /\ \A f \in File : f.entry \in Entry /\ f.content \in Content /\ f.written \in Nat
    /\ \A v \in Value, t \in Nat : [value |-> v, expires |-> t] \in Entry
    /\ \A e \in Entry, c \in Content, t \in Nat :
         [entry |-> e, content |-> c, written |-> t] \in File
BY NoneAssumption DEF Seen, File, Entry

LEMMA NamesAreTyped ==
    /\ \A k \in Stored : Path(k) \in Name /\ ~IsScratch(Path(k)) /\ Path(k)[1] = k /\ k \in Key
    /\ \A k \in Stored, s \in Scratch : <<k, s>> \in Name /\ IsScratch(<<k, s>>)
    /\ \A n \in Name : n[1] \in Stored
    /\ \A n \in Name, k \in Stored : IsScratch(n) => n # Path(k)
BY CacheAssumption DEF Path, IsScratch, Name, Key

LEMMA KeysAreApart == \A k \in Stored : k \notin MemOnly /\ k \in Key
BY CacheAssumption DEF Key

LEMMA UnlinkedIsTyped ==
    ASSUME file \in Files, NEW n \in Name
    PROVE  /\ Unlinked(n) \in Files
           /\ \A m \in Name : Unlinked(n)[m] = IF m = n THEN None ELSE file[m]
BY DEF Unlinked, Files

(* A sweep record with one of its fields replaced.                         *)
LEMMA SweepsAreTyped ==
    ASSUME NEW r \in Sweeps, NEW t, t \subseteq Name, NEW x \in Seen, NEW n \in Nat, NEW y
    PROVE  /\ [r EXCEPT !.todo = t] \in Sweeps
           /\ [r EXCEPT !.todo = t, !.doomed = x] \in Sweeps
           /\ [r EXCEPT !.todo = t, !.live = @ \cup {x}] \in Sweeps
           /\ [r EXCEPT !.doomed = None] \in Sweeps
           /\ [r EXCEPT !.stage = "evict", !.total = n] \in Sweeps
           /\ [r EXCEPT !.live = @ \ {y}, !.total = n] \in Sweeps
BY DEF Sweeps

LEMMA EmptyMemoryIsOK ==
    ASSUME NEW m, m = [k \in Key |-> None]
    PROVE  m \in Memory /\ MemBytes(Key, m) = 0 /\ \A k \in Key : m[k] = None
<1>1. m \in Memory /\ \A k \in Key : Sizes(m)[k] = 0
  BY DEF Memory, Sizes, SizeOf
<1>2. MemBytes(Key, m) = 0
  BY <1>1, Numbers, TotalOfZeros, MemBytesIsTotal
<1>. QED
  BY <1>1, <1>2

LEMMA EmptyOrder == <<>> \in Seq(Key) /\ ToSet(<<>>) = {} /\ IsInjective(<<>>)
BY DEF ToSet, IsInjective

LEMMA NoSweepIsTyped == NoSweep \in Sweeps
BY NoneAssumption DEF NoSweep, Sweeps

(* A sweep that has not begun has nothing to answer for.                   *)
LEMMA NoSweepIsFine ==
    /\ NoSweep.live = {} /\ NoSweep.doomed = None /\ NoSweep.stage = "idle" /\ IsFiniteSet(NoSweep.live)
BY FS_EmptySet DEF NoSweep

LEMMA InitIInv == Init => IInv
<1>. SUFFICES ASSUME Init PROVE IInv
  OBVIOUS
<1>1. MemoryOK
  BY EmptyMemoryIsOK, EmptyOrder, Numbers DEF Init, MemoryOK
<1>2. DiskOK
  BY NoSweepIsTyped, EmptyMemoryIsOK DEF Init, DiskOK, Files
<1>3. SweepSeesOnce /\ DoomedForCause /\ CountedEnough
  BY NoSweepIsFine DEF Init, SweepSeesOnce, DoomedForCause, CountedEnough
<1>4. PutInPlace
  BY DEF Init, PutInPlace
<1>5. FilesAreTheLast
  BY NamesAreTyped DEF Init, FilesAreTheLast
<1>. QED
  BY <1>1, <1>2, <1>3, <1>4, <1>5, TypesSplit DEF IInv

-----------------------------------------------------------------------------
(* Types *)

LEMMA EndPutKeepsMemory ==
    ASSUME MemoryOK, DiskOK, PutInPlace, writer # None, EndPut
    PROVE  /\ MemoryOK'
           /\ writer[1][1] \in Stored /\ writer[1] \in Name /\ writer[2] \in Entry
           /\ \A j \in Key : mem'[j] = None \/ mem'[j] = IF j = writer[1][1] THEN writer[2] ELSE mem[j]
<1>1. writer[1] \in Name /\ writer[2] \in Entry /\ writer[1][1] \in Stored
  BY DEF DiskOK, PutInPlace
<1>2. writer[1][1] \in Key
  BY <1>1 DEF Key
<1>. QED
  BY <1>1, <1>2, PutKeepsMemory DEF EndPut

(* Whatever a step does to memory, the accounts are right after it.        *)
LEMMA StepKeepsMemory ==
    ASSUME IInv, [Next]_vars
    PROVE  MemoryOK'
<1>. USE DEF IInv
<1>1. MemoryOK /\ DiskOK /\ PutInPlace
  BY TypesSplit
<1>2. CASE UNCHANGED memory
  BY <1>1, <1>2 DEF memory, MemoryOK
<1>3. ASSUME NEW k \in Key, MemHit(k) PROVE MemoryOK'
  BY <1>1, <1>3, HitKeepsMemory DEF MemHit, Fresh, Touched
<1>4. ASSUME NEW k \in Key, Miss(k) \/ RemoveMem(k) \/ RemoveKey(k) PROVE MemoryOK'
  <2>1. Drop({k}) => MemoryOK'
    BY <1>1, DropKeepsMemory
  <2>. QED
    BY <1>2, <1>4, <2>1 DEF Miss, RemoveMem, RemoveKey
<1>5. ASSUME NEW k \in MemOnly, NEW v \in Marker, NEW ttl \in Ttl, PutMem(k, v, ttl) PROVE MemoryOK'
  <2>1. [value |-> v, expires |-> now + ttl] \in Entry /\ k \in Key
    BY <1>1, CacheAssumption DEF Entry, Key, DiskOK
  <2>. QED
    BY <1>1, <1>5, <2>1, PutKeepsMemory DEF PutMem
<1>6. ASSUME NEW k \in Stored, ReadBack(k) PROVE MemoryOK'
  <2>1. file[Path(k)].entry \in Entry /\ k \in Key
    BY <1>1, <1>6, NamesAreTyped, EntriesAreNotNone DEF ReadBack, Readable, DiskOK, Files
  <2>. QED
    BY <1>1, <1>6, <2>1, PutKeepsMemory DEF ReadBack
<1>7. CASE PutStored \/ PutUnstored
  BY <1>1, <1>7, EndPutKeepsMemory DEF PutStored, PutUnstored
<1>8. CASE StartSweep
  <2>1. PICK keys : keys \subseteq Key /\ Drop(keys)
    BY <1>8 DEF StartSweep
  <2>. QED
    BY <1>1, <2>1, DropKeepsMemory
<1>9. CASE Kill
  BY <1>9, EmptyMemoryIsOK, EmptyOrder, Numbers DEF Kill, MemoryOK
<1>10. ASSUME NEW k \in Stored, NEW v \in Value, NEW ttl \in Ttl, BeginPut(k, v, ttl) PROVE MemoryOK'
  BY <1>2, <1>10 DEF BeginPut
<1>11. CASE Rename \/ Unlink \/ StartEviction \/ EndSweep \/ Tick
  BY <1>2, <1>11 DEF Rename, Unlink, StartEviction, EndSweep, Tick
<1>12. ASSUME NEW n \in Name, Inspect(n) PROVE MemoryOK'
  BY <1>2, <1>12 DEF Inspect
<1>13. ASSUME NEW x, Evict(x) PROVE MemoryOK'
  BY <1>2, <1>13 DEF Evict
<1>14. CASE UNCHANGED vars
  BY <1>2, <1>14 DEF vars, memory
<1>15. \A k \in Stored \cup MemOnly : k \in Key
  BY DEF Key
<1>. QED
  BY <1>3, <1>4, <1>5, <1>6, <1>7, <1>8, <1>9, <1>10, <1>11, <1>12, <1>13, <1>14, <1>15 DEF Next

-----------------------------------------------------------------------------
(* What the sweep counts *)

(* The sizes of the files it saw.                                          *)
Weights == [x \in Seen |-> SizeOf(x[2].entry)]

LEMMA WeightsAreNumbers ==
    \A x \in Seen : Weights[x] = SizeOf(x[2].entry) /\ Weights[x] \in Nat
<1>1. \A x \in Seen : x[2].entry \in Entry
  BY DEF Seen, File
<1>. QED
  BY <1>1, SizesAreNumbers DEF Weights

LEMMA FileBytesIsTotal ==
    ASSUME NEW seen, seen \subseteq Seen, IsFiniteSet(seen)
    PROVE  FileBytes(seen) = Total(Weights, seen)
<1>. DEFINE Rec(it) == it = [s \in SUBSET seen |->
                               IF s = {} THEN 0 ELSE SizeOf(First(s)[2].entry) + it[s \ {First(s)}]]
<1>1. FileBytes(seen) = (CHOOSE it : Rec(it))[seen]
  BY Zenon DEF FileBytes, MapThenSumSet, MapThenFoldSet, First
<1>2. \A s \in SUBSET seen : s # {} => Weights[First(s)] = SizeOf(First(s)[2].entry)
  BY FirstIsMember, WeightsAreNumbers
<1>3. ASSUME NEW it PROVE Rec(it) <=> Adds(Weights, seen, it)
  BY <1>2 DEF Adds
<1>4. \E it : Adds(Weights, seen, it)
  BY AddsExists
<1>5. Rec(CHOOSE it : Rec(it))
  <2>. HIDE DEF Rec
  <2>. QED
    BY <1>3, <1>4
<1>6. Adds(Weights, seen, CHOOSE it : Rec(it))
  <2>. HIDE DEF Rec
  <2>. QED
    BY <1>3, <1>5
<1>. HIDE DEF Rec
<1>. QED
  BY <1>1, <1>6, AddsIsTotal

LEMMA FileBytesOfParts ==
    ASSUME NEW seen, seen \subseteq Seen, IsFiniteSet(seen)
    PROVE  /\ FileBytes(seen) \in Nat
           /\ \A part \in SUBSET seen : FileBytes(part) \in Nat /\ FileBytes(part) <= FileBytes(seen)
           /\ \A x \in seen : SizeOf(x[2].entry) \in Nat
                              /\ FileBytes(seen) = SizeOf(x[2].entry) + FileBytes(seen \ {x})
<1>1. \A x \in seen : Weights[x] = SizeOf(x[2].entry) /\ Weights[x] \in Nat
  BY WeightsAreNumbers
<1>2. ASSUME NEW part \in SUBSET seen
      PROVE  FileBytes(part) = Total(Weights, part) /\ FileBytes(part) \in Nat
  <2>1. part \subseteq Seen /\ IsFiniteSet(part) /\ \A x \in part : Weights[x] \in Nat
    BY <1>1, FS_Subset
  <2>2. Total(Weights, part) \in Nat
    BY <2>1, TotalIsNat
  <2>. QED
    BY <2>1, <2>2, FileBytesIsTotal
<1>3. ASSUME NEW part \in SUBSET seen PROVE FileBytes(part) <= FileBytes(seen)
  <2>1. Total(Weights, part) <= Total(Weights, seen)
    BY <1>1, TotalOfPartIsLess
  <2>. QED
    BY <1>2, <2>1
<1>4. ASSUME NEW x \in seen PROVE FileBytes(seen) = SizeOf(x[2].entry) + FileBytes(seen \ {x})
  <2>1. Total(Weights, seen) = Weights[x] + Total(Weights, seen \ {x})
    BY <1>1, TotalWithout
  <2>2. seen \ {x} \in SUBSET seen /\ seen \in SUBSET seen
    OBVIOUS
  <2>. QED
    BY <1>1, <1>2, <2>1, <2>2
<1>. QED
  BY <1>1, <1>2, <1>3, <1>4

LEMMA NothingWeighsNothing == FileBytes({}) = 0
<1>1. {} \subseteq Seen /\ IsFiniteSet({})
  BY FS_EmptySet
<1>. QED
  BY <1>1, FileBytesIsTotal, TotalOfNothing

-----------------------------------------------------------------------------
(* The sweep *)

SweepOK == sweep \in Sweeps /\ SweepSeesOnce /\ DoomedForCause /\ CountedEnough

(* Time passes, but what had to go still has to.                           *)
LEMMA SweepLeftAlone ==
    ASSUME DiskOK, SweepOK, sweep' = sweep, now' \in Nat, now' >= now
    PROVE  SweepOK'
<1>1. DoomedForCause'
  <2>. SUFFICES ASSUME sweep.doomed # None PROVE ToGo(sweep.doomed[1], sweep.doomed[2], now')
    BY DEF DoomedForCause
  <2>1. sweep.doomed[2] \in File
    BY DEF SweepOK, Sweeps, Seen
  <2>2. sweep.doomed[2].entry.expires \in Nat /\ sweep.doomed[2].written \in Nat
    BY <2>1 DEF File, Entry
  <2>3. ToGo(sweep.doomed[1], sweep.doomed[2], now)
    BY DEF SweepOK, DoomedForCause
  <2>. QED
    BY <2>2, <2>3, Numbers DEF ToGo, DiskOK
<1>. QED
  BY <1>1 DEF SweepOK, SweepSeesOnce, CountedEnough

LEMMA NoSweepIsOK == ASSUME sweep' = NoSweep PROVE SweepOK'
BY NoSweepIsFine, NoSweepIsTyped DEF SweepOK, SweepSeesOnce, DoomedForCause, CountedEnough

LEMMA StartKeepsSweep == ASSUME DiskOK, StartSweep PROVE SweepOK'
<1>. DEFINE names == {n \in Name : file[n] # None}
            s == [NoSweep EXCEPT !.stage = "list", !.todo = names]
<1>1. sweep' = s
  BY DEF StartSweep
<1>2. s.live = {} /\ s.doomed = None /\ s.stage = "list"
  BY DEF NoSweep
<1>3. s \in Sweeps
  BY NoSweepIsTyped DEF Sweeps
<1>4. IsFiniteSet(s.live)
  BY <1>2, FS_EmptySet
<1>. HIDE DEF s
<1>. QED
  BY <1>1, <1>2, <1>3, <1>4 DEF SweepOK, SweepSeesOnce, DoomedForCause, CountedEnough

(* A look at a name ends with it to be unlinked, counted, or left alone.   *)
LEMMA InspectKeepsSweep ==
    ASSUME DiskOK, SweepOK, NEW n \in Name, Inspect(n)
    PROVE  SweepOK'
<1>. DEFINE x == <<n, file[n]>>
            looked == [sweep EXCEPT !.todo = @ \ {n}]
            doom == [looked EXCEPT !.doomed = x]
            budget == [looked EXCEPT !.live = @ \cup {x}]
<1>1. /\ sweep.stage = "list" /\ sweep.doomed = None /\ n \in sweep.todo /\ now' = now
      /\ \/ sweep' = looked
         \/ sweep' = doom /\ file[n] # None /\ (Abandoned(n) \/ Expired(n))
         \/ sweep' = budget /\ file[n] # None
  <2>1. sweep.todo # {} => (CHOOSE m \in sweep.todo : TRUE) \in sweep.todo
    OBVIOUS
  <2>. QED
    BY <2>1 DEF Inspect
<1>2. /\ sweep \in Sweeps /\ IsFiniteSet(sweep.live) /\ sweep.todo \subseteq Name
      /\ sweep.live \subseteq Seen /\ SweepSeesOnce
  BY DEF SweepOK, SweepSeesOnce, Sweeps
<1>3. file[n] # None => file[n] \in File /\ x \in Seen /\ x # None
  BY EntriesAreNotNone DEF DiskOK, Files
<1>4. CASE sweep' = looked
  <2>1. /\ looked.todo = sweep.todo \ {n} /\ looked.live = sweep.live
        /\ looked.doomed = None /\ looked.stage = "list" /\ looked \in Sweeps
    BY <1>1, <1>2 DEF Sweeps
  <2>. HIDE DEF looked
  <2>. QED
    BY <1>2, <1>4, <2>1 DEF SweepOK, SweepSeesOnce, DoomedForCause, CountedEnough
<1>5. CASE sweep' = doom /\ file[n] # None /\ (Abandoned(n) \/ Expired(n))
  <2>1. /\ doom.todo = sweep.todo \ {n} /\ doom.live = sweep.live
        /\ doom.doomed = x /\ doom.stage = "list" /\ doom \in Sweeps
    BY <1>1, <1>2, <1>3, <1>5 DEF Sweeps
  <2>2. x[1] = n /\ x[2] = file[n]
    OBVIOUS
  <2>3. ToGo(x[1], x[2], now)
    BY <1>1, <1>5, <2>2 DEF ToGo, Abandoned, Expired, IsScratch
  <2>. HIDE DEF doom, x
  <2>4. DoomedForCause'
    BY <1>1, <1>5, <2>1, <2>3 DEF DoomedForCause
  <2>5. \A y \in sweep.live : y[1] # n
    BY <1>1, <1>2 DEF SweepSeesOnce
  <2>. QED
    BY <1>2, <1>5, <2>1, <2>2, <2>4, <2>5 DEF SweepOK, SweepSeesOnce, CountedEnough
<1>6. CASE sweep' = budget /\ file[n] # None
  <2>1. /\ budget.todo = sweep.todo \ {n} /\ budget.live = sweep.live \cup {x}
        /\ budget.doomed = None /\ budget.stage = "list" /\ budget \in Sweeps
    BY <1>1, <1>2, <1>3, <1>6 DEF Sweeps
  <2>2. x[1] = n
    OBVIOUS
  <2>3. IsFiniteSet(sweep.live \cup {x})
    BY <1>2, FS_AddElement
  <2>. HIDE DEF budget, x
  <2>4. \A y \in sweep.live : y[1] # n
    BY <1>1, <1>2 DEF SweepSeesOnce
  <2>5. SweepSeesOnce'
    BY <1>2, <1>6, <2>1, <2>2, <2>3, <2>4 DEF SweepSeesOnce
  <2>. QED
    BY <1>6, <2>1, <2>5 DEF SweepOK, DoomedForCause, CountedEnough
<1>. QED
  BY <1>1, <1>4, <1>5, <1>6

LEMMA UnlinkKeepsSweep == ASSUME SweepOK, Unlink PROVE SweepOK'
<1>. DEFINE s == [sweep EXCEPT !.doomed = None]
<1>1. sweep' = s
  BY DEF Unlink
<1>2. /\ s.todo = sweep.todo /\ s.live = sweep.live /\ s.doomed = None /\ s.stage = sweep.stage
      /\ s.total = sweep.total /\ s \in Sweeps
  BY DEF SweepOK, Sweeps
<1>. HIDE DEF s
<1>. QED
  BY <1>1, <1>2 DEF SweepOK, SweepSeesOnce, DoomedForCause, CountedEnough

LEMMA EvictionStartsExact == ASSUME SweepOK, StartEviction PROVE SweepOK'
<1>. DEFINE s == [sweep EXCEPT !.stage = "evict", !.total = FileBytes(sweep.live)]
<1>1. sweep' = s /\ sweep.doomed = None
  BY DEF StartEviction
<1>2. sweep.live \subseteq Seen /\ IsFiniteSet(sweep.live) /\ sweep \in Sweeps
  BY DEF SweepOK, SweepSeesOnce, Sweeps
<1>3. FileBytes(sweep.live) \in Nat
  BY <1>2, FileBytesOfParts
<1>4. /\ s.todo = sweep.todo /\ s.live = sweep.live /\ s.doomed = None /\ s.stage = "evict"
      /\ s.total = FileBytes(sweep.live) /\ s \in Sweeps
  BY <1>1, <1>2, <1>3 DEF Sweeps
<1>. HIDE DEF s
<1>. QED
  BY <1>1, <1>3, <1>4 DEF SweepOK, SweepSeesOnce, DoomedForCause, CountedEnough

(* What goes leaves the list with its bytes at most.                       *)
LEMMA EvictKeepsSweep == ASSUME SweepOK, NEW x \in sweep.live, Evict(x) PROVE SweepOK'
<1>. DEFINE n == IF file[x[1]] # None THEN sweep.total - SizeOf(x[2].entry) ELSE sweep.total
            s == [sweep EXCEPT !.live = @ \ {x}, !.total = n]
<1>1. sweep' = s /\ sweep.stage = "evict"
  BY DEF Evict
<1>2. sweep.live \subseteq Seen /\ IsFiniteSet(sweep.live) /\ sweep \in Sweeps /\ sweep.total \in Nat
  BY DEF SweepOK, SweepSeesOnce, Sweeps
<1>3. FileBytes(sweep.live) = SizeOf(x[2].entry) + FileBytes(sweep.live \ {x})
      /\ FileBytes(sweep.live) <= sweep.total /\ SizeOf(x[2].entry) \in Nat
      /\ FileBytes(sweep.live \ {x}) \in Nat
  <2>1. sweep.live \ {x} \in SUBSET sweep.live
    OBVIOUS
  <2>. QED
    BY <1>1, <1>2, <2>1, FileBytesOfParts DEF SweepOK, CountedEnough
<1>4. n \in Nat /\ FileBytes(sweep.live \ {x}) <= n
  BY <1>2, <1>3
<1>5. IsFiniteSet(sweep.live \ {x})
  BY <1>2, FS_Subset
<1>. HIDE DEF n
<1>6. /\ s.todo = sweep.todo /\ s.live = sweep.live \ {x} /\ s.doomed = sweep.doomed /\ s.stage = sweep.stage
      /\ s.total = n /\ s \in Sweeps
  BY <1>2, <1>4 DEF Sweeps
<1>. HIDE DEF s
<1>7. sweep.doomed = None
  BY <1>1 DEF SweepOK, SweepSeesOnce
<1>8. SweepSeesOnce'
  BY <1>1, <1>5, <1>6, <1>7 DEF SweepOK, SweepSeesOnce
<1>. QED
  BY <1>1, <1>4, <1>6, <1>7, <1>8 DEF SweepOK, DoomedForCause, CountedEnough

(* Steps that are not the sweep's leave it as it is, or end it.            *)
LEMMA OthersLeaveSweep ==
    ASSUME DiskOK, [Next]_vars,
           ~StartSweep, \A n \in Name : ~Inspect(n), ~Unlink, ~StartEviction,
           \A x \in sweep.live : ~Evict(x)
    PROVE  /\ sweep' \in {sweep, NoSweep}
           /\ now' \in {now, now + 1}
<1>1. CASE UNCHANGED vars
  BY <1>1 DEF vars
<1>2. CASE \E k \in Key : MemHit(k) \/ Miss(k)
  BY <1>2 DEF MemHit, Miss
<1>3. CASE \E k \in MemOnly : RemoveMem(k) \/ \E v \in Marker, ttl \in Ttl : PutMem(k, v, ttl)
  BY <1>3 DEF RemoveMem, PutMem
<1>4. CASE \E k \in Stored : ReadBack(k) \/ RemoveKey(k) \/ \E v \in Value, ttl \in Ttl : BeginPut(k, v, ttl)
  BY <1>4 DEF ReadBack, RemoveKey, BeginPut
<1>5. CASE Rename \/ PutStored \/ PutUnstored \/ EndSweep \/ Kill \/ Tick
  BY <1>5 DEF Rename, PutStored, PutUnstored, EndSweep, Kill, Tick
<1>. QED
  BY <1>1, <1>2, <1>3, <1>4, <1>5 DEF Next

LEMMA StepKeepsSweep ==
    ASSUME IInv, [Next]_vars
    PROVE  SweepOK'
<1>1. DiskOK /\ SweepOK
  BY TypesSplit DEF IInv, SweepOK, DiskOK
<1>2. CASE StartSweep
  BY <1>1, <1>2, StartKeepsSweep
<1>3. ASSUME NEW n \in Name, Inspect(n) PROVE SweepOK'
  BY <1>1, <1>3, InspectKeepsSweep
<1>4. CASE Unlink
  BY <1>1, <1>4, UnlinkKeepsSweep
<1>5. CASE StartEviction
  BY <1>1, <1>5, EvictionStartsExact
<1>6. ASSUME NEW x \in sweep.live, Evict(x) PROVE SweepOK'
  BY <1>1, <1>6, EvictKeepsSweep
<1>7. CASE sweep' \in {sweep, NoSweep} /\ now' \in {now, now + 1}
  <2>1. now' \in Nat /\ now' >= now
    BY <1>1, <1>7 DEF DiskOK
  <2>. QED
    BY <1>1, <1>7, <2>1, SweepLeftAlone, NoSweepIsOK
<1>. QED
  BY <1>1, <1>2, <1>3, <1>4, <1>5, <1>6, <1>7, OthersLeaveSweep

-----------------------------------------------------------------------------
(* The directory *)

(* Unless a put is at it or the host loses power, a file stays or goes.    *)
LEMMA FilesStayOrGo ==
    ASSUME DiskOK, SweepOK, [Next]_vars, ~Kill, ~Rename,
           \A k \in Stored, v \in Value, ttl \in Ttl : ~BeginPut(k, v, ttl),
           PutUnstored => writer[1] \in Name
    PROVE  file' \in Files /\ \A n \in Name : file'[n] \in {None, file[n]}
<1>1. CASE file' = file
  BY <1>1 DEF DiskOK
<1>2. CASE \E n \in Name : file' = Unlinked(n)
  BY <1>2, UnlinkedIsTyped DEF DiskOK
<1>3. ASSUME NEW k \in Key, Miss(k) PROVE file' = file \/ \E n \in Name : file' = Unlinked(n)
  BY <1>3, NamesAreTyped DEF Miss
<1>4. ASSUME NEW k \in Stored, RemoveKey(k) PROVE file' = file \/ \E n \in Name : file' = Unlinked(n)
  BY <1>4, NamesAreTyped DEF RemoveKey
<1>5. CASE PutUnstored
  BY <1>2, <1>5 DEF PutUnstored
<1>6. CASE Unlink
  <2>1. sweep.doomed[1] \in Name
    BY <1>6 DEF Unlink, SweepOK, Sweeps, Seen
  <2>. QED
    BY <1>2, <1>6, <2>1 DEF Unlink
<1>7. ASSUME NEW x \in sweep.live, Evict(x) PROVE \E n \in Name : file' = Unlinked(n)
  <2>1. x[1] \in Name
    BY DEF SweepOK, Sweeps, Seen
  <2>. QED
    BY <1>7, <2>1 DEF Evict
<1>8. CASE UNCHANGED vars
  BY <1>1, <1>8 DEF vars
<1>9. ASSUME NEW k \in Key, MemHit(k) PROVE file' = file
  BY <1>9 DEF MemHit
<1>10. ASSUME NEW k \in MemOnly,
              RemoveMem(k) \/ \E v \in Marker, ttl \in Ttl : PutMem(k, v, ttl)
       PROVE  file' = file
  BY <1>10 DEF RemoveMem, PutMem
<1>11. ASSUME NEW k \in Stored, ReadBack(k) PROVE file' = file
  BY <1>11 DEF ReadBack
<1>12. ASSUME NEW n \in Name, Inspect(n) PROVE file' = file
  BY <1>12 DEF Inspect
<1>13. CASE PutStored \/ StartSweep \/ StartEviction \/ EndSweep \/ Tick
  BY <1>1, <1>13 DEF PutStored, StartSweep, StartEviction, EndSweep, Tick
<1>. QED
  BY <1>1, <1>2, <1>3, <1>4, <1>5, <1>6, <1>7, <1>8, <1>9, <1>10, <1>11, <1>12, <1>13 DEF Next

(* A scratch name takes the entry.                                         *)
LEMMA BegunIsTyped ==
    ASSUME DiskOK, NEW k \in Stored, NEW v \in Value, NEW ttl \in Ttl, BeginPut(k, v, ttl)
    PROVE  /\ file' \in Files /\ PutInPlace' /\ writer' \in Name \X Entry
           /\ \A n \in Name : ~IsScratch(n) => file'[n] = file[n]
<1>1. PICK s \in Scratch :
        LET e == [value |-> v, expires |-> now + ttl]
        IN  /\ writer' = <<<<k, s>>, e>>
            /\ file' = [file EXCEPT ![<<k, s>>] = [entry |-> e, content |-> "whole", written |-> now]]
  BY DEF BeginPut
<1>. DEFINE e == [value |-> v, expires |-> now + ttl]
            f == [entry |-> e, content |-> "whole", written |-> now]
            n == <<k, s>>
<1>2. now + ttl \in Nat /\ now \in Nat
  BY CacheAssumption DEF DiskOK
<1>3. e \in Entry /\ f \in File /\ f.entry = e /\ f # None
  BY <1>2, EntriesAreNotNone DEF Entry, File, Content
<1>4. n \in Name /\ IsScratch(n) /\ n[1] = k
  BY NamesAreTyped
<1>5. writer' = <<n, e>> /\ file' = [file EXCEPT ![n] = f] /\ renamed' = FALSE
  BY <1>1 DEF BeginPut
<1>. HIDE DEF n, f, e
<1>6. file' \in Files /\ file'[n] = f
  BY <1>3, <1>4, <1>5 DEF DiskOK, Files
<1>7. \A m \in Name : ~IsScratch(m) => file'[m] = file[m]
  BY <1>4, <1>5 DEF DiskOK, Files
<1>8. writer' \in Name \X Entry /\ writer'[1] = n /\ writer'[2] = e
  BY <1>3, <1>4, <1>5
<1>9. PutInPlace'
  BY <1>3, <1>4, <1>5, <1>6, <1>8 DEF PutInPlace, IsScratch
<1>. QED
  BY <1>6, <1>7, <1>8, <1>9

(* Into place, and nowhere else.                                           *)
LEMMA RenamedIsTyped ==
    ASSUME DiskOK, PutInPlace, Rename
    PROVE  /\ file' \in Files /\ PutInPlace'
           /\ writer[1] \in Name /\ writer[1][1] \in Stored /\ Path(writer[1][1]) \in Name
           /\ writer' = writer
           /\ file'[Path(writer[1][1])] = file[writer[1]] /\ file[writer[1]].entry = writer[2]
           /\ \A n \in Name : ~IsScratch(n) /\ n # Path(writer[1][1]) => file'[n] = file[n]
<1>. DEFINE n == writer[1]
            p == Path(writer[1][1])
<1>1. /\ writer # None /\ ~renamed /\ renamed' /\ file[n] # None
      /\ file' = [file EXCEPT ![p] = file[n], ![n] = None]
      /\ tainted' = tainted \ {n[1]} /\ writer' = writer
  BY DEF Rename
<1>2. n \in Name /\ n[1] \in Stored /\ IsScratch(n) /\ file[n].entry = writer[2]
  BY <1>1 DEF DiskOK, PutInPlace
<1>3. p \in Name /\ p # n /\ ~IsScratch(p)
  BY <1>2, NamesAreTyped
<1>. HIDE DEF n, p
<1>4. file' \in Files /\ file'[p] = file[n] /\ \A m \in Name : m # p /\ m # n => file'[m] = file[m]
  BY <1>1, <1>2, <1>3 DEF DiskOK, Files
<1>5. PutInPlace'
  BY <1>1, <1>2, <1>3, <1>4 DEF PutInPlace, n, p, Path, IsScratch
<1>. QED
  BY <1>1, <1>2, <1>3, <1>4, <1>5 DEF n, p

(* A file that lost its tail, or its head.                                 *)
LEMMA KilledIsTyped ==
    ASSUME DiskOK, PutInPlace, Kill
    PROVE  /\ file' \in Files /\ last' \in Memory
           /\ \A n \in Name : file'[n] # file[n] =>
                /\ file'[n] # None /\ file[n] # None
                /\ file'[n].content # "whole" /\ file'[n].entry = file[n].entry
<1>2. ASSUME NEW k \in Stored, NEW c \in {"torn", "garbage"},
             file[Path(k)] # None, file' = [file EXCEPT ![Path(k)].content = c]
      PROVE  file' \in Files
             /\ \A n \in Name : file'[n] # file[n] =>
                /\ file'[n] # None /\ file[n] # None
                /\ file'[n].content # "whole" /\ file'[n].entry = file[n].entry
  <2>. DEFINE p == Path(k)
              f == [file[p] EXCEPT !.content = c]
  <2>1. p \in Name /\ file[p] \in File
    BY <1>2, NamesAreTyped DEF DiskOK, Files
  <2>2. f \in File /\ f.content = c /\ c # "whole" /\ f.entry = file[p].entry
    BY <1>2, <2>1 DEF File, Content
  <2>3. file' = [file EXCEPT ![p] = f] /\ f # None
    BY <1>2, <2>1, <2>2, EntriesAreNotNone
  <2>4. file[p] # None /\ \A n \in Name : n # p => file'[n] = file[n]
    BY <1>2, <2>1, <2>3 DEF DiskOK, Files
  <2>5. file'[p] = f /\ file' \in Files
    BY <2>1, <2>2, <2>3 DEF DiskOK, Files
  <2>. HIDE DEF f, p
  <2>. QED
    BY <2>2, <2>3, <2>4, <2>5
<1>3. file' \in Files
      /\ \A n \in Name : file'[n] # file[n] =>
                /\ file'[n] # None /\ file[n] # None
                /\ file'[n].content # "whole" /\ file'[n].entry = file[n].entry
  BY <1>2 DEF Kill, DiskOK
<1>4. last' \in Memory
  <2>1. CASE writer # None
    <3>1. writer[1][1] \in Key /\ writer[2] \in Entry
      BY <2>1 DEF PutInPlace, DiskOK, Key
    <3>. QED
      BY <3>1 DEF Kill, DiskOK, Memory
  <2>2. CASE writer = None
    BY <2>2 DEF Kill, DiskOK
  <2>. QED
    BY <2>1, <2>2
<1>. QED
  BY <1>3, <1>4

(* Where no write is under way, none is out of place.                      *)
LEMMA PutStaysInPlace ==
    ASSUME DiskOK, PutInPlace, file' \in Files, \A n \in Name : file'[n] \in {None, file[n]},
           \/ writer' = None
           \/ writer' = writer /\ renamed' = renamed /\ tainted' = tainted
    PROVE  PutInPlace'
<1>1. CASE writer' = None
  BY <1>1 DEF PutInPlace
<1>2. CASE writer' # None
  <2>1. writer' = writer /\ renamed' = renamed /\ tainted' = tainted /\ writer # None
    BY <1>2
  <2>2. writer[1] \in Name /\ Path(writer[1][1]) \in Name
    BY <2>1, NamesAreTyped DEF PutInPlace, DiskOK
  <2>3. (file'[writer[1]] # None => file'[writer[1]] = file[writer[1]])
        /\ (file'[Path(writer[1][1])] # None => file'[Path(writer[1][1])] = file[Path(writer[1][1])])
    BY <2>2
  <2>. QED
    BY <2>1, <2>3 DEF PutInPlace, Path, IsScratch
<1>. QED
  BY <1>1, <1>2

LEMMA StepKeepsDirectory ==
    ASSUME IInv, [Next]_vars
    PROVE  file' \in Files /\ PutInPlace'
<1>1. DiskOK /\ SweepOK /\ PutInPlace
  BY TypesSplit DEF IInv, SweepOK, DiskOK
<1>2. CASE Kill
  BY <1>1, <1>2, KilledIsTyped DEF Kill, PutInPlace
<1>3. CASE Rename
  BY <1>1, <1>3, RenamedIsTyped
<1>4. ASSUME NEW k \in Stored, NEW v \in Value, NEW ttl \in Ttl, BeginPut(k, v, ttl)
      PROVE  file' \in Files /\ PutInPlace'
  BY <1>1, <1>4, BegunIsTyped
<1>5. CASE ~Kill /\ ~Rename /\ \A k \in Stored, v \in Value, ttl \in Ttl : ~BeginPut(k, v, ttl)
  <2>1. PutUnstored => writer[1] \in Name
    BY <1>1 DEF PutUnstored, DiskOK
  <2>2. file' \in Files /\ \A n \in Name : file'[n] \in {None, file[n]}
    BY <1>1, <1>5, <2>1, FilesStayOrGo
  <2>3. writer' = None \/ (writer' = writer /\ renamed' = renamed /\ tainted' = tainted)
    <3>1. CASE UNCHANGED vars
      BY <3>1 DEF vars
    <3>2. CASE \E k \in Key : MemHit(k) \/ Miss(k)
      BY <3>2 DEF MemHit, Miss, Idle
    <3>3. CASE \E k \in MemOnly : RemoveMem(k) \/ \E v \in Marker, ttl \in Ttl : PutMem(k, v, ttl)
      BY <3>3 DEF RemoveMem, PutMem, Idle
    <3>4. CASE \E k \in Stored : ReadBack(k) \/ RemoveKey(k)
      BY <3>4 DEF ReadBack, RemoveKey, Idle
    <3>5. CASE PutStored \/ PutUnstored
      BY <3>5 DEF PutStored, PutUnstored, EndPut
    <3>6. CASE StartSweep \/ Unlink \/ StartEviction \/ EndSweep \/ Tick
      BY <3>6 DEF StartSweep, Unlink, StartEviction, EndSweep, Tick, history
    <3>7. ASSUME NEW n \in Name, Inspect(n) PROVE writer' = writer /\ renamed' = renamed /\ tainted' = tainted
      BY <3>7 DEF Inspect, history
    <3>8. ASSUME NEW x \in sweep.live, Evict(x) PROVE writer' = writer /\ renamed' = renamed /\ tainted' = tainted
      BY <3>8 DEF Evict, history
    <3>. QED
      BY <1>5, <3>1, <3>2, <3>3, <3>4, <3>5, <3>6, <3>7, <3>8 DEF Next
  <2>. QED
    BY <1>1, <2>2, <2>3, PutStaysInPlace
<1>. QED
  BY <1>2, <1>3, <1>4, <1>5

(* The rest of what a step may do.                                         *)
LEMMA StepKeepsDisk ==
    ASSUME IInv, [Next]_vars
    PROVE  DiskOK'
<1>1. DiskOK /\ SweepOK /\ PutInPlace
  BY TypesSplit DEF IInv, SweepOK, DiskOK
<1>2. file' \in Files /\ sweep' \in Sweeps
  BY StepKeepsDirectory, StepKeepsSweep DEF SweepOK
<1>. DEFINE Rest == /\ now' \in Nat /\ faults' \in Nat /\ up' \in BOOLEAN /\ due' \in BOOLEAN /\ renamed' \in BOOLEAN
                    /\ writer' \in (Name \X Entry) \cup {None}
                    /\ last' \in Memory
                    /\ tainted' \subseteq Stored
<1>. SUFFICES Rest
  BY <1>2 DEF DiskOK
<1>3. CASE UNCHANGED vars
  BY <1>1, <1>3 DEF vars, DiskOK
<1>4. ASSUME NEW k \in Key, MemHit(k) \/ Miss(k) PROVE Rest
  BY <1>1, <1>4 DEF MemHit, Miss, DiskOK, history
<1>5. ASSUME NEW k \in MemOnly, RemoveMem(k) PROVE Rest
  BY <1>1, <1>5 DEF RemoveMem, DiskOK, Memory
<1>6. ASSUME NEW k \in MemOnly, NEW v \in Marker, NEW ttl \in Ttl, PutMem(k, v, ttl) PROVE Rest
  <2>1. [value |-> v, expires |-> now + ttl] \in Entry /\ k \in Key
    BY <1>1, CacheAssumption DEF Entry, Key, DiskOK
  <2>. QED
    BY <1>1, <1>6, <2>1 DEF PutMem, DiskOK, Memory
<1>7. ASSUME NEW k \in Stored, ReadBack(k) PROVE Rest
  BY <1>1, <1>7 DEF ReadBack, DiskOK, history
<1>8. ASSUME NEW k \in Stored, RemoveKey(k) PROVE Rest
  <2>1. k \in Key
    BY DEF Key
  <2>2. last' \in Memory
    BY <1>1, <1>8, <2>1 DEF RemoveKey, DiskOK, Memory
  <2>3. faults' \in Nat
    BY <1>1, <1>8 DEF RemoveKey, DiskOK, Fault
  <2>4. now' = now /\ up' = up /\ due' = due /\ renamed' = renamed /\ writer' = writer
        /\ tainted' \subseteq Stored
    BY <1>1, <1>8 DEF RemoveKey, DiskOK
  <2>. QED
    BY <1>1, <2>2, <2>3, <2>4 DEF DiskOK
<1>9. ASSUME NEW k \in Stored, NEW v \in Value, NEW ttl \in Ttl, BeginPut(k, v, ttl) PROVE Rest
  <2>1. writer' \in Name \X Entry
    BY <1>1, <1>9, BegunIsTyped
  <2>. QED
    BY <1>1, <1>9, <2>1 DEF BeginPut, DiskOK, history
<1>10. CASE Rename
  BY <1>1, <1>10 DEF Rename, DiskOK
<1>11. ASSUME PutStored \/ PutUnstored PROVE Rest
  <2>1. writer # None /\ EndPut
    BY <1>11 DEF PutStored, PutUnstored
  <2>2. writer[1][1] \in Stored /\ writer[1][1] \in Key /\ writer[2] \in Entry
    BY <1>1, <2>1 DEF PutInPlace, DiskOK, Key
  <2>3. last' \in Memory /\ writer' = None /\ renamed' \in BOOLEAN
    BY <1>1, <2>1, <2>2 DEF EndPut, DiskOK, Memory
  <2>. QED
    BY <1>1, <1>11, <2>2, <2>3 DEF PutStored, PutUnstored, DiskOK, Fault
<1>12. CASE StartSweep
  BY <1>1, <1>12 DEF StartSweep, DiskOK, history
<1>13. ASSUME NEW n \in Name, Inspect(n) PROVE Rest
  BY <1>1, <1>13 DEF Inspect, DiskOK, history, Fault
<1>14. CASE Unlink \/ StartEviction \/ EndSweep
  BY <1>1, <1>14 DEF Unlink, StartEviction, EndSweep, DiskOK, history
<1>15. ASSUME NEW x, Evict(x) PROVE Rest
  BY <1>1, <1>15 DEF Evict, DiskOK, history
<1>16. CASE Kill
  <2>1. last' \in Memory
    BY <1>1, <1>16, KilledIsTyped
  <2>2. faults' \in Nat
    BY <1>1, <1>16 DEF Kill, DiskOK, Fault
  <2>3. /\ now' = now /\ up' = FALSE /\ due' = FALSE /\ renamed' = FALSE
        /\ writer' = None /\ tainted' = tainted
    BY <1>16 DEF Kill
  <2>. QED
    BY <1>1, <2>1, <2>2, <2>3 DEF DiskOK
<1>17. CASE Tick
  BY <1>1, <1>17 DEF Tick, DiskOK, history
<1>. QED
  BY <1>3, <1>4, <1>5, <1>6, <1>7, <1>8, <1>9, <1>10, <1>11, <1>12, <1>13, <1>14, <1>15, <1>16, <1>17 DEF Next

(* Nothing is put: what stays is what was.                                 *)
LEMMA TheLastStays ==
    ASSUME FilesAreTheLast, tainted' = tainted, writer' = writer, renamed' = renamed,
           \A k \in Stored : last'[k] = last[k],
           \A k \in Stored : file'[Path(k)] \in {None, file[Path(k)]}
    PROVE  FilesAreTheLast'
<1>. SUFFICES ASSUME NEW k \in Stored \ tainted,
                     file'[Path(k)] # None, ~(writer # None /\ renamed /\ writer[1][1] = k)
              PROVE  file'[Path(k)].entry = last'[k]
  BY DEF FilesAreTheLast, Path
<1>1. file'[Path(k)] = file[Path(k)] /\ last'[k] = last[k]
  OBVIOUS
<1>. QED
  BY <1>1 DEF FilesAreTheLast

LEMMA StepKeepsTheLast ==
    ASSUME IInv, [Next]_vars
    PROVE  FilesAreTheLast'
<1>1. DiskOK /\ SweepOK /\ PutInPlace /\ FilesAreTheLast
  BY TypesSplit DEF IInv, SweepOK, DiskOK
<1>2. \A k \in Stored, n \in Name : Unlinked(n)[Path(k)] \in {None, file[Path(k)]}
  BY <1>1, NamesAreTyped, UnlinkedIsTyped DEF DiskOK
<1>3. CASE UNCHANGED vars
  BY <1>1, <1>3, TheLastStays DEF vars
<1>4. ASSUME NEW k \in Key, MemHit(k) \/ Miss(k) PROVE FilesAreTheLast'
  <2>1. \A j \in Stored : file'[Path(j)] \in {None, file[Path(j)]}
    BY <1>2, <1>4, NamesAreTyped DEF MemHit, Miss
  <2>2. tainted' = tainted /\ writer' = writer /\ renamed' = renamed /\ last' = last
    BY <1>4 DEF MemHit, Miss, history
  <2>. QED
    BY <1>1, <2>1, <2>2, TheLastStays
<1>5. ASSUME NEW k \in MemOnly, RemoveMem(k) \/ \E v \in Marker, ttl \in Ttl : PutMem(k, v, ttl)
      PROVE  FilesAreTheLast'
  <2>1. tainted' = tainted /\ writer' = writer /\ renamed' = renamed /\ file' = file
    BY <1>5 DEF RemoveMem, PutMem
  <2>2. \A j \in Stored : j # k
    BY KeysAreApart
  <2>3. \E e : last' = [last EXCEPT ![k] = e]
    BY <1>5 DEF RemoveMem, PutMem
  <2>4. \A j \in Stored : last'[j] = last[j]
    BY <1>1, <2>2, <2>3, KeysAreApart DEF DiskOK, Memory
  <2>. QED
    BY <1>1, <2>1, <2>4, TheLastStays
<1>6. ASSUME NEW k \in Stored, ReadBack(k) PROVE FilesAreTheLast'
  BY <1>1, <1>6, TheLastStays DEF ReadBack, history
<1>7. ASSUME NEW k \in Stored, RemoveKey(k) PROVE FilesAreTheLast'
  <2>1. last' = [last EXCEPT ![k] = None] /\ writer = None /\ writer' = None
    BY <1>7 DEF RemoveKey, Idle
  <2>2. \A j \in Stored : j # k => last'[j] = last[j]
    BY <1>1, <2>1, KeysAreApart DEF DiskOK, Memory
  <2>3. \A j \in Stored : file'[Path(j)] \in {None, file[Path(j)]}
    BY <1>2, <1>7, NamesAreTyped DEF RemoveKey
  <2>4. k \in tainted' \/ file'[Path(k)] = None
    BY <1>1, <1>7, NamesAreTyped, UnlinkedIsTyped DEF RemoveKey, DiskOK
  <2>5. \A j \in Stored : j # k => (j \in tainted' <=> j \in tainted)
    BY <1>7 DEF RemoveKey
  <2>6. ASSUME NEW j \in Stored, j \notin tainted', file'[Path(j)] # None PROVE file'[Path(j)].entry = last'[j]
    <3>1. j # k /\ j \notin tainted /\ file'[Path(j)] = file[Path(j)] /\ last'[j] = last[j]
      BY <2>2, <2>3, <2>4, <2>5, <2>6
    <3>. QED
      BY <1>1, <2>1, <2>6, <3>1 DEF FilesAreTheLast
  <2>. QED
    BY <2>6 DEF FilesAreTheLast, Path
<1>8. ASSUME NEW k \in Stored, NEW v \in Value, NEW ttl \in Ttl, BeginPut(k, v, ttl) PROVE FilesAreTheLast'
  <2>1. \A j \in Stored : file'[Path(j)] = file[Path(j)]
    BY <1>1, <1>8, BegunIsTyped, NamesAreTyped
  <2>2. writer = None /\ renamed' = FALSE /\ last' = last /\ tainted' = tainted
    BY <1>8 DEF BeginPut, Idle, history
  <2>. QED
    BY <1>1, <2>1, <2>2 DEF FilesAreTheLast, Path
<1>9. CASE Rename
  <2>. DEFINE k == writer[1][1]
  <2>1. /\ k \in Stored /\ writer' = writer
        /\ \A n \in Name : ~IsScratch(n) /\ n # Path(k) => file'[n] = file[n]
    BY <1>1, <1>9, RenamedIsTyped
  <2>2. writer # None /\ ~renamed /\ renamed' = TRUE /\ last' = last /\ tainted' = tainted \ {k}
    BY <1>9 DEF Rename
  <2>3. \A j \in Stored : j # k => file'[Path(j)] = file[Path(j)]
    BY <2>1, NamesAreTyped
  <2>4. ASSUME NEW j \in Stored, j \notin tainted', file'[Path(j)] # None, j # k PROVE file'[Path(j)].entry = last'[j]
    BY <1>1, <2>2, <2>3, <2>4 DEF FilesAreTheLast
  <2>. QED
    BY <2>1, <2>2, <2>4 DEF FilesAreTheLast, Path
<1>10. CASE PutStored \/ PutUnstored
  <2>. DEFINE k == writer[1][1]
  <2>1. writer # None /\ writer' = None /\ last' = [last EXCEPT ![k] = writer[2]] /\ k \in Stored
    BY <1>1, <1>10 DEF PutStored, PutUnstored, EndPut, PutInPlace
  <2>2. last'[k] = writer[2] /\ \A j \in Stored : j # k => last'[j] = last[j]
    BY <1>1, <2>1, KeysAreApart DEF DiskOK, Memory
  <2>3. \A j \in Stored : file'[Path(j)] = file[Path(j)]
    <3>1. CASE PutStored
      BY <3>1 DEF PutStored
    <3>2. CASE PutUnstored
      <4>1. writer[1] \in Name /\ IsScratch(writer[1])
        BY <1>1, <2>1 DEF DiskOK, PutInPlace
      <4>. QED
        BY <1>1, <3>2, <4>1, NamesAreTyped, UnlinkedIsTyped DEF PutUnstored, DiskOK
    <3>. QED
      BY <1>10, <3>1, <3>2
  <2>4. k \in tainted' \/ (file[Path(k)] # None => file[Path(k)].entry = writer[2])
    BY <1>1, <1>10 DEF PutStored, PutUnstored, PutInPlace
  <2>5. \A j \in Stored : j # k => (j \in tainted' <=> j \in tainted)
    BY <1>10 DEF PutStored, PutUnstored
  <2>6. ASSUME NEW j \in Stored, j \notin tainted', file'[Path(j)] # None PROVE file'[Path(j)].entry = last'[j]
    <3>1. CASE j = k
      BY <2>2, <2>3, <2>4, <2>6, <3>1
    <3>2. CASE j # k
      BY <1>1, <2>2, <2>3, <2>5, <2>6, <3>2 DEF FilesAreTheLast
    <3>. QED
      BY <3>1, <3>2
  <2>. QED
    BY <2>1, <2>6 DEF FilesAreTheLast, Path
<1>11. CASE StartSweep \/ StartEviction \/ EndSweep \/ Tick
  BY <1>1, <1>11, TheLastStays DEF StartSweep, StartEviction, EndSweep, Tick, history
<1>12. ASSUME NEW n \in Name, Inspect(n) PROVE FilesAreTheLast'
  BY <1>1, <1>12, TheLastStays DEF Inspect, history
<1>13. ASSUME NEW n \in Name, file' = Unlinked(n), UNCHANGED <<writer, renamed, history>> PROVE FilesAreTheLast'
  BY <1>1, <1>2, <1>13, TheLastStays DEF history
<1>14. CASE Unlink
  <2>1. sweep.doomed[1] \in Name
    BY <1>1, <1>14 DEF Unlink, SweepOK, Sweeps, Seen
  <2>. QED
    BY <1>13, <1>14, <2>1 DEF Unlink
<1>15. ASSUME NEW x \in sweep.live, Evict(x) PROVE FilesAreTheLast'
  <2>1. x[1] \in Name
    BY <1>1 DEF SweepOK, Sweeps, Seen
  <2>. QED
    BY <1>13, <1>15, <2>1 DEF Evict
<1>16. CASE Kill
  <2>1. \A j \in Stored : file'[Path(j)] # None => file[Path(j)] # None /\ file'[Path(j)].entry = file[Path(j)].entry
    BY <1>1, <1>16, KilledIsTyped, NamesAreTyped
  <2>2. writer' = None /\ tainted' = tainted
        /\ last' = IF writer # None /\ renamed THEN [last EXCEPT ![writer[1][1]] = writer[2]] ELSE last
    BY <1>16 DEF Kill
  <2>3. ASSUME NEW j \in Stored, j \notin tainted, file'[Path(j)] # None PROVE file'[Path(j)].entry = last'[j]
    <3>1. CASE writer # None /\ renamed /\ writer[1][1] = j
      <4>1. last'[j] = writer[2]
        BY <1>1, <2>2, <3>1, KeysAreApart DEF DiskOK, Memory
      <4>2. file[Path(j)].entry = writer[2]
        BY <1>1, <2>1, <2>3, <3>1 DEF PutInPlace
      <4>. QED
        BY <2>1, <2>3, <4>1, <4>2
    <3>2. CASE ~(writer # None /\ renamed /\ writer[1][1] = j)
      <4>1. last'[j] = last[j]
        BY <1>1, <2>2, <3>2, KeysAreApart DEF DiskOK, Memory
      <4>. QED
        BY <1>1, <2>1, <2>3, <3>2, <4>1 DEF FilesAreTheLast
    <3>. QED
      BY <3>1, <3>2
  <2>. QED
    BY <2>2, <2>3 DEF FilesAreTheLast, Path
<1>. QED
  BY <1>3, <1>4, <1>5, <1>6, <1>7, <1>8, <1>9, <1>10, <1>11, <1>12, <1>14, <1>15, <1>16 DEF Next

(* What every reachable state satisfies.                                   *)
THEOREM Invariant == Spec => []IInv
<1>1. ASSUME IInv, [Next]_vars PROVE IInv'
  <2>1. MemoryOK' /\ DiskOK' /\ SweepOK' /\ PutInPlace' /\ FilesAreTheLast'
    BY <1>1, StepKeepsMemory, StepKeepsDisk, StepKeepsSweep, StepKeepsDirectory, StepKeepsTheLast
  <2>2. TypeOK'
    BY <2>1 DEF TypeOK, MemoryOK, DiskOK, Files, Sweeps, Memory
  <2>. QED
    BY <2>1, <2>2 DEF IInv, SweepOK
<1>. QED
  BY <1>1, InitIInv, PTL DEF Spec

(* The byte counter is what memory holds and stays in the budget, and the  *)
(* order of use names every entry once (`mem_put`, `mem_remove`).          *)
THEOREM MemoryIsAccounted == Spec => []MemoryAccounted
<1>1. IInv => MemoryAccounted
  BY AccountedIsOK DEF IInv
<1>. QED
  BY <1>1, Invariant, PTL

(* An eviction takes what the sweep counted under that name, and what is   *)
(* cheaper is gone already.                                                *)
LEMMA EvictHasCause ==
    ASSUME IInv, NEW x \in sweep.live, Evict(x)
    PROVE  UnlinksForCause
<1>. USE DEF IInv
<1>1. sweep.live \subseteq Seen /\ sweep.doomed = None /\ x[1] \in Name /\ SweepSeesOnce /\ x = <<x[1], x[2]>>
  BY TypesSplit DEF SweepSeesOnce, Evict, DiskOK, Sweeps, Seen
<1>2. \A n \in Name : n # x[1] => file'[n] = file[n]
  BY <1>1, TypesSplit, UnlinkedIsTyped DEF Evict, DiskOK
<1>3. \A y \in sweep.live : Price(y) \in Nat
  <2>1. \A y \in sweep.live : y[1][1] \in Stored
    BY <1>1, NamesAreTyped DEF Seen
  <2>. QED
    BY <2>1, CacheAssumption DEF Price
<1>4. \A y \in sweep.live : Price(y) >= Price(x)
  BY <1>3 DEF Evict, Cheaper
<1>5. ASSUME NEW n \in Name, file[n] # None, file'[n] = None,
             <<n, file[n]>> \in sweep.live \cup {sweep.doomed}
      PROVE  <<n, file[n]>> = x
  <2>1. n = x[1]
    BY <1>2, <1>5
  <2>2. <<n, file[n]>> \in sweep.live
    BY <1>1, <1>5, TypesSplit, EntriesAreNotNone DEF DiskOK, Files
  <2>. QED
    BY <1>1, <2>1, <2>2 DEF SweepSeesOnce
<1>. QED
  BY <1>4, <1>5 DEF UnlinksForCause, Unchanged

LEMMA UnlinkHasCause == ASSUME IInv, Unlink PROVE UnlinksForCause
<1>. USE DEF IInv
<1>1. sweep.doomed # None /\ sweep.doomed \in Seen /\ SweepSeesOnce /\ DoomedForCause /\ file \in Files
  BY TypesSplit DEF Unlink, DiskOK, Sweeps
<1>2. \A n \in Name : n # sweep.doomed[1] => file'[n] = file[n]
  BY <1>1, UnlinkedIsTyped DEF Unlink, Seen
<1>3. ASSUME NEW n \in Name, file[n] # None, file'[n] = None,
             <<n, file[n]>> \in sweep.live \cup {sweep.doomed}
      PROVE  ToGo(n, file[n], now)
  <2>1. n = sweep.doomed[1]
    BY <1>2, <1>3
  <2>2. <<n, file[n]>> = sweep.doomed
    BY <1>1, <1>3, <2>1 DEF SweepSeesOnce
  <2>3. ToGo(sweep.doomed[1], sweep.doomed[2], now)
    BY <1>1 DEF DoomedForCause
  <2>4. sweep.doomed[1] = n /\ sweep.doomed[2] = file[n]
    BY <2>2
  <2>. QED
    BY <2>3, <2>4
<1>. QED
  BY <1>3 DEF UnlinksForCause, ToGo

(* The sweep unlinks for a cause that still holds or by the right order,   *)
(* and frees enough (`sweep`), whatever calls do to the directory under it.*)
THEOREM SweepsAreExact == Spec => SweepIsExact
<1>1. ASSUME IInv, [Next]_vars PROVE UnlinksForCause
  <2>1. CASE sweep' = sweep
    BY <2>1 DEF UnlinksForCause
  <2>2. CASE file' = file
    BY <2>2 DEF UnlinksForCause
  <2>3. CASE Unlink
    BY <1>1, <2>3, UnlinkHasCause
  <2>4. ASSUME NEW x \in sweep.live, Evict(x) PROVE UnlinksForCause
    BY <1>1, <2>4, EvictHasCause
  <2>5. CASE Kill
    <3>1. \A n \in Name : file'[n] = None => file[n] = None
      BY <1>1, <2>5, KilledIsTyped, TypesSplit DEF IInv
    <3>. QED
      BY <3>1 DEF UnlinksForCause
  <2>6. CASE UNCHANGED vars
    BY <2>1, <2>6 DEF vars
  <2>7. CASE \E k \in Key : MemHit(k) \/ Miss(k)
    BY <2>1, <2>7 DEF MemHit, Miss
  <2>8. CASE \E k \in MemOnly : RemoveMem(k) \/ \E v \in Marker, ttl \in Ttl : PutMem(k, v, ttl)
    BY <2>1, <2>8 DEF RemoveMem, PutMem
  <2>9. CASE \E k \in Stored : ReadBack(k) \/ RemoveKey(k) \/ \E v \in Value, ttl \in Ttl : BeginPut(k, v, ttl)
    BY <2>1, <2>9 DEF ReadBack, RemoveKey, BeginPut
  <2>10. CASE Rename \/ PutStored \/ PutUnstored \/ Tick
    BY <2>1, <2>10 DEF Rename, PutStored, PutUnstored, Tick
  <2>11. CASE StartSweep \/ StartEviction \/ EndSweep \/ \E n \in Name : Inspect(n)
    BY <2>2, <2>11 DEF StartSweep, StartEviction, EndSweep, Inspect
  <2>. QED
    BY <1>1, <2>3, <2>4, <2>5, <2>6, <2>7, <2>8, <2>9, <2>10, <2>11 DEF Next
<1>2. ASSUME IInv, [Next]_vars PROVE FreesEnough
  <2>. SUFFICES ASSUME sweep.stage = "evict", sweep'.stage = "idle", up'
                PROVE  FileBytes(Unchanged(sweep.live)) <= DiskBudget
    BY DEF FreesEnough
  <2>1. /\ sweep \in Sweeps /\ sweep.live \subseteq Seen /\ IsFiniteSet(sweep.live) /\ sweep.total \in Nat
        /\ FileBytes(sweep.live) <= sweep.total
    BY <1>2, TypesSplit DEF IInv, DiskOK, SweepSeesOnce, CountedEnough, Sweeps
  <2>2. ~OverBudget \/ sweep.live = {}
    <3>1. sweep' # sweep
      OBVIOUS
    <3>2. CASE EndSweep
      BY <3>2 DEF EndSweep
    <3>3. ~Unlink /\ ~StartSweep /\ ~StartEviction /\ \A n \in Name : ~Inspect(n)
      BY <1>2 DEF Unlink, StartSweep, StartEviction, Inspect, IInv, SweepSeesOnce
    <3>4. ~Kill
      BY DEF Kill
    <3>5. ASSUME NEW x \in sweep.live, Evict(x) PROVE FALSE
      BY <2>1, <3>5 DEF Evict, Sweeps
    <3>6. ASSUME ~EndSweep PROVE sweep' = sweep
      <4>1. CASE UNCHANGED vars
        BY <4>1 DEF vars
      <4>2. CASE \E k \in Key : MemHit(k) \/ Miss(k)
        BY <4>2 DEF MemHit, Miss
      <4>3. CASE \E k \in MemOnly : RemoveMem(k) \/ \E v \in Marker, ttl \in Ttl : PutMem(k, v, ttl)
        BY <4>3 DEF RemoveMem, PutMem
      <4>4. CASE \E k \in Stored : ReadBack(k) \/ RemoveKey(k) \/ \E v \in Value, ttl \in Ttl : BeginPut(k, v, ttl)
        BY <4>4 DEF ReadBack, RemoveKey, BeginPut
      <4>5. CASE Rename \/ PutStored \/ PutUnstored \/ Tick
        BY <4>5 DEF Rename, PutStored, PutUnstored, Tick
      <4>. QED
        BY <1>2, <3>3, <3>4, <3>5, <3>6, <4>1, <4>2, <4>3, <4>4, <4>5 DEF Next
    <3>. QED
      BY <3>1, <3>2, <3>6
  <2>3. FileBytes(Unchanged(sweep.live)) \in Nat /\ FileBytes(Unchanged(sweep.live)) <= FileBytes(sweep.live)
        /\ FileBytes(sweep.live) \in Nat
    <3>1. Unchanged(sweep.live) \in SUBSET sweep.live
      BY DEF Unchanged
    <3>. QED
      BY <2>1, <3>1, FileBytesOfParts
  <2>4. CASE sweep.live = {}
    BY <2>3, <2>4, NothingWeighsNothing, Numbers
  <2>5. CASE ~OverBudget
    BY <2>1, <2>3, <2>5, Numbers DEF OverBudget
  <2>. QED
    BY <2>2, <2>4, <2>5
<1>3. IInv /\ [Next]_vars => [UnlinksForCause /\ FreesEnough]_vars
  BY <1>1, <1>2
<1>. QED
  BY <1>3, Invariant, PTL DEF Spec, SweepIsExact

-----------------------------------------------------------------------------
(* The map that may forget *)

(* What a read of k may find, now and after a step.                        *)
LEMMA CopiesAre ==
    ASSUME NEW k \in Key
    PROVE  /\ Copies[k] = {e \in {mem[k]} : mem[k] # None /\ mem[k].expires > now}
                            \cup {f.entry : f \in {g \in {file[Path(k)]} : k \in Stored /\ Readable(k)}}
           /\ Copies'[k] = {e \in {mem'[k]} : mem'[k] # None /\ mem'[k].expires > now'}
                            \cup {f.entry : f \in {g \in {file'[Path(k)]} : k \in Stored /\ Readable(k)'}}
BY DEF Copies, OnDisk, Fresh, Readable, Path

(* It is nothing new: a step puts one of the entries of new in place, or   *)
(* lets things be, or damages them.                                        *)
LEMMA CopiesComeFromSomewhere ==
    ASSUME DiskOK, MemoryOK, now' \in Nat, now' >= now, NEW new, NEW k \in Key,
           mem'[k] \in {None, mem[k]} \cup new,
           k \in Stored /\ file'[Path(k)] # None /\ file'[Path(k)].content = "whole" =>
             file'[Path(k)] = file[Path(k)] \/ file'[Path(k)].entry \in new
    PROVE  Copies'[k] \subseteq Copies[k] \cup new
<1>. SUFFICES ASSUME NEW e \in Copies'[k], e \notin new PROVE e \in Copies[k]
  OBVIOUS
<1>1. CASE mem'[k] # None /\ mem'[k].expires > now' /\ e = mem'[k]
  <2>1. mem'[k] = mem[k] /\ mem[k] \in Entry
    BY <1>1 DEF MemoryOK, Memory
  <2>2. mem[k].expires \in Nat
    BY <2>1 DEF Entry
  <2>3. mem[k].expires > now
    BY <1>1, <2>1, <2>2 DEF DiskOK
  <2>. QED
    BY <1>1, <2>1, <2>3, CopiesAre
<1>2. CASE k \in Stored /\ Readable(k)' /\ e = file'[Path(k)].entry
  <2>1. file'[Path(k)] # None /\ file'[Path(k)].content = "whole" /\ file'[Path(k)].entry.expires > now'
    BY <1>2 DEF Readable, Path
  <2>2. file'[Path(k)] = file[Path(k)]
    BY <1>2, <2>1
  <2>3. file[Path(k)] \in File
    BY <1>2, <2>1, <2>2, NamesAreTyped DEF DiskOK, Files
  <2>4. file[Path(k)].entry.expires \in Nat
    BY <2>3 DEF File, Entry
  <2>5. file[Path(k)].entry.expires > now
    BY <2>1, <2>2, <2>4 DEF DiskOK
  <2>6. Readable(k)
    BY <2>1, <2>2, <2>5 DEF Readable
  <2>. QED
    BY <1>2, <2>2, <2>6, CopiesAre
<1>. QED
  BY <1>1, <1>2, CopiesAre

(* Where both places hold one entry or none, that is all there is.         *)
LEMMA CopiesAreOnly ==
    ASSUME NEW k \in Key, NEW new,
           mem'[k] \in {None} \cup new,
           k \in Stored /\ file'[Path(k)] # None => file'[Path(k)].entry \in new
    PROVE  Copies'[k] \subseteq new
<1>1. k \in Stored /\ Readable(k)' => file'[Path(k)] # None
  BY DEF Readable, Path
<1>. QED
  BY <1>1, CopiesAre

(* Of a key that a step does not touch, copies get lost at most.           *)
LEMMA CopiesAreLost ==
    ASSUME DiskOK, MemoryOK, now' \in Nat, now' >= now, NEW k \in Key,
           mem'[k] \in {None, mem[k]},
           k \in Stored /\ file'[Path(k)] # None /\ file'[Path(k)].content = "whole" =>
             file'[Path(k)] = file[Path(k)]
    PROVE  Copies'[k] \subseteq Copies[k]
<1>1. Copies'[k] \subseteq Copies[k] \cup {}
  BY CopiesComeFromSomewhere
<1>. QED
  BY <1>1

LEMMA InitImplements == Init => M!Init
<1>. SUFFICES ASSUME Init PROVE M!Init
  OBVIOUS
<1>1. \A k \in Key : Copies[k] = {}
  BY NamesAreTyped DEF Copies, OnDisk, Fresh, Readable, Init
<1>2. Copies = [k \in Key |-> {}]
  BY <1>1 DEF Copies
<1>. QED
  BY <1>2 DEF M!Init, Init, Pending

LEMMA BeginPutImplements ==
    ASSUME IInv, NEW k \in Stored, NEW v \in Value, NEW ttl \in Ttl, BeginPut(k, v, ttl)
    PROVE  M!Begin
<1>1. DiskOK /\ MemoryOK /\ PutInPlace
  BY TypesSplit DEF IInv
<1>2. /\ writer' \in Name \X Entry
      /\ \A n \in Name : ~IsScratch(n) => file'[n] = file[n]
  BY <1>1, BegunIsTyped
<1>3. writer = None /\ mem' = mem /\ now' = now /\ last' = last /\ tainted' = tainted
  BY DEF BeginPut, Idle, memory, history
<1>4. ASSUME NEW j \in Key PROVE Copies'[j] = Copies[j]
  <2>1. j \in Stored => file'[Path(j)] = file[Path(j)]
    BY <1>2, NamesAreTyped
  <2>2. j \in Stored => (Readable(j)' <=> Readable(j))
    BY <1>3, <2>1 DEF Readable, Path
  <2>3. Fresh(j)' <=> Fresh(j)
    BY <1>3 DEF Fresh
  <2>. QED
    BY <1>3, <2>1, <2>2, <2>3 DEF Copies, OnDisk, Path
<1>5. Copies' = Copies
  <2>1. Copies = [j \in Key |-> Copies[j]] /\ Copies' = [j \in Key |-> Copies'[j]]
    BY DEF Copies
  <2>. QED
    BY <1>4, <2>1
<1>6. Pending = None /\ Pending' \in Key \X Entry
  <2>1. writer' # None /\ writer'[1] \in Name /\ writer'[2] \in Entry
    BY <1>2, NoneAssumption
  <2>2. writer'[1][1] \in Key
    BY <2>1, NamesAreTyped
  <2>. QED
    BY <1>3, <2>1, <2>2 DEF Pending
<1>. QED
  BY <1>3, <1>5, <1>6 DEF M!Begin

LEMMA RenameImplements ==
    ASSUME IInv, Rename
    PROVE  M!Store
<1>. DEFINE k == writer[1][1]
            e == writer[2]
<1>1. DiskOK /\ MemoryOK /\ PutInPlace
  BY TypesSplit DEF IInv
<1>2. /\ k \in Stored /\ Path(k) \in Name /\ writer' = writer
      /\ file'[Path(k)] = file[writer[1]] /\ file[writer[1]].entry = e
      /\ \A n \in Name : ~IsScratch(n) /\ n # Path(k) => file'[n] = file[n]
  BY <1>1, RenamedIsTyped
<1>3. writer # None /\ mem' = mem /\ now' = now /\ last' = last /\ tainted' = tainted \ {k}
  BY DEF Rename, memory
<1>4. k \in Key /\ e \in Entry
  BY <1>1, <1>2, <1>3, KeysAreApart DEF DiskOK
<1>5. Pending = <<k, e>> /\ Pending' = Pending /\ Pending # None
  BY <1>2, <1>3, <1>4, NoneAssumption DEF Pending
<1>6. now' \in Nat /\ now' >= now
  BY <1>1, <1>3 DEF DiskOK
<1>. HIDE DEF k, e
<1>7. Copies'[k] \subseteq Copies[k] \cup {e}
  BY <1>1, <1>2, <1>3, <1>4, <1>6, CopiesComeFromSomewhere
<1>8. ASSUME NEW j \in Key, j # k PROVE Copies'[j] \subseteq Copies[j]
  <2>1. j \in Stored => file'[Path(j)] = file[Path(j)]
    BY <1>2, <1>8, NamesAreTyped
  <2>. QED
    BY <1>1, <1>3, <1>6, <2>1, CopiesAreLost
<1>9. Pending[1] = k /\ Pending[2] = e
  BY <1>5
<1>. QED
  BY <1>3, <1>5, <1>7, <1>8, <1>9 DEF M!Store, M!OthersMayBeLost

(* A put ends with its entry in memory, whatever the disk holds.           *)
LEMMA EndPutImplements ==
    ASSUME IInv, PutStored \/ PutUnstored
    PROVE  \E k \in Key : M!End(k)
<1>. DEFINE k == writer[1][1]
            e == writer[2]
<1>1. DiskOK /\ MemoryOK /\ PutInPlace /\ SweepOK
  BY TypesSplit DEF IInv, DiskOK, SweepOK
<1>2. writer # None /\ EndPut /\ now' = now
  BY DEF PutStored, PutUnstored
<1>3. /\ k \in Stored /\ k \in Key /\ writer[1] \in Name /\ e \in Entry
      /\ \A j \in Key : mem'[j] = None \/ mem'[j] = IF j = k THEN e ELSE mem[j]
  BY <1>1, <1>2, EndPutKeepsMemory, KeysAreApart
<1>4. last' = [last EXCEPT ![k] = e] /\ last'[k] = e /\ writer' = None
  BY <1>1, <1>2, <1>3 DEF EndPut, DiskOK, Memory
<1>5. now' \in Nat /\ now' >= now
  BY <1>1, <1>2 DEF DiskOK
<1>6. \A n \in Name : ~IsScratch(n) => file'[n] = file[n]
  <2>1. CASE PutStored
    BY <2>1 DEF PutStored
  <2>2. CASE PutUnstored
    BY <1>1, <1>2, <1>3, <2>2, UnlinkedIsTyped DEF PutUnstored, PutInPlace, DiskOK
  <2>. QED
    BY <2>1, <2>2
<1>7. Pending = <<k, e>> /\ Pending' = None
  BY <1>2, <1>4 DEF Pending
<1>. HIDE DEF k, e
<1>8. ASSUME NEW j \in Key, j # k PROVE Copies'[j] \subseteq Copies[j]
  <2>1. mem'[j] \in {None, mem[j]}
    BY <1>3, <1>8
  <2>2. j \in Stored => file'[Path(j)] = file[Path(j)]
    BY <1>6, NamesAreTyped
  <2>. QED
    BY <1>1, <1>5, <2>1, <2>2, CopiesAreLost
<1>9. CASE PutStored
  <2>1. tainted' = tainted /\ k \notin tainted
    BY <1>1, <1>9 DEF PutStored, PutInPlace, k
  <2>2. file'[Path(k)] # None => file'[Path(k)].entry = e
    BY <1>1, <1>9 DEF PutStored, PutInPlace, k, e
  <2>3. mem'[k] \in {None} \cup {e}
    BY <1>3
  <2>4. Copies'[k] \subseteq {e}
    BY <1>3, <2>2, <2>3, CopiesAreOnly
  <2>5. M!End(k)
    BY <1>3, <1>4, <1>7, <1>8, <2>1, <2>4 DEF M!End, M!OthersMayBeLost
  <2>. QED
    BY <1>3, <2>5
<1>10. CASE PutUnstored
  <2>1. tainted' = tainted \cup {k}
    BY <1>10 DEF PutUnstored, k
  <2>2. mem'[k] \in {None, mem[k]} \cup {e}
    BY <1>3
  <2>3. file'[Path(k)] = file[Path(k)]
    BY <1>3, <1>6, NamesAreTyped
  <2>4. Copies'[k] \subseteq Copies[k] \cup {e}
    BY <1>1, <1>3, <1>5, <2>2, <2>3, CopiesComeFromSomewhere
  <2>5. M!End(k)
    BY <1>3, <1>4, <1>7, <1>8, <2>1, <2>4 DEF M!End, M!OthersMayBeLost
  <2>. QED
    BY <1>3, <2>5
<1>. QED
  BY <1>9, <1>10

LEMMA PutMemImplements ==
    ASSUME IInv, NEW k \in MemOnly, NEW v \in Marker, NEW ttl \in Ttl, PutMem(k, v, ttl)
    PROVE  \E j \in Key : M!End(j)
<1>. DEFINE e == [value |-> v, expires |-> now + ttl]
<1>1. DiskOK /\ MemoryOK
  BY TypesSplit DEF IInv
<1>2. now + ttl \in Nat /\ v \in Value
  BY <1>1, CacheAssumption DEF DiskOK
<1>3. e \in Entry /\ k \in Key /\ k \notin Stored
  BY <1>2, KeysAreApart DEF Entry, Key
<1>4. /\ MemPut(k, e) /\ last' = [last EXCEPT ![k] = e] /\ writer = None /\ writer' = None
      /\ now' = now /\ file' = file /\ tainted' = tainted
  BY DEF PutMem, Idle
<1>. HIDE DEF e
<1>5. \A j \in Key : mem'[j] = None \/ mem'[j] = IF j = k THEN e ELSE mem[j]
  BY <1>1, <1>3, <1>4, PutKeepsMemory
<1>6. last'[k] = e
  BY <1>1, <1>3, <1>4 DEF DiskOK, Memory
<1>7. mem'[k] \in {None} \cup {e}
  BY <1>3, <1>5
<1>8. Copies'[k] \subseteq {e}
  BY <1>3, <1>7, CopiesAreOnly
<1>9. now' \in Nat /\ now' >= now
  BY <1>1, <1>4 DEF DiskOK
<1>10. ASSUME NEW j \in Key, j # k PROVE Copies'[j] \subseteq Copies[j]
  <2>1. mem'[j] \in {None, mem[j]}
    BY <1>5, <1>10
  <2>. QED
    BY <1>1, <1>4, <1>9, <2>1, CopiesAreLost
<1>11. Pending = None /\ Pending' = None
  BY <1>4 DEF Pending
<1>12. M!End(k)
  BY <1>3, <1>4, <1>6, <1>8, <1>10, <1>11 DEF M!End, M!OthersMayBeLost
<1>. QED
  BY <1>3, <1>12

LEMMA RemoveImplements ==
    ASSUME IInv, NEW k \in Key,
           (k \in MemOnly /\ RemoveMem(k)) \/ (k \in Stored /\ RemoveKey(k))
    PROVE  M!Remove(k)
<1>1. DiskOK /\ MemoryOK
  BY TypesSplit DEF IInv
<1>2. /\ Drop({k}) /\ last' = [last EXCEPT ![k] = None] /\ writer = None /\ writer' = None /\ now' = now
  BY DEF RemoveMem, RemoveKey, Idle
<1>3. \A j \in Key : mem'[j] = IF j = k THEN None ELSE mem[j]
  BY <1>1, <1>2, DropKeepsMemory
<1>4. now' \in Nat /\ now' >= now
  BY <1>1, <1>2 DEF DiskOK
<1>5. file' = file \/ (k \in Stored /\ file' = Unlinked(Path(k)))
  BY DEF RemoveMem, RemoveKey
<1>6. ASSUME NEW j \in Key, file'[Path(j)] = file[Path(j)] \/ j \notin Stored
      PROVE  Copies'[j] \subseteq Copies[j]
  BY <1>1, <1>3, <1>4, <1>6, CopiesAreLost
<1>7. ASSUME NEW j \in Key, j # k PROVE Copies'[j] \subseteq Copies[j]
  <2>1. j \in Stored => file'[Path(j)] = file[Path(j)]
    <3>1. k \in Stored /\ j \in Stored => Path(j) # Path(k) /\ Path(j) \in Name /\ Path(k) \in Name
      BY <1>7, NamesAreTyped
    <3>. QED
      BY <1>1, <1>5, <3>1, UnlinkedIsTyped DEF DiskOK
  <2>. QED
    BY <1>6, <2>1
<1>8. Pending = None /\ Pending' = None
  BY <1>2 DEF Pending
<1>9. CASE tainted' = tainted \ {k} /\ (k \in Stored => file' = Unlinked(Path(k)))
  <2>1. k \in Stored => file'[Path(k)] = None
    BY <1>1, <1>9, NamesAreTyped, UnlinkedIsTyped DEF DiskOK
  <2>2. mem'[k] \in {None} \cup {}
    BY <1>3
  <2>3. Copies'[k] \subseteq {}
    <3>. DEFINE nothing == {}
    <3>1. mem'[k] \in {None} \cup nothing
          /\ (k \in Stored /\ file'[Path(k)] # None => file'[Path(k)].entry \in nothing)
      BY <2>1, <2>2
    <3>2. Copies'[k] \subseteq nothing
      <4>. HIDE DEF nothing
      <4>. QED
        BY <3>1, CopiesAreOnly
    <3>. QED
      BY <3>2
  <2>. QED
    BY <1>2, <1>7, <1>8, <1>9, <2>3 DEF M!Remove, M!OthersMayBeLost
<1>10. CASE tainted' = tainted \cup {k} /\ file' = file
  BY <1>2, <1>6, <1>7, <1>8, <1>10 DEF M!Remove, M!OthersMayBeLost
<1>11. k \in MemOnly => k \notin tainted /\ k \notin Stored
  BY <1>1, KeysAreApart DEF DiskOK
<1>. QED
  BY <1>9, <1>10, <1>11 DEF RemoveMem, RemoveKey

LEMMA KillImplements == ASSUME IInv, Kill PROVE M!Crash
<1>1. DiskOK /\ MemoryOK /\ PutInPlace
  BY TypesSplit DEF IInv
<1>2. /\ \A k \in Key : mem'[k] = None
      /\ now' = now /\ writer' = None /\ tainted' = tainted
      /\ last' = IF writer # None /\ renamed THEN [last EXCEPT ![writer[1][1]] = writer[2]] ELSE last
  BY DEF Kill
<1>3. ASSUME NEW k \in Key PROVE Copies'[k] \subseteq Copies[k]
  <2>1. now' \in Nat /\ now' >= now
    BY <1>1, <1>2 DEF DiskOK
  <2>2. k \in Stored /\ file'[Path(k)] # None /\ file'[Path(k)].content = "whole" => file'[Path(k)] = file[Path(k)]
    BY <1>1, KilledIsTyped, NamesAreTyped
  <2>. QED
    BY <1>1, <1>2, <2>1, <2>2, CopiesAreLost
<1>4. ASSUME writer # None PROVE Pending = <<writer[1][1], writer[2]>> /\ Pending # None
  <2>1. writer[1][1] \in Key /\ writer[2] \in Entry
    BY <1>1, <1>4, KeysAreApart DEF PutInPlace, DiskOK
  <2>. QED
    BY <1>4, <2>1, NoneAssumption DEF Pending
<1>5. Pending' = None
  BY <1>2 DEF Pending
<1>6. last' = last \/ (Pending # None /\ last' = [last EXCEPT ![Pending[1]] = Pending[2]])
  <2>1. CASE writer # None
    <3>1. Pending[1] = writer[1][1] /\ Pending[2] = writer[2] /\ Pending # None
      BY <1>4, <2>1
    <3>. QED
      BY <1>2, <3>1
  <2>2. CASE writer = None
    BY <1>2, <2>2
  <2>. QED
    BY <2>1, <2>2
<1>7. ASSUME writer # None, writer[1][1] \notin tainted
      PROVE  Copies'[writer[1][1]] \subseteq {last'[writer[1][1]]}
  <2>. DEFINE k == writer[1][1]
  <2>1. k \in Stored /\ k \in Key
    BY <1>1, <1>7, KeysAreApart DEF PutInPlace
  <2>2. FilesAreTheLast' /\ writer' = None /\ k \notin tainted'
    BY <1>2, <1>7, StepKeepsTheLast DEF Next
  <2>3. file'[Path(k)] # None => file'[Path(k)].entry = last'[k]
    BY <2>1, <2>2 DEF FilesAreTheLast, Path
  <2>4. mem'[k] \in {None} \cup {last'[k]}
    BY <1>2, <2>1
  <2>. HIDE DEF k
  <2>5. Copies'[k] \subseteq {last'[k]}
    BY <2>1, <2>3, <2>4, CopiesAreOnly
  <2>. QED
    BY <2>5 DEF k
<1>8. Pending # None => Pending[1] \in tainted \/ Copies'[Pending[1]] \subseteq {last'[Pending[1]]}
  <2>1. Pending # None => writer # None
    BY DEF Pending
  <2>2. writer # None => Pending[1] = writer[1][1]
    BY <1>4
  <2>. QED
    BY <1>7, <2>1, <2>2
<1>. QED
  BY <1>2, <1>3, <1>5, <1>6, <1>8 DEF M!Crash

(* Reads, sweeps and the passing of time forget at most.                   *)
LEMMA ForgetImplements ==
    ASSUME IInv, now' \in Nat, now' >= now,
           \A k \in Key : mem'[k] \in {None, mem[k]},
           \A n \in Name : file'[n] \in {None, file[n]},
           UNCHANGED <<writer, last, tainted>>
    PROVE  M!Forget
<1>1. DiskOK /\ MemoryOK
  BY TypesSplit DEF IInv
<1>2. ASSUME NEW k \in Key PROVE Copies'[k] \subseteq Copies[k]
  <2>1. k \in Stored /\ file'[Path(k)] # None => file'[Path(k)] = file[Path(k)]
    BY NamesAreTyped
  <2>. QED
    BY <1>1, <2>1, CopiesAreLost
<1>. QED
  BY <1>2 DEF M!Forget, Pending

(* A read back brings to memory what the disk would have answered.         *)
LEMMA ReadBackImplements ==
    ASSUME IInv, NEW k \in Stored, ReadBack(k)
    PROVE  M!Forget
<1>. DEFINE e == file[Path(k)].entry
<1>1. DiskOK /\ MemoryOK /\ k \in Key /\ Path(k) \in Name
  BY TypesSplit, NamesAreTyped DEF IInv
<1>2. Readable(k) /\ MemPut(k, e) /\ now' = now /\ file' = file /\ UNCHANGED <<writer, last, tainted>>
  BY DEF ReadBack, history
<1>3. file[Path(k)] \in File
  BY <1>1, <1>2 DEF Readable, DiskOK, Files
<1>4. e \in Entry
  BY <1>3 DEF File
<1>5. now' \in Nat /\ now' >= now
  BY <1>1, <1>2 DEF DiskOK
<1>6. e \in Copies[k]
  BY <1>1, <1>2, CopiesAre
<1>. HIDE DEF e
<1>7. \A j \in Key : mem'[j] = None \/ mem'[j] = IF j = k THEN e ELSE mem[j]
  BY <1>1, <1>2, <1>4, PutKeepsMemory
<1>8. ASSUME NEW j \in Key, j # k PROVE Copies'[j] \subseteq Copies[j]
  <2>1. mem'[j] \in {None, mem[j]}
    BY <1>7, <1>8
  <2>. QED
    BY <1>1, <1>2, <1>5, <2>1, CopiesAreLost
<1>9. Copies'[k] \subseteq Copies[k] \cup {e}
  <2>1. mem'[k] \in {None, mem[k]} \cup {e}
    BY <1>1, <1>7
  <2>. QED
    BY <1>1, <1>2, <1>5, <2>1, CopiesComeFromSomewhere
<1>. QED
  BY <1>2, <1>6, <1>8, <1>9 DEF M!Forget, Pending

(* The cache is a map that may forget (`get`, `put`, `remove` and the      *)
(* `_mem` calls): two tiers, a sweep beside them, refusals of the disk and *)
(* kills at any point, and no read finds anything but the last put, a put  *)
(* under way, or, where the disk refused, an older one.                    *)
THEOREM CacheImplementsForgetfulMap == Spec => ImplementsForgetfulMap
<1>1. ASSUME IInv, [Next]_vars PROVE [M!Next]_(M!vars)
  <2>1. DiskOK /\ MemoryOK /\ SweepOK
    BY <1>1, TypesSplit DEF IInv, DiskOK, SweepOK
  <2>2. now \in Nat /\ now >= now /\ now + 1 \in Nat /\ now + 1 >= now
    BY <2>1 DEF DiskOK
  <2>3. CASE UNCHANGED vars
    <3>1. Copies' = Copies /\ Pending' = Pending
      BY <2>3 DEF vars, Copies, OnDisk, Fresh, Readable, Path, Pending
    <3>. QED
      BY <2>3, <3>1 DEF vars, M!vars
  <2>4. ASSUME NEW k \in Key, MemHit(k) PROVE M!Next
    <3>1. mem' = mem /\ file' = file /\ now' = now /\ UNCHANGED <<writer, last, tainted>>
      BY <2>4 DEF MemHit, history
    <3>. QED
      BY <1>1, <2>2, <3>1, ForgetImplements DEF M!Next
  <2>5. ASSUME NEW k \in Key, Miss(k) PROVE M!Next
    <3>1. now' = now /\ UNCHANGED <<writer, last, tainted>>
      BY <2>5 DEF Miss, history
    <3>2. \A j \in Key : mem'[j] \in {None, mem[j]}
      <4>1. Drop({k}) => \A j \in Key : mem'[j] \in {None, mem[j]}
        BY <2>1, DropKeepsMemory
      <4>. QED
        BY <2>5, <4>1 DEF Miss, memory
    <3>3. \A n \in Name : file'[n] \in {None, file[n]}
      <4>1. k \in Stored => \A n \in Name : Unlinked(Path(k))[n] \in {None, file[n]}
        BY <2>1, NamesAreTyped, UnlinkedIsTyped DEF DiskOK
      <4>. QED
        BY <2>5, <4>1 DEF Miss
    <3>. QED
      BY <1>1, <2>2, <3>1, <3>2, <3>3, ForgetImplements DEF M!Next
  <2>6. ASSUME NEW k \in MemOnly, RemoveMem(k) PROVE M!Next
    <3>1. k \in Key
      BY DEF Key
    <3>. QED
      BY <1>1, <2>6, <3>1, RemoveImplements DEF M!Next
  <2>7. ASSUME NEW k \in MemOnly, NEW v \in Marker, NEW ttl \in Ttl, PutMem(k, v, ttl) PROVE M!Next
    BY <1>1, <2>7, PutMemImplements DEF M!Next
  <2>8. ASSUME NEW k \in Stored, ReadBack(k) PROVE M!Next
    BY <1>1, <2>8, ReadBackImplements DEF M!Next
  <2>9. ASSUME NEW k \in Stored, RemoveKey(k) PROVE M!Next
    <3>1. k \in Key
      BY DEF Key
    <3>. QED
      BY <1>1, <2>9, <3>1, RemoveImplements DEF M!Next
  <2>10. ASSUME NEW k \in Stored, NEW v \in Value, NEW ttl \in Ttl, BeginPut(k, v, ttl) PROVE M!Next
    BY <1>1, <2>10, BeginPutImplements DEF M!Next
  <2>11. CASE Rename
    BY <1>1, <2>11, RenameImplements DEF M!Next
  <2>12. CASE PutStored \/ PutUnstored
    BY <1>1, <2>12, EndPutImplements DEF M!Next
  <2>13. CASE Kill
    BY <1>1, <2>13, KillImplements DEF M!Next
  <2>14. CASE StartSweep
    <3>1. now' = now /\ file' = file /\ UNCHANGED <<writer, last, tainted>>
      BY <2>14 DEF StartSweep, history
    <3>2. PICK keys : keys \subseteq Key /\ Drop(keys)
      BY <2>14 DEF StartSweep
    <3>3. \A j \in Key : mem'[j] \in {None, mem[j]}
      BY <2>1, <3>2, DropKeepsMemory
    <3>. QED
      BY <1>1, <2>2, <3>1, <3>3, ForgetImplements DEF M!Next
  <2>15. ASSUME NEW n \in Name, Inspect(n) PROVE M!Next
    <3>1. mem' = mem /\ file' = file /\ now' = now /\ UNCHANGED <<writer, last, tainted>>
      BY <2>15 DEF Inspect, memory, history
    <3>. QED
      BY <1>1, <2>2, <3>1, ForgetImplements DEF M!Next
  <2>16. CASE StartEviction \/ EndSweep
    <3>1. mem' = mem /\ file' = file /\ now' = now /\ UNCHANGED <<writer, last, tainted>>
      BY <2>16 DEF StartEviction, EndSweep, memory, history
    <3>. QED
      BY <1>1, <2>2, <3>1, ForgetImplements DEF M!Next
  <2>17. CASE Tick
    <3>1. mem' = mem /\ file' = file /\ now' = now + 1 /\ UNCHANGED <<writer, last, tainted>>
      BY <2>17 DEF Tick, memory, history
    <3>. QED
      BY <1>1, <2>2, <3>1, ForgetImplements DEF M!Next
  <2>18. ASSUME NEW n \in Name, file' = Unlinked(n), mem' = mem, now' = now, UNCHANGED <<writer, last, tainted>>
         PROVE  M!Next
    <3>1. \A m \in Name : file'[m] \in {None, file[m]}
      BY <2>1, <2>18, UnlinkedIsTyped DEF DiskOK
    <3>. QED
      BY <1>1, <2>2, <2>18, <3>1, ForgetImplements DEF M!Next
  <2>19. CASE Unlink
    <3>1. sweep.doomed[1] \in Name
      BY <2>1, <2>19 DEF Unlink, SweepOK, Sweeps, Seen
    <3>2. file' = Unlinked(sweep.doomed[1]) /\ mem' = mem /\ now' = now /\ UNCHANGED <<writer, last, tainted>>
      BY <2>19 DEF Unlink, memory, history
    <3>. QED
      BY <2>18, <3>1, <3>2
  <2>20. ASSUME NEW x \in sweep.live, Evict(x) PROVE M!Next
    <3>1. x[1] \in Name
      BY <2>1 DEF SweepOK, Sweeps, Seen
    <3>2. file' = Unlinked(x[1]) /\ mem' = mem /\ now' = now /\ UNCHANGED <<writer, last, tainted>>
      BY <2>20 DEF Evict, memory, history
    <3>. QED
      BY <2>18, <3>1, <3>2
  <2>. QED
    BY <1>1, <2>3, <2>4, <2>5, <2>6, <2>7, <2>8, <2>9, <2>10, <2>11, <2>12, <2>13, <2>14, <2>15, <2>16,
       <2>17, <2>19, <2>20 DEF Next
<1>. QED
  BY <1>1, Invariant, InitImplements, PTL DEF Spec, ImplementsForgetfulMap, M!Spec

(* What the promise is for: where the disk refused nothing, a read finds   *)
(* the last put or nothing. This is a theorem of the abstract map, so it   *)
(* holds of whatever implements it.                                        *)
THEOREM MapReadsTheLast == M!Spec => []M!ReadsTheLast
<1>. DEFINE Reads == M!ReadsTheLast /\ last = [k \in Key |-> last[k]]
<1>1. M!Init => Reads
  BY DEF M!Init, M!ReadsTheLast
<1>2. ASSUME Reads, [M!Next]_(M!vars) PROVE Reads'
  <2>1. \A k \in Key : k \in tainted \/ Copies[k] \subseteq {last[k]} \/ (Pending # None /\ Pending[1] = k)
    BY <1>2 DEF M!ReadsTheLast
  <2>2. \A k \in Key : \A e : [last EXCEPT ![k] = e][k] = e
          /\ \A j \in Key : j # k => [last EXCEPT ![k] = e][j] = last[j]
    BY <1>2
  <2>. SUFFICES /\ \A k \in Key : k \in tainted' \/ Copies'[k] \subseteq {last'[k]} \/ (Pending' # None /\ Pending'[1] = k)
                /\ last' = [k \in Key |-> last'[k]]
    BY DEF M!ReadsTheLast
  <2>. HIDE DEF Reads
  <2>3. CASE UNCHANGED M!vars
    BY <1>2, <2>1, <2>3 DEF M!vars, Reads
  <2>4. CASE M!Begin
    BY <1>2, <2>1, <2>4 DEF M!Begin, Reads
  <2>5. CASE M!Store
    BY <1>2, <2>1, <2>5 DEF M!Store, M!OthersMayBeLost, Reads
  <2>6. ASSUME NEW k \in Key, M!End(k)
        PROVE  /\ \A j \in Key : j \in tainted' \/ Copies'[j] \subseteq {last'[j]} \/ (Pending' # None /\ Pending'[1] = j)
               /\ last' = [j \in Key |-> last'[j]]
    BY <1>2, <2>1, <2>2, <2>6 DEF M!End, M!OthersMayBeLost, Reads
  <2>7. ASSUME NEW k \in Key, M!Remove(k)
        PROVE  /\ \A j \in Key : j \in tainted' \/ Copies'[j] \subseteq {last'[j]} \/ (Pending' # None /\ Pending'[1] = j)
               /\ last' = [j \in Key |-> last'[j]]
    BY <1>2, <2>1, <2>2, <2>7 DEF M!Remove, M!OthersMayBeLost, Reads
  <2>8. CASE M!Forget
    BY <1>2, <2>1, <2>8 DEF M!Forget, Reads
  <2>9. CASE M!Crash
    BY <1>2, <2>1, <2>2, <2>9 DEF M!Crash, Reads
  <2>. QED
    BY <1>2, <2>3, <2>4, <2>5, <2>6, <2>7, <2>8, <2>9 DEF M!Next
<1>3. Reads => M!ReadsTheLast
  OBVIOUS
<1>. HIDE DEF Reads
<1>. QED
  BY <1>1, <1>2, <1>3, PTL DEF M!Spec

(* And so of the cache.                                                    *)
THEOREM CacheReadsTheLast == Spec => []M!ReadsTheLast
BY CacheImplementsForgetfulMap, MapReadsTheLast DEF ImplementsForgetfulMap
=============================================================================
