---------------------------- MODULE FoldTheorems ----------------------------
(***************************************************************************)
(* Facts about the recursive functions that the components of this project *)
(* are written with: induction over numbers and over the subsets of a      *)
(* finite set, and from it what the sums of the community modules          *)
(* (MapThenSumSet, SumFunction) are worth, with one element more or less;  *)
(* what sequences laid end to end (FlattenSeq) hold; and that the sorts of *)
(* Sorting lose nothing.                                                   *)
(*                                                                         *)
(* The induction rules speak of a set of good numbers, or of good subsets, *)
(* where the library's speak of a predicate: a set can be instantiated by  *)
(* the provers.  They come from the well-foundedness of the orders: a      *)
(* least bad element is shown not to exist.                                *)
(***************************************************************************)
EXTENDS Integers, Sequences, FiniteSets, FiniteSetsExt, Functions, SequencesExt, Sorting, FiniteSetTheorems, WellFoundedInduction, TLAPS

-----------------------------------------------------------------------------
(* Every nonempty set of numbers has a least one.                          *)
LEMMA LeastNumber ==
    ASSUME NEW T, T \subseteq Nat, T # {}
    PROVE  \E x \in T : \A y \in T : x <= y
<1>. DEFINE R == {ss \in Nat \X Nat : ss[1] < ss[2]}
<1>1. IsWellFoundedOn(R, Nat)
  BY NatLessThanWellFounded, Zenon DEF OpToRel
<1>2. \E x \in T : \A y \in T : ~ (<<y, x>> \in R)
  <2>. HIDE DEF R
  <2>. QED
    BY <1>1, WFMin
<1>3. \A x, y \in Nat : y < x => <<y, x>> \in R
  OBVIOUS
<1>4. PICK x \in T : \A y \in T : ~ (<<y, x>> \in R)
  BY <1>2
<1>5. \A y \in T : x \in Nat /\ y \in Nat /\ ~ (y < x)
  BY <1>3, <1>4
<1>. HIDE DEF R
<1>6. \A y \in T : x <= y
  BY <1>5
<1>. QED
  BY <1>6

(* Induction over the numbers up to n, for a set of good ones.             *)
LEMMA NumberInduction ==
    ASSUME NEW n \in Nat, NEW Good, 0 \in Good,
           \A i \in 0..n : i < n /\ i \in Good => i + 1 \in Good
    PROVE  \A i \in 0..n : i \in Good
<1>. DEFINE Bad == (0..n) \ Good
<1>1. SUFFICES ASSUME Bad # {} PROVE FALSE
  OBVIOUS
<1>2. \E i \in Bad : \A j \in Bad : i <= j
  <2>1. Bad \subseteq Nat
    OBVIOUS
  <2>. HIDE DEF Bad
  <2>. QED
    BY <1>1, <2>1, LeastNumber
<1>3. PICK i \in Bad : \A j \in Bad : i <= j
  BY <1>2
<1>4. i # 0 /\ i - 1 \in 0..n /\ i - 1 < n /\ i - 1 + 1 = i
  OBVIOUS
<1>5. i - 1 \in Good
  BY <1>3, <1>4
<1>. QED
  BY <1>4, <1>5

(* Every nonempty set of subsets of a finite set has a least one.          *)
LEMMA LeastSubset ==
    ASSUME NEW S, IsFiniteSet(S), NEW T, T \subseteq SUBSET S, T # {}
    PROVE  \E x \in T : \A y \in T : y \subseteq x => y = x
<1>1. IsWellFoundedOn(StrictSubsetOrdering(S), SUBSET S)
  BY FS_FiniteSubsetsOfFinite, FS_StrictSubsetOrderingWellFounded
<1>2. \E x \in T : \A y \in T : ~ (<<y, x>> \in StrictSubsetOrdering(S))
  BY <1>1, WFMin
<1>. QED
  BY <1>2 DEF StrictSubsetOrdering

(* Induction over the subsets of a finite set, for a set of good ones.     *)
LEMMA SubsetInduction ==
    ASSUME NEW S, IsFiniteSet(S), NEW Good,
           \A s \in SUBSET S : (\A t \in SUBSET s : t # s => t \in Good) => s \in Good
    PROVE  \A s \in SUBSET S : s \in Good
<1>. DEFINE Bad == (SUBSET S) \ Good
<1>1. SUFFICES ASSUME Bad # {} PROVE FALSE
  OBVIOUS
<1>2. \E s \in Bad : \A t \in Bad : t \subseteq s => t = s
  <2>1. Bad \subseteq SUBSET S
    OBVIOUS
  <2>. HIDE DEF Bad
  <2>. QED
    BY <1>1, <2>1, LeastSubset
<1>. QED
  BY <1>2

-----------------------------------------------------------------------------
(* The weights w of the elements of S, added up.                           *)
Total(w, S) == MapThenSumSet(LAMBDA x : w[x], S)

(* The element that a fold takes first, and what it computes on the way.   *)
First(s) == CHOOSE x \in s : TRUE
Adds(w, S, it) == it = [s \in SUBSET S |-> IF s = {} THEN 0 ELSE w[First(s)] + it[s \ {First(s)}]]
Partial(w, S) == CHOOSE it : Adds(w, S, it)

LEMMA FirstIsMember == \A s : s # {} => First(s) \in s
BY DEF First

LEMMA TotalIsPartial == ASSUME NEW w, NEW S PROVE Total(w, S) = Partial(w, S)[S]
BY Zenon DEF Total, Partial, Adds, First, MapThenSumSet, MapThenFoldSet

LEMMA AddsAtEmpty == ASSUME NEW w, NEW S, NEW it, Adds(w, S, it) PROVE it[{}] = 0
BY DEF Adds

LEMMA AddsAtMore ==
    ASSUME NEW w, NEW S, NEW it, Adds(w, S, it), NEW s, s \subseteq S, s # {}
    PROVE  it[s] = w[First(s)] + it[s \ {First(s)}]
BY DEF Adds

(* Two computations agree wherever both are defined.                       *)
LEMMA AddsAgree ==
    ASSUME NEW w, NEW S, IsFiniteSet(S), NEW A, A \subseteq S, NEW B, B \subseteq S,
           NEW f, Adds(w, A, f), NEW g, Adds(w, B, g)
    PROVE  \A s : s \subseteq A /\ s \subseteq B => f[s] = g[s]
<1>. DEFINE Good == {s \in SUBSET S : s \subseteq A /\ s \subseteq B => f[s] = g[s]}
<1>1. ASSUME NEW s \in SUBSET S, \A t \in SUBSET s : t # s => t \in Good PROVE s \in Good
  <2>1. SUFFICES ASSUME s \subseteq A, s \subseteq B, s # {} PROVE f[s] = g[s]
    BY AddsAtEmpty
  <2>2. f[s] = w[First(s)] + f[s \ {First(s)}] /\ g[s] = w[First(s)] + g[s \ {First(s)}]
    BY <2>1, AddsAtMore
  <2>3. First(s) \in s
    BY <2>1, FirstIsMember
  <2>4. f[s \ {First(s)}] = g[s \ {First(s)}]
    BY <1>1, <2>1, <2>3
  <2>. QED
    BY <2>2, <2>4
<1>2. \A s \in SUBSET S : s \in Good
  <2>. HIDE DEF Good
  <2>. QED
    BY <1>1, SubsetInduction
<1>. QED
  BY <1>2

(* The first element's weight, and what was computed for the rest.         *)
Following(w, t) == w[First(t)] + Partial(w, t \ {First(t)})[t \ {First(t)}]

(* If every smaller set can be summed, what follows the first element of a *)
(* set is what a computation for the set would have there.                 *)
LEMMA FollowingIsPartial ==
    ASSUME NEW w, NEW u, IsFiniteSet(u), u # {}, Adds(w, u, Partial(w, u)),
           Adds(w, u \ {First(u)}, Partial(w, u \ {First(u)}))
    PROVE  Partial(w, u)[u] = Following(w, u)
<1>. DEFINE v == u \ {First(u)}
            f == Partial(w, u)
            g == Partial(w, v)
<1>1. f[u] = w[First(u)] + f[v]
  <2>1. Adds(w, u, f)
    OBVIOUS
  <2>. HIDE DEF f
  <2>. QED
    BY <2>1, AddsAtMore
<1>2. f[v] = g[v]
  <2>1. Adds(w, u, f) /\ Adds(w, v, g) /\ v \subseteq u
    OBVIOUS
  <2>. HIDE DEF f, g, v
  <2>. QED
    BY <2>1, AddsAgree
<1>. QED
  BY <1>1, <1>2 DEF Following

(* There is one, for every finite set.                                     *)
LEMMA AddsExists ==
    ASSUME NEW w, NEW S, IsFiniteSet(S)
    PROVE  Adds(w, S, Partial(w, S))
<1>. DEFINE Good == {s \in SUBSET S : Adds(w, s, Partial(w, s))}
<1>1. ASSUME NEW s \in SUBSET S, \A t \in SUBSET s : t # s => t \in Good PROVE s \in Good
  <2>1. \A t \in SUBSET s : t # s => Adds(w, t, Partial(w, t))
    BY <1>1
  <2>. DEFINE it == [t \in SUBSET s |-> IF t = {} THEN 0 ELSE Following(w, t)]
  <2>2. ASSUME NEW t \in SUBSET s, t # {}
        PROVE  it[t \ {First(t)}] = Partial(w, t \ {First(t)})[t \ {First(t)}]
    <3>. DEFINE u == t \ {First(t)}
    <3>1. u \in SUBSET s /\ u # s /\ IsFiniteSet(u)
      BY <2>2, FirstIsMember, FS_Subset
    <3>2. Adds(w, u, Partial(w, u))
      BY <2>1, <3>1
    <3>3. CASE u = {}
      <4>. HIDE DEF u
      <4>1. Partial(w, u)[u] = 0
        BY <3>2, <3>3, AddsAtEmpty
      <4>2. it[u] = 0
        BY <3>1, <3>3
      <4>. QED
        BY <4>1, <4>2 DEF u
    <3>4. CASE u # {}
      <4>1. u \ {First(u)} \in SUBSET s /\ u \ {First(u)} # s
        BY <3>1, <3>4, FirstIsMember
      <4>2. Adds(w, u \ {First(u)}, Partial(w, u \ {First(u)}))
        BY <2>1, <4>1
      <4>. HIDE DEF u
      <4>3. Partial(w, u)[u] = Following(w, u)
        BY <3>1, <3>2, <3>4, <4>2, FollowingIsPartial
      <4>4. it[u] = Following(w, u)
        BY <3>1, <3>4
      <4>. QED
        BY <4>3, <4>4 DEF u
    <3>. QED
      BY <3>3, <3>4
  <2>3. Adds(w, s, it)
    BY <2>2 DEF Adds, Following
  <2>4. Adds(w, s, Partial(w, s))
    <3>. HIDE DEF it
    <3>. QED
      BY <2>3 DEF Partial
  <2>. QED
    BY <2>4
<1>2. \A s \in SUBSET S : s \in Good
  <2>. HIDE DEF Good
  <2>. QED
    BY <1>1, SubsetInduction
<1>. QED
  BY <1>2

(* What a fold computed for a part is what a fold of that part computes.   *)
LEMMA PartialIsTotal ==
    ASSUME NEW w, NEW S, IsFiniteSet(S), NEW s, s \subseteq S
    PROVE  Partial(w, S)[s] = Total(w, s)
<1>1. IsFiniteSet(s)
  BY FS_Subset
<1>2. Adds(w, S, Partial(w, S)) /\ Adds(w, s, Partial(w, s))
  BY <1>1, AddsExists
<1>3. Partial(w, S)[s] = Partial(w, s)[s]
  BY <1>2, AddsAgree
<1>. QED
  BY <1>3, TotalIsPartial

(* A fold with weights given by w adds them up.                            *)
LEMMA AddsIsTotal ==
    ASSUME NEW w, NEW S, IsFiniteSet(S), NEW it, Adds(w, S, it)
    PROVE  it[S] = Total(w, S)
<1>1. Adds(w, S, Partial(w, S))
  BY AddsExists
<1>2. it[S] = Partial(w, S)[S]
  BY <1>1, AddsAgree
<1>. QED
  BY <1>2, TotalIsPartial

LEMMA TotalOfNothing == ASSUME NEW w PROVE Total(w, {}) = 0
BY FS_EmptySet, AddsExists, AddsAtEmpty, TotalIsPartial

LEMMA TotalStep ==
    ASSUME NEW w, NEW S, IsFiniteSet(S), S # {}
    PROVE  Total(w, S) = w[First(S)] + Total(w, S \ {First(S)})
<1>1. Adds(w, S, Partial(w, S))
  BY AddsExists
<1>2. Partial(w, S)[S] = w[First(S)] + Partial(w, S)[S \ {First(S)}]
  BY <1>1, AddsAtMore
<1>. QED
  BY <1>2, PartialIsTotal

-----------------------------------------------------------------------------
(* A sum of naturals is one.                                               *)
LEMMA TotalIsNat ==
    ASSUME NEW w, NEW S, IsFiniteSet(S), \A x \in S : w[x] \in Nat
    PROVE  Total(w, S) \in Nat
<1>. DEFINE Good == {s \in SUBSET S : Total(w, s) \in Nat}
<1>1. ASSUME NEW s \in SUBSET S, \A t \in SUBSET s : t # s => t \in Good PROVE s \in Good
  <2>1. SUFFICES ASSUME s # {} PROVE Total(w, s) \in Nat
    BY TotalOfNothing
  <2>2. IsFiniteSet(s) /\ First(s) \in s /\ s \ {First(s)} \in SUBSET s /\ s \ {First(s)} # s
    BY <2>1, FirstIsMember, FS_Subset
  <2>3. s \ {First(s)} \in Good
    BY <1>1, <2>2
  <2>4. Total(w, s) = w[First(s)] + Total(w, s \ {First(s)})
    BY <2>1, <2>2, TotalStep
  <2>. QED
    BY <2>2, <2>3, <2>4
<1>2. \A s \in SUBSET S : s \in Good
  <2>. HIDE DEF Good
  <2>. QED
    BY <1>1, SubsetInduction
<1>. QED
  BY <1>2

(* A sum depends on the weights of its elements only.                      *)
LEMMA TotalOfSame ==
    ASSUME NEW w, NEW v, NEW S, IsFiniteSet(S), \A x \in S : w[x] = v[x]
    PROVE  Total(w, S) = Total(v, S)
<1>. DEFINE Good == {s \in SUBSET S : Total(w, s) = Total(v, s)}
<1>1. ASSUME NEW s \in SUBSET S, \A t \in SUBSET s : t # s => t \in Good PROVE s \in Good
  <2>1. SUFFICES ASSUME s # {} PROVE Total(w, s) = Total(v, s)
    BY TotalOfNothing
  <2>2. IsFiniteSet(s) /\ First(s) \in s /\ s \ {First(s)} \in SUBSET s /\ s \ {First(s)} # s
    BY <2>1, FirstIsMember, FS_Subset
  <2>3. s \ {First(s)} \in Good
    BY <1>1, <2>2
  <2>4. /\ Total(w, s) = w[First(s)] + Total(w, s \ {First(s)})
        /\ Total(v, s) = v[First(s)] + Total(v, s \ {First(s)})
    BY <2>1, <2>2, TotalStep
  <2>. QED
    BY <2>2, <2>3, <2>4
<1>2. \A s \in SUBSET S : s \in Good
  <2>. HIDE DEF Good
  <2>. QED
    BY <1>1, SubsetInduction
<1>. QED
  BY <1>2

(* Elements that weigh nothing add up to nothing.                          *)
LEMMA TotalOfZeros ==
    ASSUME NEW w, NEW S, IsFiniteSet(S), \A x \in S : w[x] = 0
    PROVE  Total(w, S) = 0
<1>. DEFINE Good == {s \in SUBSET S : Total(w, s) = 0}
<1>1. ASSUME NEW s \in SUBSET S, \A t \in SUBSET s : t # s => t \in Good PROVE s \in Good
  <2>1. SUFFICES ASSUME s # {} PROVE Total(w, s) = 0
    BY TotalOfNothing
  <2>2. IsFiniteSet(s) /\ First(s) \in s /\ s \ {First(s)} \in SUBSET s /\ s \ {First(s)} # s
    BY <2>1, FirstIsMember, FS_Subset
  <2>3. s \ {First(s)} \in Good
    BY <1>1, <2>2
  <2>4. Total(w, s) = w[First(s)] + Total(w, s \ {First(s)})
    BY <2>1, <2>2, TotalStep
  <2>. QED
    BY <2>2, <2>3, <2>4
<1>2. \A s \in SUBSET S : s \in Good
  <2>. HIDE DEF Good
  <2>. QED
    BY <1>1, SubsetInduction
<1>. QED
  BY <1>2

(* Whichever element is taken out, the sum loses its weight.               *)
LEMMA TotalWithout ==
    ASSUME NEW w, NEW S, IsFiniteSet(S), \A x \in S : w[x] \in Nat, NEW y \in S
    PROVE  Total(w, S) = w[y] + Total(w, S \ {y})
<1>. DEFINE Good == {s \in SUBSET S : \A x \in s : Total(w, s) = w[x] + Total(w, s \ {x})}
<1>1. ASSUME NEW s \in SUBSET S, \A t \in SUBSET s : t # s => t \in Good PROVE s \in Good
  <2>1. SUFFICES ASSUME NEW x \in s PROVE Total(w, s) = w[x] + Total(w, s \ {x})
    OBVIOUS
  <2>. DEFINE c == First(s)
              rest == (s \ {c}) \ {x}
  <2>2. c \in s /\ IsFiniteSet(s)
    BY FirstIsMember, FS_Subset
  <2>3. Total(w, s) = w[c] + Total(w, s \ {c})
    BY <2>2, TotalStep
  <2>4. CASE c = x
    BY <2>3, <2>4
  <2>5. CASE c # x
    <3>1. s \ {c} \in Good /\ s \ {x} \in Good /\ x \in s \ {c} /\ c \in s \ {x}
      BY <1>1, <2>2, <2>5
    <3>2. rest = (s \ {x}) \ {c}
      OBVIOUS
    <3>3. Total(w, s \ {c}) = w[x] + Total(w, rest)
      BY <3>1
    <3>4. Total(w, s \ {x}) = w[c] + Total(w, rest)
      BY <3>1, <3>2
    <3>5. Total(w, rest) \in Nat
      <4>1. IsFiniteSet(rest)
        BY <2>2, FS_Subset
      <4>2. \A z \in rest : w[z] \in Nat
        OBVIOUS
      <4>. HIDE DEF rest
      <4>. QED
        BY <4>1, <4>2, TotalIsNat
    <3>6. w[c] \in Nat /\ w[x] \in Nat
      BY <2>2
    <3>. HIDE DEF c, rest, Good
    <3>. QED
      BY <2>3, <3>3, <3>4, <3>5, <3>6
  <2>. QED
    BY <2>4, <2>5
<1>2. \A s \in SUBSET S : s \in Good
  <2>. HIDE DEF Good
  <2>. QED
    BY <1>1, SubsetInduction
<1>. QED
  BY <1>2

LEMMA TotalWith ==
    ASSUME NEW w, NEW S, IsFiniteSet(S), NEW y, y \notin S, \A x \in S \cup {y} : w[x] \in Nat
    PROVE  Total(w, S \cup {y}) = w[y] + Total(w, S)
<1>1. IsFiniteSet(S \cup {y}) /\ (S \cup {y}) \ {y} = S
  BY FS_AddElement
<1>2. Total(w, S \cup {y}) = w[y] + Total(w, (S \cup {y}) \ {y})
  BY <1>1, TotalWithout
<1>. QED
  BY <1>1, <1>2

(* The sum over a part, and over what is left of the whole.                *)
LEMMA TotalOfParts ==
    ASSUME NEW w, NEW S, IsFiniteSet(S), \A x \in S : w[x] \in Nat, NEW A, A \subseteq S
    PROVE  Total(w, S) = Total(w, A) + Total(w, S \ A)
<1>. DEFINE Good == {s \in SUBSET S : Total(w, S) = Total(w, s) + Total(w, S \ s)}
<1>1. ASSUME NEW s \in SUBSET S, \A t \in SUBSET s : t # s => t \in Good PROVE s \in Good
  <2>1. CASE s = {}
    <3>1. S \ s = S
      BY <2>1
    <3>2. Total(w, S) \in Nat
      BY TotalIsNat
    <3>. QED
      BY <2>1, <3>1, <3>2, TotalOfNothing
  <2>2. CASE s # {}
    <3>. DEFINE c == First(s)
                t == s \ {c}
    <3>1. c \in s /\ IsFiniteSet(s) /\ IsFiniteSet(t) /\ IsFiniteSet(S \ s) /\ IsFiniteSet(S \ t)
      BY <2>2, FirstIsMember, FS_Subset
    <3>2. Total(w, S) = Total(w, t) + Total(w, S \ t)
      BY <1>1, <3>1
    <3>3. Total(w, s) = w[c] + Total(w, t)
      BY <2>2, <3>1, TotalStep
    <3>4. Total(w, S \ t) = w[c] + Total(w, S \ s)
      <4>1. c \in S \ t /\ (S \ t) \ {c} = S \ s /\ \A x \in S \ t : w[x] \in Nat
        BY <3>1
      <4>2. Total(w, S \ t) = w[c] + Total(w, (S \ t) \ {c})
        <5>. HIDE DEF c, t
        <5>. QED
          BY <3>1, <4>1, TotalWithout
      <4>. QED
        BY <4>1, <4>2
    <3>5. w[c] \in Nat /\ \A x \in t : w[x] \in Nat /\ \A y \in S \ s : w[y] \in Nat
      BY <3>1
    <3>6. Total(w, t) \in Nat
      <4>1. \A x \in t : w[x] \in Nat
        OBVIOUS
      <4>. HIDE DEF t
      <4>. QED
        BY <3>1, <4>1, TotalIsNat
    <3>7. Total(w, S \ s) \in Nat
      <4>1. \A x \in S \ s : w[x] \in Nat
        OBVIOUS
      <4>. QED
        BY <3>1, <4>1, TotalIsNat
    <3>8. w[c] \in Nat
      BY <3>1
    <3>9. Total(w, S) = Total(w, s) + Total(w, S \ s)
      <4>. HIDE DEF c, t
      <4>. QED
        BY <3>2, <3>3, <3>4, <3>6, <3>7, <3>8
    <3>. QED
      BY <3>9
  <2>. QED
    BY <2>1, <2>2
<1>2. \A s \in SUBSET S : s \in Good
  <2>. HIDE DEF Good
  <2>. QED
    BY <1>1, SubsetInduction
<1>. QED
  BY <1>2

(* No sum of naturals is less than that of a part.                         *)
LEMMA TotalOfPartIsLess ==
    ASSUME NEW w, NEW S, IsFiniteSet(S), \A x \in S : w[x] \in Nat, NEW A, A \subseteq S
    PROVE  Total(w, A) <= Total(w, S)
<1>1. IsFiniteSet(A) /\ IsFiniteSet(S \ A)
  BY FS_Subset
<1>2. Total(w, A) \in Nat /\ Total(w, S \ A) \in Nat
  BY <1>1, TotalIsNat
<1>. QED
  BY <1>2, TotalOfParts

-----------------------------------------------------------------------------
(* The sums over a function are the sums of its values' weights.           *)
LEMMA FoldIsTotal == ASSUME NEW f PROVE FoldFunction(LAMBDA x, y : x + y, 0, f) = Total(f, DOMAIN f)
<1>. DEFINE Rec(it) == it = [s \in SUBSET DOMAIN f |->
                               IF s = {} THEN 0 ELSE f[First(s)] + it[s \ {First(s)}]]
<1>1. FoldFunction(LAMBDA x, y : x + y, 0, f) = (CHOOSE it : Rec(it))[DOMAIN f]
  BY Zenon DEF FoldFunction, FoldFunctionOnSet, MapThenFoldSet, First
<1>2. Total(f, DOMAIN f) = (CHOOSE it : Rec(it))[DOMAIN f]
  BY Zenon DEF Total, MapThenSumSet, MapThenFoldSet, First
<1>. QED
  BY <1>1, <1>2

LEMMA SumIsTotal == ASSUME NEW f PROVE SumFunction(f) = Total(f, DOMAIN f)
<1>. DEFINE Rec(it) == it = [s \in SUBSET DOMAIN f |->
                               IF s = {} THEN 0 ELSE f[First(s)] + it[s \ {First(s)}]]
<1>1. SumFunction(f) = (CHOOSE it : Rec(it))[DOMAIN f]
  BY Zenon DEF SumFunction, SumFunctionOnSet, FoldFunctionOnSet, MapThenFoldSet, First
<1>2. Total(f, DOMAIN f) = (CHOOSE it : Rec(it))[DOMAIN f]
  BY Zenon DEF Total, MapThenSumSet, MapThenFoldSet, First
<1>. QED
  BY <1>1, <1>2

(* One weight changes, and the sum by as much.                             *)
LEMMA TotalChanged ==
    ASSUME NEW S, IsFiniteSet(S), NEW f \in [S -> Nat], NEW y \in S, NEW n \in Nat
    PROVE  /\ Total(f, S) \in Nat /\ Total([f EXCEPT ![y] = n], S) \in Nat
           /\ Total([f EXCEPT ![y] = n], S) = (Total(f, S) - f[y]) + n
           /\ f[y] <= Total(f, S)
<1>. DEFINE g == [f EXCEPT ![y] = n]
            rest == S \ {y}
<1>1. g \in [S -> Nat] /\ g[y] = n /\ \A x \in rest : g[x] = f[x]
  OBVIOUS
<1>2. \A x \in S : f[x] \in Nat /\ g[x] \in Nat
  BY <1>1
<1>3. IsFiniteSet(rest)
  BY FS_Subset
<1>4. Total(f, rest) \in Nat /\ \A x \in rest : f[x] \in Nat
  <2>1. \A x \in rest : f[x] \in Nat
    BY <1>2
  <2>. HIDE DEF rest
  <2>. QED
    BY <1>3, <2>1, TotalIsNat
<1>. HIDE DEF g
<1>5. Total(f, S) = f[y] + Total(f, rest) /\ Total(g, S) = g[y] + Total(g, rest)
  BY <1>2, TotalWithout
<1>6. Total(g, rest) = Total(f, rest)
  <2>. HIDE DEF rest
  <2>. QED
    BY <1>1, <1>3, TotalOfSame
<1>7. f[y] \in Nat
  BY <1>2
<1>8. Total(f, S) \in Nat /\ Total(g, S) \in Nat /\ Total(g, S) = (Total(f, S) - f[y]) + n /\ f[y] <= Total(f, S)
  BY <1>1, <1>4, <1>5, <1>6, <1>7
<1>. QED
  BY <1>8 DEF g

-----------------------------------------------------------------------------
(* A recursive function over the numbers up to n, whose steps stay in V,   *)
(* exists; and what holds of its base and is kept by its steps holds of    *)
(* all its values.                                                         *)
Recurs(f, n, V, base, step) ==
    /\ f \in [0..n -> V] /\ f[0] = base
    /\ \A i \in 1..n : f[i - 1] \in V /\ f[i] = step[<<f[i - 1], i>>]

LEMMA RecursionExists ==
    ASSUME NEW n \in Nat, NEW V, NEW base \in V, NEW step \in [V \X (1..n) -> V]
    PROVE  \E f : Recurs(f, n, V, base, step)
<1>. DEFINE Until(f, k) == Recurs(f, k, V, base, step)
            Good == {k \in 0..n : \E f : Until(f, k)}
<1>1. 0 \in Good
  <2>1. Until([i \in 0..0 |-> base], 0)
    BY DEF Recurs
  <2>2. 0 \in 0..n
    OBVIOUS
  <2>. HIDE DEF Until
  <2>. QED
    BY <2>1, <2>2
<1>2. ASSUME NEW k \in 0..n, k < n, k \in Good PROVE k + 1 \in Good
  <2>1. PICK f : Until(f, k)
    BY <1>2
  <2>. DEFINE g == [j \in 0..(k + 1) |-> IF j = k + 1 THEN step[<<f[k], k + 1>>] ELSE f[j]]
  <2>2. k \in Nat /\ k \in 0..k /\ k + 1 \in 1..n /\ k + 1 \in 0..n
    BY <1>2
  <2>3. f[k] \in V
    BY <2>1, <2>2 DEF Recurs
  <2>4. step[<<f[k], k + 1>>] \in V
    BY <2>2, <2>3
  <2>5. g \in [0..(k + 1) -> V]
    <3>1. \A j \in 0..(k + 1) : j # k + 1 => j \in 0..k
      BY <2>2
    <3>. QED
      BY <2>1, <2>4, <3>1 DEF Recurs
  <2>6. g[0] = base
    BY <2>1, <2>2 DEF Recurs
  <2>7. ASSUME NEW i \in 1..(k + 1) PROVE g[i - 1] \in V /\ g[i] = step[<<g[i - 1], i>>]
    <3>1. i - 1 \in 0..k /\ i - 1 # k + 1 /\ i - 1 \in 0..(k + 1) /\ i \in 0..(k + 1)
      BY <2>2
    <3>2. g[i - 1] = f[i - 1]
      BY <3>1
    <3>3. CASE i = k + 1
      BY <2>2, <2>3, <3>1, <3>2, <3>3
    <3>4. CASE i # k + 1
      <4>1. i \in 1..k
        BY <2>2, <3>4
      <4>. QED
        BY <2>1, <3>1, <3>2, <3>4, <4>1 DEF Recurs
    <3>. QED
      BY <3>3, <3>4
  <2>8. Until(g, k + 1)
    <3>. HIDE DEF g
    <3>. QED
      BY <2>5, <2>6, <2>7 DEF Recurs
  <2>. HIDE DEF Until
  <2>. QED
    BY <2>2, <2>8
<1>3. \A k \in 0..n : k \in Good
  <2>. HIDE DEF Good
  <2>. QED
    BY <1>1, <1>2, NumberInduction
<1>4. n \in 0..n
  OBVIOUS
<1>5. n \in Good
  BY <1>3, <1>4
<1>6. PICK f : Until(f, n)
  BY <1>5
<1>. QED
  BY <1>6

LEMMA RecursionKeeps ==
    ASSUME NEW n \in Nat, NEW V, NEW f, f[0] \in V,
           \A i \in 1..n : f[i - 1] \in V => f[i] \in V
    PROVE  \A i \in 0..n : f[i] \in V
<1>. DEFINE Good == {i \in 0..n : f[i] \in V}
<1>1. 0 \in Good
  OBVIOUS
<1>2. ASSUME NEW i \in 0..n, i < n, i \in Good PROVE i + 1 \in Good
  <2>1. i + 1 \in 1..n /\ i + 1 \in 0..n /\ (i + 1) - 1 = i
    BY <1>2
  <2>2. f[(i + 1) - 1] \in V
    BY <1>2, <2>1
  <2>. QED
    BY <2>1, <2>2
<1>3. \A i \in 0..n : i \in Good
  <2>. HIDE DEF Good
  <2>. QED
    BY <1>1, <1>2, NumberInduction
<1>. QED
  BY <1>3

-----------------------------------------------------------------------------
(* Sequences put end to end: every part has its place, between the end of  *)
(* the one before and its own, and there is nothing else.                  *)
Laid(parts, ends, flat) ==
    /\ ends \in [0..Len(parts) -> Nat] /\ ends[0] = 0
    /\ \A k \in 1..Len(parts) : ends[k] = ends[k - 1] + Len(parts[k])
    /\ Len(flat) = ends[Len(parts)]
    /\ \A k \in 1..Len(parts), j \in Nat :
          1 <= j /\ j <= Len(parts[k]) => /\ ends[k - 1] + j <= Len(flat)
                                         /\ flat[ends[k - 1] + j] = parts[k][j]
    /\ \A p \in 1..Len(flat) :
          \E k \in 1..Len(parts), j \in Nat : 1 <= j /\ j <= Len(parts[k]) /\ p = ends[k - 1] + j

LEMMA Sums ==
    /\ \A a, b, c, d \in Nat : a <= b /\ c = b + d => a <= c
    /\ \A a, b, c, d \in Nat : 1 <= c /\ c <= b /\ d = a + b => a + c \in 1..d
    /\ \A a, b, c \in Nat : a \in 1..b /\ b <= c => a <= c
    /\ \A a, b, c, d \in Nat : a \in 1..d /\ d = b + c /\ a > b =>
          a - b \in Nat /\ 1 <= a - b /\ a - b <= c /\ a = b + (a - b)
OBVIOUS

LEMMA Concatenation ==
    ASSUME NEW S, NEW a \in Seq(S), NEW b \in Seq(S)
    PROVE  /\ a \o b \in Seq(S) /\ Len(a \o b) = Len(a) + Len(b)
           /\ \A p \in 1..Len(a) : (a \o b)[p] = a[p]
           /\ \A j \in 1..Len(b) : (a \o b)[Len(a) + j] = b[j]
OBVIOUS

LEMMA LaidOut ==
    ASSUME NEW S, NEW parts \in Seq(Seq(S)), NEW h, h[0] = <<>>,
           \A k \in 1..Len(parts) : h[k] = h[k - 1] \o parts[k]
    PROVE  h[Len(parts)] \in Seq(S) /\ \E ends : Laid(parts, ends, h[Len(parts)])
<1>. DEFINE n == Len(parts)
            V == Seq(S)
<1>1. n \in Nat /\ <<>> \in V /\ \A i \in 1..n : parts[i] \in V
  OBVIOUS
<1>6. h[0] = <<>> /\ \A k \in 1..n : h[k - 1] \in V => h[k] = h[k - 1] \o parts[k]
  OBVIOUS
<1>7. \A k \in 0..n : h[k] \in V
  <2>1. h[0] \in V /\ \A k \in 1..n : h[k - 1] \in V => h[k] \in V
    BY <1>1, <1>6, Concatenation
  <2>. HIDE DEF n, V
  <2>. QED
    BY <1>1, <2>1, RecursionKeeps
<1>. DEFINE Grows(k, before) ==
                /\ Len(h[k]) = Len(h[before]) + Len(parts[k])
                /\ \A p \in 1..Len(h[before]) : h[k][p] = h[before][p]
                /\ \A j \in 1..Len(parts[k]) : h[k][Len(h[before]) + j] = parts[k][j]
                /\ Len(h[k]) \in Nat /\ Len(h[before]) \in Nat /\ Len(parts[k]) \in Nat
<1>8. \A k \in 1..n : k - 1 \in 0..n /\ k \in 0..n /\ Grows(k, k - 1)
  <2>. SUFFICES ASSUME NEW k \in 1..n
                PROVE  k - 1 \in 0..n /\ k \in 0..n /\ Grows(k, k - 1)
    OBVIOUS
  <2>1. k - 1 \in 0..n /\ k \in 0..n
    BY <1>1
  <2>2. h[k - 1] \in Seq(S) /\ h[k] \in Seq(S) /\ parts[k] \in Seq(S)
    BY <1>1, <1>7, <2>1
  <2>3. h[k] = h[k - 1] \o parts[k]
    BY <1>6, <2>2
  <2>. DEFINE a == h[k - 1]
              b == parts[k]
  <2>4. /\ Len(a \o b) = Len(a) + Len(b)
        /\ \A p \in 1..Len(a) : (a \o b)[p] = a[p]
        /\ \A j \in 1..Len(b) : (a \o b)[Len(a) + j] = b[j]
    <3>. HIDE DEF a, b
    <3>1. a \in Seq(S) /\ b \in Seq(S)
      BY <2>2 DEF a, b
    <3>. QED
      BY <3>1, Concatenation
  <2>5. Len(h[k]) \in Nat /\ Len(h[k - 1]) \in Nat /\ Len(parts[k]) \in Nat
    BY <2>2
  <2>. QED
    BY <2>1, <2>3, <2>4, <2>5
<1>. HIDE DEF Grows
<1>. DEFINE ends == [k \in 0..n |-> Len(h[k])]
<1>9. /\ ends \in [0..n -> Nat] /\ ends[0] = 0
      /\ \A k \in 1..n : ends[k] = ends[k - 1] + Len(parts[k])
  <2>1. \A k \in 0..n : ends[k] = Len(h[k]) /\ Len(h[k]) \in Nat
    BY <1>7
  <2>2. 0 \in 0..n /\ Len(h[0]) = 0
    BY <1>1, <1>6
  <2>3. \A k \in 1..n : Len(h[k]) = Len(h[k - 1]) + Len(parts[k])
    BY <1>8 DEF Grows
  <2>. QED
    BY <1>8, <2>1, <2>2, <2>3
<1>10. \A m \in 0..n : \A k \in 0..m : /\ Len(h[k]) <= Len(h[m])
                                      /\ \A p \in 1..Len(h[k]) : h[m][p] = h[k][p]
  <2>. DEFINE Prefix(k, m) == Len(h[k]) <= Len(h[m]) /\ \A p \in 1..Len(h[k]) : h[m][p] = h[k][p]
              Good == {m \in 0..n : \A k \in 0..m : Prefix(k, m)}
  <2>1. 0 \in Good
    <3>1. \A k \in 0..0 : Prefix(k, 0)
      BY <1>1, <1>7
    <3>. QED
      BY <1>1, <3>1
  <2>2. ASSUME NEW m \in 0..n, m < n, m \in Good PROVE m + 1 \in Good
    <3>1. m + 1 \in 1..n /\ m + 1 \in 0..n /\ (m + 1) - 1 = m
      BY <1>1, <2>2
    <3>2. /\ Len(h[m + 1]) = Len(h[m]) + Len(parts[m + 1])
          /\ \A p \in 1..Len(h[m]) : h[m + 1][p] = h[m][p]
          /\ Len(h[m]) \in Nat /\ Len(parts[m + 1]) \in Nat
      <4>1. Grows(m + 1, m)
        BY <1>8, <3>1
      <4>. QED
        BY <4>1 DEF Grows
    <3>3. ASSUME NEW k \in 0..(m + 1) PROVE Prefix(k, m + 1)
      <4>1. CASE k = m + 1
        BY <1>7, <3>1, <4>1
      <4>2. CASE k # m + 1
        <5>1. k \in 0..m /\ k \in 0..n
          BY <2>2, <4>2
        <5>2. Prefix(k, m)
          BY <2>2, <5>1
        <5>3. Len(h[k]) \in Nat
          BY <1>7, <5>1
        <5>4. \A p \in 1..Len(h[k]) : p \in 1..Len(h[m])
          BY <3>2, <5>2, <5>3
        <5>5. Len(h[k]) <= Len(h[m + 1])
          <6>1. Len(h[k]) <= Len(h[m])
            BY <5>2
          <6>2. Len(h[m + 1]) \in Nat
            BY <1>7, <3>1
          <6>. QED
            BY ONLY <3>2, <5>3, <6>1, <6>2, Sums
        <5>. QED
          BY <3>2, <5>2, <5>4, <5>5
      <4>. QED
        BY <4>1, <4>2
    <3>. HIDE DEF Prefix
    <3>. QED
      BY <3>1, <3>3
  <2>. HIDE DEF Good, n
  <2>3. \A m \in 0..n : m \in Good
    BY <1>1, <2>1, <2>2, NumberInduction
  <2>. QED
    BY <2>3 DEF Good
<1>11. ASSUME NEW k \in 1..n, NEW j \in Nat, 1 <= j, j <= Len(parts[k])
       PROVE  ends[k - 1] + j <= Len(h[n]) /\ h[n][ends[k - 1] + j] = parts[k][j]
  <2>1. k - 1 \in 0..n /\ k \in 0..n /\ n \in 0..n /\ ends[k - 1] = Len(h[k - 1]) /\ Len(h[k - 1]) \in Nat
    BY <1>1, <1>7, <1>8
  <2>2. Len(parts[k]) \in Nat /\ j \in 1..Len(parts[k])
    BY <1>8, <1>11 DEF Grows
  <2>3. Len(h[k]) = Len(h[k - 1]) + Len(parts[k]) /\ h[k][Len(h[k - 1]) + j] = parts[k][j]
    BY <1>8, <2>2 DEF Grows
  <2>4. Len(h[k]) <= Len(h[n]) /\ \A p \in 1..Len(h[k]) : h[n][p] = h[k][p]
    BY <1>1, <1>10, <2>1
  <2>5. Len(h[n]) \in Nat /\ Len(h[k]) \in Nat
    BY <1>7, <2>1
  <2>6. Len(h[k - 1]) + j \in 1..Len(h[k])
    BY ONLY j \in Nat, <1>11, <2>1, <2>2, <2>3, <2>5, Sums
  <2>7. Len(h[k - 1]) + j <= Len(h[n])
    BY ONLY j \in Nat, <2>1, <2>4, <2>5, <2>6, Sums
  <2>. QED
    BY <2>1, <2>3, <2>4, <2>6, <2>7
<1>12. ASSUME NEW p \in 1..Len(h[n])
       PROVE  \E k \in 1..n, j \in Nat : 1 <= j /\ j <= Len(parts[k]) /\ p = ends[k - 1] + j
  <2>. DEFINE Lies(m, q) == \E k \in 1..m, j \in Nat : 1 <= j /\ j <= Len(parts[k]) /\ q = Len(h[k - 1]) + j
              Good == {m \in 0..n : \A q \in 1..Len(h[m]) : Lies(m, q)}
  <2>1. 0 \in Good
    BY <1>1, <1>6
  <2>2. ASSUME NEW m \in 0..n, m < n, m \in Good PROVE m + 1 \in Good
    <3>1. m + 1 \in 1..n /\ m + 1 \in 0..n /\ (m + 1) - 1 = m /\ m \in Nat
      BY <1>1, <2>2
    <3>3. Len(h[m + 1]) = Len(h[m]) + Len(parts[m + 1]) /\ Len(h[m]) \in Nat /\ Len(parts[m + 1]) \in Nat
      <4>1. Grows(m + 1, m)
        BY <1>8, <3>1
      <4>. QED
        BY <4>1 DEF Grows
    <3>4. ASSUME NEW q \in 1..Len(h[m + 1]) PROVE Lies(m + 1, q)
      <4>1. CASE q <= Len(h[m])
        <5>1. Lies(m, q)
          <6>1. q \in 1..Len(h[m])
            BY <3>3, <4>1
          <6>. HIDE DEF Lies
          <6>. QED
            BY <2>2, <6>1
        <5>. QED
          BY <3>1, <5>1
      <4>2. CASE q > Len(h[m])
        <5>. DEFINE j == q - Len(h[m])
        <5>1. j \in Nat /\ 1 <= j /\ j <= Len(parts[m + 1]) /\ q = Len(h[m]) + j
          <6>1. q \in Nat /\ Len(h[m + 1]) \in Nat
            BY <1>7, <3>1
          <6>2. \A total, start, size \in Nat :
                   q \in 1..total /\ total = start + size /\ q > start =>
                     q - start \in Nat /\ 1 <= q - start /\ q - start <= size /\ q = start + (q - start)
            BY ONLY <6>1, Sums
          <6>3. q \in 1..Len(h[m + 1])
            OBVIOUS
          <6>. QED
            BY <3>3, <4>2, <6>1, <6>2, <6>3
        <5>2. m + 1 \in 1..(m + 1)
          BY <3>1
        <5>. HIDE DEF j
        <5>3. q = Len(h[(m + 1) - 1]) + j
          BY <3>1, <5>1
        <5>. QED
          BY <5>1, <5>2, <5>3
      <4>. QED
        BY <3>3, <4>1, <4>2
    <3>. HIDE DEF Lies
    <3>. QED
      BY <3>1, <3>4
  <2>. HIDE DEF Good, n
  <2>3. \A m \in 0..n : m \in Good
    BY <1>1, <2>1, <2>2, NumberInduction
  <2>4. n \in Good
    BY <1>1, <2>3
  <2>5. Lies(n, p)
    BY <2>4 DEF Good
  <2>6. \A k \in 1..n : ends[k - 1] = Len(h[k - 1])
    BY <1>8
  <2>. QED
    BY <2>5, <2>6
<1>13. Laid(parts, ends, h[n])
  <2>1. Len(h[n]) = ends[n] /\ n \in 0..n
    BY <1>1
  <2>. HIDE DEF ends
  <2>. QED
    BY <1>9, <1>11, <1>12, <2>1 DEF Laid
<1>14. h[n] \in Seq(S)
  BY <1>1, <1>7
<1>. HIDE DEF ends
<1>. QED
  BY <1>13, <1>14

LEMMA FlattenIs ==
    ASSUME NEW S, NEW parts \in Seq(Seq(S))
    PROVE  FlattenSeq(parts) \in Seq(S) /\ \E ends : Laid(parts, ends, FlattenSeq(parts))
<1>. DEFINE n == Len(parts)
            V == Seq(S)
            step == [p \in V \X (1..n) |-> p[1] \o parts[p[2]]]
            Body(f) == [i \in 1..n |-> IF i = 1 THEN parts[i] ELSE f[i - 1] \o parts[i]]
            joined == CHOOSE f : f = Body(f)
            h == [k \in 0..n |-> IF k = 0 THEN <<>> ELSE joined[k]]
            base == <<>>
<1>1. n \in Nat /\ base \in V /\ \A i \in 1..n : parts[i] \in V
  OBVIOUS
<1>2. step \in [V \X (1..n) -> V]
  <2>1. \A v \in V, i \in 1..n : v \o parts[i] \in V
    BY <1>1, Concatenation
  <2>. QED
    BY <2>1
<1>3. PICK f : Recurs(f, n, V, base, step)
  <2>. HIDE DEF step, n, base, V
  <2>. QED
    BY <1>1, <1>2, RecursionExists
<1>4. joined = Body(joined)
  <2>. DEFINE g == [i \in 1..n |-> f[i]]
  <2>1. \A i \in 1..n : f[i - 1] \in V /\ f[i] = f[i - 1] \o parts[i]
    BY <1>3 DEF Recurs
  <2>2. 1 \in 1..n => f[1] = parts[1]
    <3>1. f[0] = <<>>
      BY <1>3 DEF Recurs
    <3>2. 1 \in 1..n => f[1] = <<>> \o parts[1]
      <4>1. 1 \in 1..n => f[1] = f[1 - 1] \o parts[1]
        BY <2>1
      <4>2. f[1 - 1] = <<>>
        BY <3>1
      <4>. QED
        BY <4>1, <4>2
    <3>. QED
      BY <1>1, <3>2
  <2>3. \A i \in 1..n : i # 1 => i - 1 \in 1..n
    BY <1>1
  <2>4. \A i \in 1..n : g[i] = IF i = 1 THEN parts[i] ELSE g[i - 1] \o parts[i]
    BY <2>1, <2>2, <2>3
  <2>5. g = Body(g)
    <3>. HIDE DEF n
    <3>. QED
      BY <2>4
  <2>. QED
    BY <2>5, Zenon
<1>5. FlattenSeq(parts) = h[n]
  <2>1. CASE n = 0
    BY <1>1, <2>1 DEF FlattenSeq
  <2>2. CASE n # 0
    <3>1. FlattenSeq(parts) = joined[n]
      BY <2>2, Zenon DEF FlattenSeq
    <3>2. n \in 0..n
      BY <1>1
    <3>. HIDE DEF joined, n
    <3>. QED
      BY <2>2, <3>1, <3>2
  <2>. QED
    BY <2>1, <2>2
<1>. HIDE DEF joined
<1>6. h[0] = <<>> /\ \A k \in 1..n : h[k - 1] \in V => h[k] = h[k - 1] \o parts[k]
  <2>1. h[0] = <<>>
    BY <1>1
  <2>2. ASSUME NEW k \in 1..n PROVE h[k] = h[k - 1] \o parts[k]
    <3>1. k \in 0..n /\ k - 1 \in 0..n /\ k # 0
      BY <1>1
    <3>2. h[k] = joined[k] /\ h[k - 1] = IF k - 1 = 0 THEN <<>> ELSE joined[k - 1]
      BY <3>1
    <3>3. joined[k] = IF k = 1 THEN parts[k] ELSE joined[k - 1] \o parts[k]
      BY <1>4, Zenon
    <3>4. CASE k = 1
      BY <1>1, <3>2, <3>3, <3>4
    <3>5. CASE k # 1
      <4>1. k - 1 # 0
        BY <3>1, <3>5
      <4>. HIDE DEF h, n
      <4>. QED
        BY <3>2, <3>3, <3>5, <4>1
    <3>. QED
      BY <3>4, <3>5
  <2>. QED
    BY <2>1, <2>2
<1>. HIDE DEF h
<1>7. n \in Nat /\ \A k \in 0..n : h[k] \in V
  <2>1. h[0] \in V /\ \A k \in 1..n : h[k - 1] \in V => h[k] \in V
    BY <1>1, <1>6, Concatenation
  <2>. HIDE DEF n, V
  <2>. QED
    BY <1>1, <2>1, RecursionKeeps
<1>8. h[0] = <<>> /\ \A k \in 1..n : h[k] = h[k - 1] \o parts[k]
  <2>1. \A k \in 1..n : k - 1 \in 0..n
    BY <1>7
  <2>. QED
    BY <1>6, <1>7, <2>1
<1>9. h[n] \in Seq(S) /\ \E ends : Laid(parts, ends, h[n])
  BY <1>8, LaidOut
<1>. QED
  BY <1>5, <1>9

-----------------------------------------------------------------------------
(* Sorting: the places of the entries are their numbers, each taken once.  *)
NotAfter(key, i) == UpTo(Keyed(key), <<key[i], i>>)

LEMMA NotAfterIsOrdered ==
    ASSUME NEW D, D \subseteq Int, NEW key \in [D -> Int], NEW i \in D, NEW j
    PROVE  <<key[j], j>> \in NotAfter(key, i) /\ j \in D
             <=> j \in D /\ (key[j] < key[i] \/ (key[j] = key[i] /\ j <= i))
<1>1. \A k \in D : <<key[k], k>> \in Keyed(key)
  BY DEF Keyed
<1>. DEFINE a == <<key[j], j>>
            b == <<key[i], i>>
<1>2. a[1] = key[j] /\ a[2] = j /\ b[1] = key[i] /\ b[2] = i
  OBVIOUS
<1>3. a \in UpTo(Keyed(key), b) <=> a \in Keyed(key) /\ (a[1] < b[1] \/ (a[1] = b[1] /\ a[2] <= b[2]))
  BY Zenon DEF UpTo
<1>. QED
  BY <1>1, <1>2, <1>3 DEF NotAfter

LEMMA KeyedIsFinite ==
    ASSUME NEW D, D \subseteq Int, IsFiniteSet(D), NEW key \in [D -> Int]
    PROVE  IsFiniteSet(Keyed(key)) /\ Cardinality(Keyed(key)) = Cardinality(D)
<1>. DEFINE f == [i \in D |-> <<key[i], i>>]
            pairs == Keyed(key)
<1>1. pairs = {f[i] : i \in D}
  BY DEF Keyed
<1>2. f \in Bijection(D, pairs)
  <2>1. \A i, j \in D : f[i] = f[j] => i = j
    OBVIOUS
  <2>2. f \in [D -> pairs]
    BY <1>1
  <2>. HIDE DEF f, pairs
  <2>. QED
    BY <1>1, <2>1, <2>2 DEF Bijection, Injection, Surjection, IsInjective
<1>3. ExistsBijection(D, pairs)
  BY <1>2 DEF ExistsBijection
<1>. HIDE DEF pairs
<1>4. IsFiniteSet(pairs) /\ Cardinality(pairs) = Cardinality(D)
  BY <1>3, FS_Bijection
<1>. QED
  BY <1>4 DEF pairs

AllTaken(D, key) == \A p \in 1..Cardinality(D) : \E i \in D : Cardinality(NotAfter(key, i)) = p

LEMMA PlacesAreTaken ==
    ASSUME NEW D, D \subseteq Int, IsFiniteSet(D), NEW key \in [D -> Int]
    PROVE  /\ \A i \in D : Cardinality(NotAfter(key, i)) \in 1..Cardinality(D)
           /\ \A i, j \in D : Cardinality(NotAfter(key, i)) = Cardinality(NotAfter(key, j)) => i = j
           /\ AllTaken(D, key)
<1>. DEFINE Up(i) == NotAfter(key, i)
            pairs == Keyed(key)
            n == Cardinality(D)
<1>1. DOMAIN key = D /\ \A i \in D : key[i] \in Int /\ i \in Int
  OBVIOUS
<1>0. IsFiniteSet(pairs) /\ Cardinality(pairs) = n /\ n \in Nat
  BY KeyedIsFinite, FS_CardinalityType
<1>2. ASSUME NEW i \in D
      PROVE  /\ <<key[i], i>> \in Up(i) /\ Up(i) \subseteq pairs
             /\ IsFiniteSet(Up(i)) /\ Cardinality(Up(i)) \in 1..n
  <2>1. <<key[i], i>> \in Up(i)
    <3>1. i <= i /\ key[i] = key[i]
      BY <1>1
    <3>2. i \in D => <<key[i], i>> \in NotAfter(key, i)
      BY <3>1, NotAfterIsOrdered, Zenon
    <3>. QED
      BY <3>2
  <2>2. Up(i) \subseteq pairs
    BY DEF NotAfter, UpTo
  <2>. HIDE DEF Up, pairs, n
  <2>3. IsFiniteSet(Up(i)) /\ Cardinality(Up(i)) <= n
    BY <1>0, <2>2, FS_Subset
  <2>4. Cardinality(Up(i)) \in Nat
    BY <2>3, FS_CardinalityType
  <2>5. Cardinality(Up(i)) # 0
    BY <2>1, <2>3, FS_EmptySet
  <2>. QED
    BY <1>0, <2>1, <2>2, <2>3, <2>4, <2>5
<1>3. ASSUME NEW i \in D, NEW j \in D, key[i] < key[j] \/ (key[i] = key[j] /\ i < j)
      PROVE  Cardinality(Up(i)) < Cardinality(Up(j))
  <2>1. Up(i) \subseteq Up(j) /\ <<key[j], j>> \notin Up(i) /\ <<key[j], j>> \in Up(j)
    <3>1. ASSUME NEW k \in D, key[k] < key[i] \/ (key[k] = key[i] /\ k <= i)
          PROVE  key[k] < key[j] \/ (key[k] = key[j] /\ k <= j)
      <4>1. key[k] \in Int /\ key[i] \in Int /\ key[j] \in Int /\ k \in Int /\ i \in Int /\ j \in Int
        BY <1>1
      <4>. QED
        BY <1>3, <3>1, <4>1
    <3>2. ~(key[j] < key[i] \/ (key[j] = key[i] /\ j <= i))
      <4>1. key[i] \in Int /\ key[j] \in Int /\ i \in Int /\ j \in Int
        BY <1>1
      <4>. QED
        BY <1>3, <4>1
    <3>3. <<key[j], j>> \notin Up(i)
      BY <3>2, NotAfterIsOrdered
    <3>4. ASSUME NEW a \in Up(i) PROVE a \in Up(j)
      <4>1. PICK k \in D : a = <<key[k], k>>
        BY <1>1, <1>2 DEF Keyed
      <4>2. key[k] < key[i] \/ (key[k] = key[i] /\ k <= i)
        BY <4>1, NotAfterIsOrdered
      <4>. QED
        BY <3>1, <4>1, <4>2, NotAfterIsOrdered
    <3>. QED
      BY <1>2, <3>3, <3>4
  <2>2. IsFiniteSet(Up(j)) /\ Up(i) # Up(j)
    BY <1>2, <2>1
  <2>. HIDE DEF Up
  <2>3. Cardinality(Up(i)) <= Cardinality(Up(j)) /\ (Cardinality(Up(i)) = Cardinality(Up(j)) => Up(i) = Up(j))
    BY <2>1, <2>2, FS_Subset
  <2>4. Cardinality(Up(i)) \in 1..n /\ Cardinality(Up(j)) \in 1..n
    BY <1>2
  <2>. HIDE DEF n
  <2>5. \A c \in 1..n : c \in Int
    OBVIOUS
  <2>. QED
    BY <2>2, <2>3, <2>4, <2>5
<1>. DEFINE at == [i \in D |-> Cardinality(Up(i))]
<1>4. at \in [D -> 1..n] /\ \A i \in D : at[i] = Cardinality(Up(i))
  BY <1>2
<1>. HIDE DEF at
<1>5. ASSUME NEW i \in D, NEW j \in D, at[i] = at[j] PROVE i = j
  <2>1. SUFFICES ASSUME i # j PROVE FALSE
    OBVIOUS
  <2>2. \/ key[i] < key[j] \/ (key[i] = key[j] /\ i < j)
        \/ key[j] < key[i] \/ (key[j] = key[i] /\ j < i)
    BY <1>1, <2>1
  <2>3. Cardinality(Up(i)) \in Int /\ Cardinality(Up(j)) \in Int /\ Cardinality(Up(i)) = Cardinality(Up(j))
    BY <1>2, <1>4, <1>5
  <2>. HIDE DEF Up
  <2>4. Cardinality(Up(i)) < Cardinality(Up(j)) \/ Cardinality(Up(j)) < Cardinality(Up(i))
    BY <1>3, <2>2
  <2>. QED
    BY <2>3, <2>4
<1>. DEFINE places == {at[i] : i \in D}
<1>6. n \in Nat /\ places \subseteq 1..n
  BY <1>0, <1>4
<1>7. IsFiniteSet(1..n) /\ Cardinality(1..n) = n
  BY <1>6, FS_Interval
<1>8. Cardinality(places) = n
  <2>1. at \in Bijection(D, places)
    BY <1>4, <1>5 DEF Bijection, Injection, Surjection, IsInjective
  <2>2. ExistsBijection(D, places)
    BY <2>1 DEF ExistsBijection
  <2>. HIDE DEF places
  <2>. QED
    BY <2>2, FS_Bijection
<1>9. places = 1..n
  <2>. HIDE DEF places, n
  <2>. QED
    BY <1>6, <1>7, <1>8, FS_Subset
<1>10. \A p \in 1..n : \E i \in D : at[i] = p
  BY <1>9
<1>. QED
  BY <1>2, <1>4, <1>5, <1>10 DEF AllTaken

(* So a sort lists every index, each once.                                 *)
LEMMA SortedIsOrder ==
    ASSUME NEW D, D \subseteq Int, IsFiniteSet(D), NEW key \in [D -> Int]
    PROVE  /\ Cardinality(D) \in Nat
           /\ Sorted(key) \in [1..Cardinality(D) -> D]
           /\ \A p, q \in 1..Cardinality(D) : Sorted(key)[p] = Sorted(key)[q] => p = q
           /\ \A i \in D : \E p \in 1..Cardinality(D) : Sorted(key)[p] = i
<1>. DEFINE n == Cardinality(D)
            at(i) == Cardinality(NotAfter(key, i))
            placed == {<<Cardinality(UpTo(Keyed(key), b)), b[2]>> : b \in Keyed(key)}
            first(p) == (CHOOSE b \in placed : b[1] = p)[2]
<1>0. n \in Nat /\ DOMAIN key = D
  BY FS_CardinalityType
<1>1. /\ \A i \in D : at(i) \in 1..n
      /\ \A i, j \in D : at(i) = at(j) => i = j
      /\ \A p \in 1..n : \E i \in D : at(i) = p
  <2>1. \A i \in D : Cardinality(NotAfter(key, i)) \in 1..Cardinality(D)
    BY PlacesAreTaken
  <2>2. \A i, j \in D : Cardinality(NotAfter(key, i)) = Cardinality(NotAfter(key, j)) => i = j
    BY PlacesAreTaken
  <2>3. AllTaken(D, key)
    BY PlacesAreTaken
  <2>. QED
    BY <2>1, <2>2, <2>3 DEF AllTaken
<1>2. Sorted(key) = [p \in 1..Cardinality(DOMAIN key) |-> first(p)]
  BY Zenon DEF Sorted
<1>3. placed = {<<at(i), i>> : i \in D}
  <2>. DEFINE c(b) == Cardinality(UpTo(Keyed(key), b))
  <2>1. \A i \in D : at(i) = c(<<key[i], i>>)
    BY DEF NotAfter
  <2>2. placed = {<<c(b), b[2]>> : b \in Keyed(key)}
    OBVIOUS
  <2>3. Keyed(key) = {<<key[i], i>> : i \in D}
    BY <1>0 DEF Keyed
  <2>. HIDE DEF c, at, placed
  <2>4. ASSUME NEW i \in D PROVE <<at(i), i>> \in placed
    <3>1. <<key[i], i>> \in Keyed(key) /\ <<key[i], i>>[2] = i
      BY <2>3
    <3>2. <<c(<<key[i], i>>), <<key[i], i>>[2]>> \in placed
      BY <2>2, <3>1
    <3>. QED
      BY <2>1, <3>1, <3>2
  <2>5. ASSUME NEW x \in placed PROVE \E i \in D : x = <<at(i), i>>
    <3>1. PICK b \in Keyed(key) : x = <<c(b), b[2]>>
      BY <2>2
    <3>2. PICK i \in D : b = <<key[i], i>>
      BY <2>3
    <3>. QED
      BY <2>1, <3>1, <3>2
  <2>. QED
    BY <2>4, <2>5
<1>. HIDE DEF at, placed
<1>4. ASSUME NEW p \in 1..n PROVE first(p) \in D /\ at(first(p)) = p
  <2>1. PICK i \in D : at(i) = p
    BY <1>1
  <2>2. <<at(i), i>> \in placed /\ <<at(i), i>>[1] = p
    BY <1>3, <2>1
  <2>. DEFINE c == CHOOSE b \in placed : b[1] = p
  <2>3. c \in placed /\ c[1] = p
    BY <2>2
  <2>4. first(p) = c[2]
    BY Zenon
  <2>. HIDE DEF c
  <2>5. PICK k \in D : c = <<at(k), k>>
    BY <1>3, <2>3
  <2>. QED
    BY <2>3, <2>4, <2>5
<1>5. Sorted(key) = [p \in 1..n |-> first(p)]
  BY <1>0, <1>2
<1>. HIDE DEF first, n
<1>6. \A p \in 1..n : Sorted(key)[p] = first(p)
  BY <1>5
<1>7. ASSUME NEW i \in D PROVE \E p \in 1..n : Sorted(key)[p] = i
  <2>1. at(i) \in 1..n
    BY <1>1
  <2>2. at(first(at(i))) = at(i) /\ first(at(i)) \in D
    BY <1>4, <2>1
  <2>3. first(at(i)) = i
    BY <1>1, <2>2
  <2>. QED
    BY <1>6, <2>1, <2>3
<1>8. Sorted(key) \in [1..n -> D]
  BY <1>4, <1>5
<1>9. \A p, q \in 1..n : Sorted(key)[p] = Sorted(key)[q] => p = q
  <2>1. \A p, q \in 1..n : first(p) = first(q) => p = q
    BY <1>4
  <2>. QED
    BY <1>6, <2>1
<1>. QED
  BY <1>0, <1>7, <1>8, <1>9 DEF n

LEMMA SortedSequence ==
    ASSUME NEW n \in Nat, NEW key \in [1..n -> Int]
    PROVE  /\ Sorted(key) \in [1..n -> 1..n]
           /\ \A p, q \in 1..n : Sorted(key)[p] = Sorted(key)[q] => p = q
           /\ \A i \in 1..n : \E p \in 1..n : Sorted(key)[p] = i
<1>. DEFINE D == 1..n
            c == Cardinality(D)
<1>1. D \subseteq Int /\ IsFiniteSet(D) /\ c = n /\ key \in [D -> Int]
  BY FS_Interval
<1>. HIDE DEF D
<1>2. /\ Sorted(key) \in [1..c -> D]
      /\ \A p, q \in 1..c : Sorted(key)[p] = Sorted(key)[q] => p = q
  BY <1>1, SortedIsOrder
<1>3. ASSUME NEW i \in D PROVE \E p \in 1..c : Sorted(key)[p] = i
  BY <1>1, SortedIsOrder
<1>. QED
  BY <1>1, <1>2, <1>3 DEF D

(* The first index in the order of a sort: none has a smaller key, and     *)
(* none before it the same.                                                *)
LEMMA FirstInOrder ==
    ASSUME NEW D, D \subseteq Int, IsFiniteSet(D), D # {}, NEW key \in [D -> Int]
    PROVE  \E i \in D : \A j \in D : key[i] < key[j] \/ (key[i] = key[j] /\ i <= j)
<1>1. Cardinality(D) \in Nat /\ Cardinality(D) # 0
  BY FS_CardinalityType, FS_EmptySet
<1>2. AllTaken(D, key)
  BY PlacesAreTaken
<1>3. PICK i \in D : Cardinality(NotAfter(key, i)) = 1
  <2>1. 1 \in 1..Cardinality(D)
    BY <1>1
  <2>. QED
    BY <1>2, <2>1 DEF AllTaken
<1>4. ASSUME NEW j \in D PROVE key[i] < key[j] \/ (key[i] = key[j] /\ i <= j)
  <2>. DEFINE up == NotAfter(key, i)
              a == <<key[i], i>>
              b == <<key[j], j>>
  <2>0. key[i] \in Int /\ key[j] \in Int /\ i \in Int /\ j \in Int
    OBVIOUS
  <2>1. SUFFICES ASSUME key[j] < key[i] \/ (key[j] = key[i] /\ j <= i), i # j PROVE FALSE
    BY <2>0
  <2>2. b \in up
    BY <2>1, NotAfterIsOrdered
  <2>3. a \in up
    <3>1. key[i] = key[i] /\ i <= i
      BY <2>0
    <3>. QED
      BY <3>1, NotAfterIsOrdered, Zenon
  <2>4. a # b
    BY <2>1
  <2>5. IsFiniteSet(up)
    <3>1. IsFiniteSet(Keyed(key))
      BY KeyedIsFinite
    <3>2. up \subseteq Keyed(key)
      BY DEF NotAfter, UpTo
    <3>. HIDE DEF up
    <3>. QED
      BY <3>1, <3>2, FS_Subset
  <2>6. Cardinality(up) = 1
    BY <1>3
  <2>. HIDE DEF up, a, b
  <2>7. \E x : up = {x}
    BY <2>5, <2>6, FS_Singleton
  <2>. QED
    BY <2>2, <2>3, <2>4, <2>7
<1>. QED
  BY <1>4

(* The keys in order are the keys.                                         *)
LEMMA AscendingIsKeys ==
    ASSUME NEW D, D \subseteq Int, IsFiniteSet(D), NEW key \in [D -> Int]
    PROVE  /\ Ascending(key) \in Seq(Int) /\ Len(Ascending(key)) = Cardinality(D)
           /\ \A p \in 1..Cardinality(D) : Sorted(key)[p] \in D /\ Ascending(key)[p] = key[Sorted(key)[p]]
<1>1. /\ Cardinality(D) \in Nat /\ Sorted(key) \in [1..Cardinality(D) -> D]
      /\ DOMAIN key = D /\ \A i \in D : key[i] \in Int
  BY SortedIsOrder
<1>2. Ascending(key) = [p \in 1..Cardinality(D) |-> key[Sorted(key)[p]]]
  <2>1. DOMAIN Sorted(key) = 1..Cardinality(D)
    BY <1>1
  <2>. QED
    BY <2>1 DEF Ascending
<1>3. \A p \in 1..Cardinality(D) : Sorted(key)[p] \in D /\ key[Sorted(key)[p]] \in Int
  BY <1>1
<1>. QED
  BY <1>1, <1>2, <1>3

(* What is kept of a sequence are its entries at the places kept.          *)
LEMMA FilteredIsPart ==
    ASSUME NEW S, NEW s \in Seq(S), NEW places \in SUBSET (1..Len(s))
    PROVE  /\ Filtered(s, places) \in Seq(S)
           /\ \A p \in 1..Len(Filtered(s, places)) : \E i \in places : Filtered(s, places)[p] = s[i]
           /\ \A i \in places : \E p \in 1..Len(Filtered(s, places)) : Filtered(s, places)[p] = s[i]
<1>. DEFINE key == [i \in places |-> i]
            n == Cardinality(places)
            order == Sorted(key)
<1>1. places \subseteq Int /\ IsFiniteSet(places) /\ key \in [places -> Int]
  <2>1. IsFiniteSet(1..Len(s)) /\ places \subseteq Int
    BY FS_Interval
  <2>. QED
    BY <2>1, FS_Subset
<1>2. /\ n \in Nat /\ order \in [1..n -> places]
      /\ \A i \in places : \E p \in 1..n : order[p] = i
  <2>. HIDE DEF key
  <2>. QED
    BY <1>1, SortedIsOrder
<1>3. Filtered(s, places) = [p \in 1..n |-> s[order[p]]]
  <2>1. DOMAIN order = 1..n
    BY <1>2
  <2>2. Filtered(s, places) = [p \in DOMAIN order |-> s[order[p]]]
    BY Zenon DEF Filtered
  <2>. QED
    BY <2>1, <2>2
<1>. HIDE DEF key, n, order
<1>4. ASSUME NEW p \in 1..n PROVE order[p] \in places /\ s[order[p]] \in S
  <2>1. order[p] \in places
    BY <1>2
  <2>2. order[p] \in 1..Len(s)
    BY <2>1
  <2>. QED
    BY <2>1, <2>2
<1>5. Filtered(s, places) \in Seq(S) /\ Len(Filtered(s, places)) = n /\ \A p \in 1..n : Filtered(s, places)[p] = s[order[p]]
  BY <1>2, <1>3, <1>4
<1>. DEFINE t == Filtered(s, places)
<1>. HIDE DEF t
<1>6. ASSUME NEW i \in places PROVE \E p \in 1..Len(t) : t[p] = s[i]
  <2>1. PICK p \in 1..n : order[p] = i
    BY <1>2
  <2>. QED
    BY <1>5, <2>1 DEF t
<1>7. ASSUME NEW p \in 1..Len(t) PROVE \E i \in places : t[p] = s[i]
  <2>1. p \in 1..n
    BY <1>5 DEF t
  <2>. QED
    BY <1>4, <1>5, <2>1 DEF t
<1>. QED
  BY <1>5, <1>6, <1>7 DEF t

=============================================================================
