------------------------------ MODULE FoldLemmas ------------------------------
(***************************************************************************)
(* What SumFunction of the community modules computes.  It is the fold of  *)
(* a recursive function over the subsets of a domain; that function exists *)
(* for a finite domain, and the sum does not depend on the order in which  *)
(* elements are chosen.  The sums that the models form are those of the    *)
(* lengths of queues: of all planes, or of the frames of a link, to which  *)
(* a frame is added and from which the first one is taken.                 *)
(*                                                                         *)
(* Induction is over sets: a set of numbers that holds 0 and with each of  *)
(* its elements the next one, has them all.                                *)
(***************************************************************************)
EXTENDS Integers, FiniteSets, SequencesExt, FiniteSetTheorems, WellFoundedInduction, TLAPS

CONSTANT Step(_, _, _)   \* what a fold does with its result so far and an element

LEMMA LeastNumber ==
  ASSUME NEW T \in SUBSET Nat, T # {}
  PROVE  \E n \in T : \A m \in T : n <= m
<1>1. PICK n \in T : \A m \in T : ~(<<m, n>> \in OpToRel(<, Nat))
  BY NatLessThanWellFounded, WFMin
<1>2. ASSUME NEW m \in T PROVE n <= m
  <2>1. m \in Nat /\ n \in Nat
    OBVIOUS
  <2>2. m < n => <<m, n>> \in OpToRel(<, Nat)
    BY <2>1, ZenonT(20) DEF OpToRel
  <2>3. ~(m < n)
    BY <1>1, <2>2, Zenon
  <2> QED BY <2>1, <2>3
<1> QED BY <1>2

LEMMA MinIsLeast ==
  ASSUME NEW T \in SUBSET Nat, T # {}
  PROVE  Min(T) \in T /\ \A m \in T : Min(T) <= m
BY LeastNumber DEF Min

LEMMA AllNumbers ==
  ASSUME NEW T \in SUBSET Nat, 0 \in T, \A n \in T : n + 1 \in T
  PROVE  T = Nat
<1> SUFFICES ASSUME Nat \ T # {} PROVE FALSE
  OBVIOUS
<1>1. PICK n \in Nat \ T : \A m \in Nat \ T : n <= m
  BY LeastNumber
<1>2. n # 0 /\ n \in Nat
  BY <1>1
<1>3. n - 1 \in Nat /\ ~(n <= n - 1) /\ (n - 1) + 1 = n
  BY <1>2
<1>4. n - 1 \in T
  BY <1>1, <1>3
<1> QED BY <1>1, <1>3, <1>4

\* All subsets of a finite set, if each is one whose subsets by one element are.
LEMMA AllSubsets ==
  ASSUME NEW S, IsFiniteSet(S), NEW T, {} \in T,
         \A s \in SUBSET S : s # {} /\ (\A x \in s : s \ {x} \in T) => s \in T
  PROVE  SUBSET S \subseteq T
<1> DEFINE N == {n \in Nat : \A s \in SUBSET S : Cardinality(s) = n => s \in T}
<1>1. ASSUME NEW s \in SUBSET S
      PROVE  IsFiniteSet(s) /\ Cardinality(s) \in Nat
  BY FS_Subset, FS_CardinalityType
<1>2. 0 \in N
  <2>1. ASSUME NEW s \in SUBSET S, Cardinality(s) = 0 PROVE s \in T
    BY <1>1, <2>1, FS_EmptySet
  <2> QED BY <2>1
<1>3. ASSUME NEW n \in N PROVE n + 1 \in N
  <2>1. ASSUME NEW s \in SUBSET S, Cardinality(s) = n + 1 PROVE s \in T
    <3>1. IsFiniteSet(s) /\ n \in Nat
      BY <1>1
    <3>2. s # {}
      BY <2>1, <3>1, FS_EmptySet
    <3>3. ASSUME NEW x \in s PROVE s \ {x} \in T
      <4>1. Cardinality(s \ {x}) = Cardinality(s) - 1
        BY <3>1, FS_RemoveElement
      <4>2. Cardinality(s \ {x}) = n /\ s \ {x} \in SUBSET S
        BY <2>1, <3>1, <4>1
      <4> QED BY <4>2
    <3> QED BY <3>2, <3>3
  <2> QED BY <2>1
<1> HIDE DEF N
<1>4. N \in SUBSET Nat
  BY DEF N
<1>5. N = Nat
  BY <1>2, <1>3, <1>4, AllNumbers
<1>6. ASSUME NEW s \in SUBSET S PROVE s \in T
  BY <1>1, <1>5 DEF N
<1> QED BY <1>6

-----------------------------------------------------------------------------
\* The fold as a recursive function over the subsets of a function's domain.

First(s) == CHOOSE x \in s : TRUE

SumOver(f, s, g) == IF s = {} THEN 0 ELSE f[First(s)] + g[s \ {First(s)}]

IsSum(f, g) == g = [s \in SUBSET DOMAIN f |-> SumOver(f, s, g)]

SumOf(f) == CHOOSE g : IsSum(f, g)

LEMMA SumIsFold ==
  ASSUME NEW f
  PROVE  SumFunction(f) = SumOf(f)[DOMAIN f]
BY DEF SumFunction, SumFunctionOnSet, FoldFunctionOnSet, MapThenFoldSet, SumOf, IsSum,
       SumOver, First

LEMMA FirstIsElement ==
  ASSUME NEW s, s # {}
  PROVE  First(s) \in s
BY DEF First

\* The recursion as far as the sets of n elements.
Small(f, n) == {s \in SUBSET DOMAIN f : Cardinality(s) <= n}

IsSumUpTo(f, n, g) == g = [s \in Small(f, n) |-> SumOver(f, s, g)]

LEMMA SmallSets ==
  ASSUME NEW f, IsFiniteSet(DOMAIN f), NEW s \in SUBSET DOMAIN f
  PROVE  /\ IsFiniteSet(s) /\ Cardinality(s) \in Nat
         /\ Cardinality(s) <= Cardinality(DOMAIN f)
         /\ s # {} => /\ s \ {First(s)} \in SUBSET DOMAIN f
                      /\ Cardinality(s \ {First(s)}) = Cardinality(s) - 1
<1>1. IsFiniteSet(s) /\ Cardinality(s) <= Cardinality(DOMAIN f)
  BY FS_Subset
<1> QED BY <1>1, FS_CardinalityType, FS_RemoveElement, FirstIsElement

LEMMA SumOfNothing ==
  ASSUME NEW f, IsFiniteSet(DOMAIN f)
  PROVE  \E g : IsSumUpTo(f, 0, g)
<1>1. ASSUME NEW s \in Small(f, 0) PROVE s = {}
  <2>1. s \in SUBSET DOMAIN f /\ Cardinality(s) <= 0
    BY DEF Small
  <2>2. IsFiniteSet(s) /\ Cardinality(s) \in Nat
    BY <2>1, SmallSets
  <2>3. Cardinality(s) = 0
    BY <2>1, <2>2
  <2> QED BY <2>2, <2>3, FS_EmptySet
<1> DEFINE g == [s \in Small(f, 0) |-> 0]
<1>2. ASSUME NEW s \in Small(f, 0) PROVE SumOver(f, s, g) = 0
  BY <1>1 DEF SumOver
<1> DEFINE k == [s \in Small(f, 0) |-> SumOver(f, s, g)]
<1>3. \A s \in Small(f, 0) : g[s] = k[s]
  BY <1>2
<1>4. g = k
  BY <1>3
<1>5. IsSumUpTo(f, 0, g)
  <2> HIDE DEF g
  <2> QED BY <1>4 DEF IsSumUpTo
<1> QED BY <1>5

LEMMA SumOfOneMore ==
  ASSUME NEW f, IsFiniteSet(DOMAIN f), NEW n \in Nat, NEW g, IsSumUpTo(f, n, g)
  PROVE  \E h : IsSumUpTo(f, n + 1, h)
<1> DEFINE h == [s \in Small(f, n + 1) |-> SumOver(f, s, g)]
<1>1. ASSUME NEW s \in Small(f, n) PROVE h[s] = g[s]
  <2>1. s \in SUBSET DOMAIN f /\ Cardinality(s) <= n
    BY DEF Small
  <2>2. Cardinality(s) \in Nat
    BY <2>1, SmallSets
  <2>3. Cardinality(s) <= n + 1
    BY <2>1, <2>2
  <2>4. s \in Small(f, n + 1)
    BY <2>1, <2>3 DEF Small
  <2>5. g[s] = SumOver(f, s, g)
    BY DEF IsSumUpTo
  <2> QED BY <2>4, <2>5
<1>2. ASSUME NEW s \in Small(f, n + 1) PROVE SumOver(f, s, g) = SumOver(f, s, h)
  <2>1. CASE s = {}
    BY <2>1 DEF SumOver
  <2>2. CASE s # {}
    <3>1. s \in SUBSET DOMAIN f /\ Cardinality(s) <= n + 1
      BY DEF Small
    <3>2. /\ s \ {First(s)} \in SUBSET DOMAIN f /\ Cardinality(s) \in Nat
          /\ Cardinality(s \ {First(s)}) = Cardinality(s) - 1
      BY <2>2, <3>1, SmallSets
    <3>3. Cardinality(s \ {First(s)}) <= n
      BY <3>1, <3>2
    <3>4. s \ {First(s)} \in Small(f, n)
      BY <3>2, <3>3 DEF Small
    <3>5. h[s \ {First(s)}] = g[s \ {First(s)}]
      BY <1>1, <3>4
    <3> HIDE DEF h
    <3> QED BY <2>2, <3>5 DEF SumOver
  <2> QED BY <2>1, <2>2
<1> DEFINE k == [s \in Small(f, n + 1) |-> SumOver(f, s, h)]
<1>3. \A s \in Small(f, n + 1) : h[s] = k[s]
  BY <1>2
<1>4. h = k
  BY <1>3
<1>5. IsSumUpTo(f, n + 1, h)
  <2> HIDE DEF h
  <2> QED BY <1>4 DEF IsSumUpTo
<1> QED BY <1>5

LEMMA SumExists ==
  ASSUME NEW f, IsFiniteSet(DOMAIN f)
  PROVE  \E g : IsSum(f, g)
<1> DEFINE N == {n \in Nat : \E g : IsSumUpTo(f, n, g)}
<1>1. 0 \in N
  BY SumOfNothing
<1>2. ASSUME NEW n \in N PROVE n + 1 \in N
  BY SumOfOneMore
<1>3. N \in SUBSET Nat
  OBVIOUS
<1>4. N = Nat
  <2> HIDE DEF N
  <2> QED BY <1>1, <1>2, <1>3, AllNumbers
<1>5. PICK g : IsSumUpTo(f, Cardinality(DOMAIN f), g)
  BY <1>4, FS_CardinalityType
<1>6. Small(f, Cardinality(DOMAIN f)) = SUBSET DOMAIN f
  <2>1. ASSUME NEW s \in SUBSET DOMAIN f PROVE Cardinality(s) <= Cardinality(DOMAIN f)
    BY SmallSets
  <2> QED BY <2>1 DEF Small
<1>7. IsSum(f, g)
  BY <1>5, <1>6 DEF IsSum, IsSumUpTo
<1> QED BY <1>7

\* Part of a sum: the numbers f[x] of a set of x.
PartSum(f, s) == SumOf(f)[s]

LEMMA PartSumIs ==
  ASSUME NEW f, IsFiniteSet(DOMAIN f), NEW s \in SUBSET DOMAIN f
  PROVE  PartSum(f, s) = IF s = {} THEN 0 ELSE f[First(s)] + PartSum(f, s \ {First(s)})
<1>1. IsSum(f, SumOf(f))
  BY SumExists DEF SumOf
<1>2. SumOf(f)[s] = SumOver(f, s, SumOf(f))
  BY <1>1 DEF IsSum
<1> QED BY <1>2 DEF PartSum, SumOver

\* A domain is finite and its numbers are integers.
Numbers(f) == IsFiniteSet(DOMAIN f) /\ f \in [DOMAIN f -> Int]

LEMMA PartSumIsNumber ==
  ASSUME NEW f, Numbers(f), NEW s \in SUBSET DOMAIN f
  PROVE  PartSum(f, s) \in Int
<1> DEFINE T == {t \in SUBSET DOMAIN f : PartSum(f, t) \in Int}
<1>0. IsFiniteSet(DOMAIN f) /\ f \in [DOMAIN f -> Int]
  BY DEF Numbers
<1>1. {} \in T
  BY <1>0, PartSumIs
<1>2. ASSUME NEW t \in SUBSET DOMAIN f, t # {}, \A x \in t : t \ {x} \in T
      PROVE  t \in T
  <2>1. First(t) \in t /\ First(t) \in DOMAIN f
    BY <1>2, FirstIsElement
  <2>2. PartSum(f, t \ {First(t)}) \in Int
    BY <1>2, <2>1
  <2>3. PartSum(f, t) = f[First(t)] + PartSum(f, t \ {First(t)})
    BY <1>0, <1>2, PartSumIs
  <2>4. f[First(t)] \in Int
    BY <1>0, <2>1
  <2> QED BY <2>2, <2>3, <2>4
<1> HIDE DEF T
<1>3. SUBSET DOMAIN f \subseteq T
  BY <1>0, <1>1, <1>2, AllSubsets
<1> QED BY <1>3 DEF T

\* Any element can be the first.
LEMMA PartSumWithout ==
  ASSUME NEW f, Numbers(f), NEW s \in SUBSET DOMAIN f, NEW y \in s
  PROVE  PartSum(f, s) = f[y] + PartSum(f, s \ {y})
<1> DEFINE T == {t \in SUBSET DOMAIN f :
                   \A x \in t : PartSum(f, t) = f[x] + PartSum(f, t \ {x})}
<1>0. IsFiniteSet(DOMAIN f) /\ f \in [DOMAIN f -> Int]
  BY DEF Numbers
<1>1. {} \in T
  OBVIOUS
<1>2. ASSUME NEW t \in SUBSET DOMAIN f, t # {}, \A x \in t : t \ {x} \in T
      PROVE  t \in T
  <2> DEFINE p == First(t)
  <2>1. p \in t /\ p \in DOMAIN f
    BY <1>2, FirstIsElement
  <2>2. PartSum(f, t) = f[p] + PartSum(f, t \ {p})
    BY <1>0, <1>2, PartSumIs
  <2> HIDE DEF p
  <2>3. ASSUME NEW x \in t PROVE PartSum(f, t) = f[x] + PartSum(f, t \ {x})
    <3>1. CASE x = p
      BY <2>2, <3>1
    <3>2. CASE x # p
      <4>1. t \ {p} \in T /\ t \ {x} \in T /\ x \in t \ {p} /\ p \in t \ {x}
        BY <1>2, <2>1, <3>2
      <4>2. PartSum(f, t \ {p}) = f[x] + PartSum(f, (t \ {p}) \ {x})
        BY <4>1
      <4>3. PartSum(f, t \ {x}) = f[p] + PartSum(f, (t \ {x}) \ {p})
        BY <4>1
      <4>4. (t \ {p}) \ {x} = (t \ {x}) \ {p} /\ (t \ {p}) \ {x} \in SUBSET DOMAIN f
        OBVIOUS
      <4>5. PartSum(f, (t \ {p}) \ {x}) \in Int /\ f[x] \in Int /\ f[p] \in Int
        BY <1>0, <2>1, <4>4, PartSumIsNumber
      <4> DEFINE rest == PartSum(f, (t \ {p}) \ {x})
      <4>6. PartSum(f, t \ {x}) = f[p] + rest
        BY <4>3, <4>4, Zenon
      <4>7. PartSum(f, t) = f[p] + (f[x] + rest)
        BY <2>2, <4>2, Zenon
      <4>8. rest \in Int
        BY <4>5, Zenon
      <4> HIDE DEF T, rest
      <4> QED BY <4>5, <4>6, <4>7, <4>8
    <3> QED BY <3>1, <3>2
  <2> QED BY <2>3
<1> HIDE DEF T
<1>3. \A t \in SUBSET DOMAIN f : t # {} /\ (\A x \in t : t \ {x} \in T) => t \in T
  BY <1>2, Zenon
<1>4. SUBSET DOMAIN f \subseteq T
  BY <1>0, <1>1, <1>3, AllSubsets, Zenon
<1> QED BY <1>4 DEF T

\* The same numbers under other names have the same sum.
Image(s, h) == {h[x] : x \in s}

SameNumbers(s, f, g, h) ==
  \A x \in s : /\ h[x] \in DOMAIN g /\ g[h[x]] = f[x]
               /\ \A y \in s : h[x] = h[y] => x = y

LEMMA PartSumsAgree ==
  ASSUME NEW f, Numbers(f), NEW g, Numbers(g), NEW s \in SUBSET DOMAIN f, NEW h,
         SameNumbers(s, f, g, h)
  PROVE  PartSum(f, s) = PartSum(g, Image(s, h))
<1> DEFINE T == {t \in SUBSET s : PartSum(f, t) = PartSum(g, Image(t, h))}
<1>0. IsFiniteSet(DOMAIN f) /\ f \in [DOMAIN f -> Int] /\ IsFiniteSet(DOMAIN g)
  BY DEF Numbers
<1>1. {} \in T
  <2>1. Image({}, h) = {}
    BY DEF Image
  <2> QED BY <1>0, <2>1, PartSumIs
<1>2. ASSUME NEW t \in SUBSET s, t # {}, \A x \in t : t \ {x} \in T
      PROVE  t \in T
  <2>1. PICK p : p \in t
    BY <1>2
  <2>2. PartSum(f, t) = f[p] + PartSum(f, t \ {p})
    BY <2>1, PartSumWithout
  <2>3. Image(t, h) \in SUBSET DOMAIN g /\ h[p] \in Image(t, h) /\ g[h[p]] = f[p]
    BY <2>1 DEF Image, SameNumbers
  <2>4. PartSum(g, Image(t, h)) = g[h[p]] + PartSum(g, Image(t, h) \ {h[p]})
    BY <2>3, PartSumWithout
  <2>5. Image(t, h) \ {h[p]} = Image(t \ {p}, h)
    <3>1. ASSUME NEW z \in Image(t, h) \ {h[p]} PROVE z \in Image(t \ {p}, h)
      BY <3>1 DEF Image
    <3>2. ASSUME NEW z \in Image(t \ {p}, h) PROVE z \in Image(t, h) \ {h[p]}
      BY <2>1, <3>2 DEF Image, SameNumbers
    <3> QED BY <3>1, <3>2
  <2>6. PartSum(f, t \ {p}) = PartSum(g, Image(t \ {p}, h))
    BY <1>2, <2>1
  <2> QED BY <2>2, <2>3, <2>4, <2>5, <2>6
<1>3. IsFiniteSet(s)
  BY <1>0, FS_Subset
<1> HIDE DEF T
<1>4. SUBSET s \subseteq T
  BY <1>1, <1>2, <1>3, AllSubsets
<1> QED BY <1>4 DEF T

LEMMA SameNumbersSameSum ==
  \A f, g, s, h :
    Numbers(f) /\ Numbers(g) /\ s \subseteq DOMAIN f /\ SameNumbers(s, f, g, h)
      => PartSum(f, s) = PartSum(g, Image(s, h))
BY PartSumsAgree

-----------------------------------------------------------------------------
\* The sums of a whole function.

LEMMA SumIsPartSum ==
  ASSUME NEW f
  PROVE  SumFunction(f) = PartSum(f, DOMAIN f)
BY SumIsFold DEF PartSum

LEMMA SumWithout ==
  ASSUME NEW f, Numbers(f), NEW c \in DOMAIN f
  PROVE  SumFunction(f) = f[c] + PartSum(f, DOMAIN f \ {c})
BY SumIsPartSum, PartSumWithout

LEMMA SumIsNumber ==
  ASSUME NEW f, Numbers(f)
  PROVE  SumFunction(f) \in Int
BY SumIsPartSum, PartSumIsNumber

LEMMA SumOfNatIsNat ==
  ASSUME NEW f, IsFiniteSet(DOMAIN f), f \in [DOMAIN f -> Nat]
  PROVE  SumFunction(f) \in Nat
<1> DEFINE T == {t \in SUBSET DOMAIN f : PartSum(f, t) \in Nat}
<1>1. {} \in T
  BY PartSumIs
<1>2. ASSUME NEW t \in SUBSET DOMAIN f, t # {}, \A x \in t : t \ {x} \in T
      PROVE  t \in T
  <2>1. First(t) \in t /\ First(t) \in DOMAIN f
    BY <1>2, FirstIsElement
  <2>2. PartSum(f, t \ {First(t)}) \in Nat /\ f[First(t)] \in Nat
    BY <1>2, <2>1
  <2>3. PartSum(f, t) = f[First(t)] + PartSum(f, t \ {First(t)})
    BY <1>2, PartSumIs
  <2> QED BY <2>2, <2>3
<1> HIDE DEF T
<1>3. SUBSET DOMAIN f \subseteq T
  BY <1>1, <1>2, AllSubsets
<1> QED BY <1>3, SumIsPartSum DEF T

LEMMA SumOfZeros ==
  ASSUME NEW f, IsFiniteSet(DOMAIN f), \A x \in DOMAIN f : f[x] = 0
  PROVE  SumFunction(f) = 0
<1> DEFINE T == {t \in SUBSET DOMAIN f : PartSum(f, t) = 0}
<1>0. IsFiniteSet(DOMAIN f)
  OBVIOUS
<1>1. {} \in T
  BY PartSumIs
<1>2. ASSUME NEW t \in SUBSET DOMAIN f, t # {}, \A x \in t : t \ {x} \in T
      PROVE  t \in T
  <2>1. First(t) \in t /\ First(t) \in DOMAIN f
    BY <1>2, FirstIsElement
  <2>2. PartSum(f, t \ {First(t)}) = 0 /\ f[First(t)] = 0
    BY <1>2, <2>1
  <2>3. PartSum(f, t) = f[First(t)] + PartSum(f, t \ {First(t)})
    BY <1>2, PartSumIs
  <2> QED BY <2>2, <2>3
<1> HIDE DEF T
<1>3. \A t \in SUBSET DOMAIN f : t # {} /\ (\A x \in t : t \ {x} \in T) => t \in T
  BY <1>2
<1>4. SUBSET DOMAIN f \subseteq T
  BY <1>0, <1>1, <1>3, AllSubsets
<1> QED BY <1>4, SumIsPartSum DEF T

\* A term changes.
LEMMA SumOfChanged ==
  ASSUME NEW f, Numbers(f), NEW g, Numbers(g), DOMAIN g = DOMAIN f, NEW c \in DOMAIN f,
         \A x \in DOMAIN f : x # c => g[x] = f[x]
  PROVE  SumFunction(g) = SumFunction(f) - f[c] + g[c]
<1> DEFINE s == DOMAIN f \ {c}
           h == [x \in s |-> x]
<1>1. PartSum(f, DOMAIN f) = f[c] + PartSum(f, s)
  BY PartSumWithout
<1>2. PartSum(g, DOMAIN g) = g[c] + PartSum(g, s)
  BY PartSumWithout
<1>3. SameNumbers(s, f, g, h) /\ Image(s, h) = s
  BY DEF SameNumbers, Image
<1>4. PartSum(f, s) = PartSum(g, s)
  <2>1. s \in SUBSET DOMAIN f
    OBVIOUS
  <2> HIDE DEF s, h
  <2> QED BY <1>3, <2>1, PartSumsAgree
<1>5. f[c] \in Int /\ g[c] \in Int /\ PartSum(f, s) \in Int
  <2>1. s \in SUBSET DOMAIN f
    OBVIOUS
  <2> QED BY <2>1, PartSumIsNumber DEF Numbers
<1> HIDE DEF s
<1> QED BY <1>1, <1>2, <1>4, <1>5, SumIsPartSum

\* Queues of numbers.
LEMMA SumOfEmpty == SumFunction(<<>>) = 0
<1>1. DOMAIN <<>> = {}
  OBVIOUS
<1> QED BY <1>1, SumIsPartSum, PartSumIs, FS_EmptySet

LEMMA QueueOfNumbers ==
  ASSUME NEW n \in Nat, NEW f \in [1 .. n -> Int]
  PROVE  Numbers(f) /\ DOMAIN f = 1 .. n
BY FS_Interval DEF Numbers

LEMMA SumOfAppended ==
  ASSUME NEW n \in Nat, NEW f \in [1 .. n -> Int], NEW g \in [1 .. n + 1 -> Int],
         \A i \in 1 .. n : g[i] = f[i]
  PROVE  SumFunction(g) = SumFunction(f) + g[n + 1]
<1> DEFINE h == [i \in 1 .. n |-> i]
           s == 1 .. n
<1>1. Numbers(f) /\ DOMAIN f = s /\ Numbers(g) /\ DOMAIN g = 1 .. n + 1
  BY QueueOfNumbers
<1>2. n + 1 \in 1 .. n + 1 /\ (1 .. n + 1) \ {n + 1} = s
  OBVIOUS
<1>3. PartSum(g, 1 .. n + 1) = g[n + 1] + PartSum(g, s)
  <2> HIDE DEF s
  <2> QED BY <1>1, <1>2, PartSumWithout
<1>4. SameNumbers(s, f, g, h) /\ Image(s, h) = s
  BY DEF SameNumbers, Image
<1> HIDE DEF s, h
<1>5. PartSum(f, s) = PartSum(g, s)
  BY <1>1, <1>4, PartSumsAgree
<1>6. g[n + 1] \in Int /\ PartSum(f, s) \in Int
  BY <1>1, <1>2, PartSumIsNumber
<1> QED BY <1>1, <1>3, <1>5, <1>6, SumIsPartSum

LEMMA SumOfTail ==
  ASSUME NEW n \in Nat, NEW f \in [1 .. n + 1 -> Int], NEW g \in [1 .. n -> Int],
         \A i \in 1 .. n : g[i] = f[i + 1]
  PROVE  SumFunction(g) = SumFunction(f) - f[1]
<1> DEFINE h == [i \in 1 .. n |-> i + 1]
           s == 1 .. n
           t == 2 .. n + 1
<1>1. Numbers(f) /\ DOMAIN f = 1 .. n + 1 /\ Numbers(g) /\ DOMAIN g = s
  BY QueueOfNumbers
<1>2. 1 \in 1 .. n + 1 /\ (1 .. n + 1) \ {1} = t
  OBVIOUS
<1>3. SumFunction(f) = f[1] + PartSum(f, t)
  <2>1. 1 \in DOMAIN f /\ DOMAIN f \ {1} = t
    BY <1>1, <1>2
  <2>2. SumFunction(f) = f[1] + PartSum(f, DOMAIN f \ {1})
    BY <1>1, <2>1, SumWithout
  <2> QED BY <2>1, <2>2, Zenon
<1>4. Image(s, h) = t
  <2>1. ASSUME NEW z \in t PROVE z \in Image(s, h)
    <3>1. z - 1 \in s /\ h[z - 1] = z
      OBVIOUS
    <3> HIDE DEF h, s
    <3> QED BY <3>1 DEF Image
  <2>2. ASSUME NEW z \in Image(s, h) PROVE z \in t
    BY DEF Image
  <2> QED BY <2>1, <2>2
<1>5. SameNumbers(s, g, f, h)
  BY DEF SameNumbers
<1> HIDE DEF s, h, t
<1>6. PartSum(g, s) = PartSum(f, t)
  <2>1. Numbers(f) /\ Numbers(g) /\ s \subseteq DOMAIN g
    BY <1>1
  <2>2. ASSUME NEW a, NEW b, NEW k,
               Numbers(a), Numbers(b), s \subseteq DOMAIN a, SameNumbers(s, a, b, k)
        PROVE  PartSum(a, s) = PartSum(b, Image(s, k))
    BY <2>2, SameNumbersSameSum
  <2>3. PartSum(g, s) = PartSum(f, Image(s, h))
    BY <1>5, <2>1, <2>2, Zenon
  <2> QED BY <1>4, <2>3, Zenon
<1>7. f[1] \in Int /\ PartSum(g, s) \in Int
  BY <1>1, <1>2, PartSumIsNumber
<1> QED BY <1>1, <1>3, <1>6, <1>7, SumIsPartSum

-----------------------------------------------------------------------------
\* FlattenSeq: the same for the recursion that joins the sequences of a sequence.

Joined(s, i, g) == IF i = 1 THEN s[i] ELSE g[i - 1] \o s[i]

IsFlat(s, n, g) == g = [i \in 1 .. n |-> Joined(s, i, g)]

Flat(s) == CHOOSE g : IsFlat(s, Len(s), g)

LEMMA FlatIsFold ==
  ASSUME NEW s, Len(s) # 0
  PROVE  FlattenSeq(s) = Flat(s)[Len(s)]
BY DEF FlattenSeq, Flat, IsFlat, Joined

LEMMA FlatExists ==
  ASSUME NEW s, NEW len \in Nat
  PROVE  \E g : IsFlat(s, len, g)
<1> DEFINE N == {n \in Nat : \E g : IsFlat(s, n, g)}
<1>1. 0 \in N
  <2> DEFINE g == [i \in 1 .. 0 |-> 0]
             k == [i \in 1 .. 0 |-> Joined(s, i, g)]
  <2>1. g = k
    OBVIOUS
  <2>2. IsFlat(s, 0, g)
    <3> HIDE DEF g
    <3> QED BY <2>1 DEF IsFlat
  <2> QED BY <2>2
<1>2. ASSUME NEW n \in N PROVE n + 1 \in N
  <2>1. n \in Nat
    OBVIOUS
  <2>2. PICK g : g = [i \in 1 .. n |-> Joined(s, i, g)]
    BY DEF IsFlat
  <2> DEFINE h == [i \in 1 .. n + 1 |-> Joined(s, i, g)]
             k == [i \in 1 .. n + 1 |-> Joined(s, i, h)]
  <2>3. ASSUME NEW i \in 1 .. n PROVE h[i] = g[i]
    <3>1. g[i] = Joined(s, i, g)
      BY <2>2
    <3> QED BY <2>1, <3>1
  <2>4. ASSUME NEW i \in 1 .. n + 1 PROVE h[i] = k[i]
    <3>1. CASE i = 1
      BY <3>1 DEF Joined
    <3>2. CASE i # 1
      <4>1. i - 1 \in 1 .. n
        BY <2>1, <3>2
      <4>2. h[i - 1] = g[i - 1]
        BY <2>3, <4>1
      <4>3. Joined(s, i, h) = Joined(s, i, g)
        <5> HIDE DEF h
        <5> QED BY <4>2 DEF Joined
      <4> QED BY <4>3
    <3> QED BY <3>1, <3>2
  <2>5. h = k
    BY <2>4
  <2>6. IsFlat(s, n + 1, h)
    <3> HIDE DEF h
    <3> QED BY <2>5 DEF IsFlat
  <2> QED BY <2>1, <2>6
<1>3. N \in SUBSET Nat
  OBVIOUS
<1> HIDE DEF N
<1>4. N = Nat
  BY <1>1, <1>2, <1>3, AllNumbers
<1> QED BY <1>4 DEF N

LEMMA FlatIs ==
  ASSUME NEW s, Len(s) \in Nat, NEW i \in 1 .. Len(s)
  PROVE  Flat(s)[i] = IF i = 1 THEN s[1] ELSE Flat(s)[i - 1] \o s[i]
<1>1. IsFlat(s, Len(s), Flat(s))
  BY FlatExists DEF Flat
<1>2. Flat(s)[i] = Joined(s, i, Flat(s))
  BY <1>1 DEF IsFlat
<1> QED BY <1>2 DEF Joined

LEMMA JoinIsSeq ==
  ASSUME NEW S, NEW s \in Seq(S), NEW t \in Seq(S)
  PROVE  s \o t \in Seq(S) /\ Len(s \o t) = Len(s) + Len(t)
OBVIOUS

LEMMA FlattenIsSeq ==
  ASSUME NEW S, NEW s \in Seq(Seq(S))
  PROVE  FlattenSeq(s) \in Seq(S)
<1> DEFINE N == {n \in Nat : n + 1 \in 1 .. Len(s) => Flat(s)[n + 1] \in Seq(S)}
<1>0. Len(s) \in Nat /\ \A i \in 1 .. Len(s) : s[i] \in Seq(S)
  OBVIOUS
<1>1. 0 \in N
  <2>1. 1 \in 1 .. Len(s) => Flat(s)[1] = s[1]
    BY <1>0, FlatIs
  <2> QED BY <1>0, <2>1
<1>2. ASSUME NEW n \in N PROVE n + 1 \in N
  <2>1. ASSUME (n + 1) + 1 \in 1 .. Len(s) PROVE Flat(s)[(n + 1) + 1] \in Seq(S)
    <3>1. n + 1 \in 1 .. Len(s) /\ (n + 1) + 1 # 1 /\ ((n + 1) + 1) - 1 = n + 1
      BY <1>0, <2>1
    <3>2. Flat(s)[n + 1] \in Seq(S)
      BY <3>1
    <3>3. Flat(s)[(n + 1) + 1] = Flat(s)[n + 1] \o s[(n + 1) + 1]
      BY <1>0, <2>1, <3>1, FlatIs
    <3>4. s[(n + 1) + 1] \in Seq(S)
      BY <1>0, <2>1
    <3> QED BY <3>2, <3>3, <3>4, JoinIsSeq, Zenon
  <2>2. n + 1 \in Nat
    OBVIOUS
  <2> QED BY <2>1, <2>2
<1>3. N \in SUBSET Nat
  OBVIOUS
<1> HIDE DEF N
<1>4. N = Nat
  BY <1>1, <1>2, <1>3, AllNumbers
<1>5. CASE Len(s) = 0
  BY <1>0, <1>5 DEF FlattenSeq
<1>6. CASE Len(s) # 0
  <2>1. Len(s) - 1 \in N /\ (Len(s) - 1) + 1 = Len(s) /\ Len(s) \in 1 .. Len(s)
    BY <1>0, <1>4, <1>6
  <2>2. Flat(s)[Len(s)] \in Seq(S)
    BY <2>1 DEF N
  <2> QED BY <1>6, <2>2, FlatIsFold
<1> QED BY <1>5, <1>6

-----------------------------------------------------------------------------
\* A queue whose elements weigh what w says.
Weights(q, w) == SumFunction([i \in DOMAIN q |-> w[q[i]]])

LEMMA WeightsOfQueue ==
  ASSUME NEW S, NEW w \in [S -> Nat], NEW q \in Seq(S)
  PROVE  /\ Len(q) \in Nat /\ DOMAIN q = 1 .. Len(q)
         /\ [i \in DOMAIN q |-> w[q[i]]] \in [1 .. Len(q) -> Nat]
         /\ Weights(q, w) \in Nat
<1>1. Len(q) \in Nat /\ DOMAIN q = 1 .. Len(q) /\ \A i \in 1 .. Len(q) : q[i] \in S
  OBVIOUS
<1> DEFINE f == [i \in DOMAIN q |-> w[q[i]]]
<1>2. f \in [1 .. Len(q) -> Nat]
  BY <1>1
<1>3. DOMAIN f = 1 .. Len(q) /\ IsFiniteSet(1 .. Len(q))
  BY <1>1, <1>2, FS_Interval
<1> HIDE DEF f
<1>4. SumFunction(f) \in Nat
  BY <1>2, <1>3, SumOfNatIsNat
<1> QED BY <1>1, <1>2, <1>4 DEF Weights, f

LEMMA WeightsOfEmpty ==
  ASSUME NEW w
  PROVE  Weights(<<>>, w) = 0
<1>1. [i \in DOMAIN <<>> |-> w[<<>>[i]]] = <<>>
  OBVIOUS
<1> QED BY <1>1, SumOfEmpty DEF Weights

LEMMA WeightsOfAppended ==
  ASSUME NEW S, NEW w \in [S -> Nat], NEW q \in Seq(S), NEW e \in S
  PROVE  Weights(Append(q, e), w) = Weights(q, w) + w[e]
<1> DEFINE r == Append(q, e)
           f == [i \in DOMAIN q |-> w[q[i]]]
           g == [i \in DOMAIN r |-> w[r[i]]]
           n == Len(q)
<1>1. r \in Seq(S) /\ Len(r) = n + 1 /\ n \in Nat
  OBVIOUS
<1>2. r[n + 1] = e /\ \A i \in 1 .. n : r[i] = q[i]
  OBVIOUS
<1> HIDE DEF r
<1>3. f \in [1 .. n -> Nat] /\ DOMAIN q = 1 .. n
  BY WeightsOfQueue
<1>4. g \in [1 .. n + 1 -> Nat] /\ DOMAIN r = 1 .. n + 1
  BY <1>1, WeightsOfQueue
<1>5. /\ \A i \in 1 .. n : g[i] = f[i]
      /\ g[n + 1] = w[e]
  BY <1>1, <1>2, <1>3, <1>4
<1>6. Weights(q, w) = SumFunction(f) /\ Weights(r, w) = SumFunction(g)
  BY DEF Weights
<1> HIDE DEF f, g, n
<1>7. f \in [1 .. n -> Int] /\ g \in [1 .. n + 1 -> Int]
  BY <1>3, <1>4
<1>8. SumFunction(g) = SumFunction(f) + g[n + 1]
  BY <1>1, <1>5, <1>7, SumOfAppended
<1> QED BY <1>5, <1>6, <1>8 DEF r

LEMMA WeightsOfTail ==
  ASSUME NEW S, NEW w \in [S -> Nat], NEW q \in Seq(S), q # <<>>
  PROVE  /\ Weights(Tail(q), w) = Weights(q, w) - w[Head(q)]
         /\ w[Head(q)] \in Nat /\ w[Head(q)] <= Weights(q, w)
<1> DEFINE r == Tail(q)
           g == [i \in DOMAIN r |-> w[r[i]]]
           f == [i \in DOMAIN q |-> w[q[i]]]
           n == Len(q) - 1
<1>1. r \in Seq(S) /\ Len(r) = n /\ n \in Nat /\ Len(q) = n + 1
  OBVIOUS
<1>2. q[1] = Head(q) /\ \A i \in 1 .. n : r[i] = q[i + 1]
  OBVIOUS
<1>3. Head(q) \in S
  OBVIOUS
<1> HIDE DEF r, n
<1>4. g \in [1 .. n -> Nat] /\ DOMAIN r = 1 .. n /\ Weights(r, w) \in Nat
  BY <1>1, WeightsOfQueue
<1>5. f \in [1 .. n + 1 -> Nat] /\ DOMAIN q = 1 .. n + 1 /\ Weights(q, w) \in Nat
  BY <1>1, WeightsOfQueue
<1>6. \A i \in 1 .. n : i + 1 \in 1 .. n + 1
  BY <1>1
<1>7. /\ \A i \in 1 .. n : g[i] = f[i + 1]
      /\ f[1] = w[Head(q)]
  BY <1>1, <1>2, <1>4, <1>5, <1>6
<1>8. Weights(q, w) = SumFunction(f) /\ Weights(r, w) = SumFunction(g)
  BY DEF Weights
<1> HIDE DEF f, g
<1>9. g \in [1 .. n -> Int] /\ f \in [1 .. n + 1 -> Int]
  BY <1>4, <1>5
<1>10. SumFunction(g) = SumFunction(f) - f[1]
  BY <1>1, <1>7, <1>9, SumOfTail
<1>11. w[Head(q)] \in Nat
  BY <1>3
<1>12. Weights(r, w) = Weights(q, w) - w[Head(q)]
  BY <1>7, <1>8, <1>10
<1>13. w[Head(q)] <= Weights(q, w)
  BY <1>4, <1>5, <1>11, <1>12
<1> QED BY <1>11, <1>12, <1>13 DEF r

-----------------------------------------------------------------------------
\* All sequences, if the empty one and each that is one element longer.
LEMMA AllSequences ==
  ASSUME NEW S, NEW T, <<>> \in T,
         \A s \in Seq(S) : \A e \in S : s \in T => Append(s, e) \in T
  PROVE  Seq(S) \subseteq T
<1> DEFINE N == {n \in Nat : \A s \in Seq(S) : Len(s) = n => s \in T}
<1>1. 0 \in N
  <2>1. ASSUME NEW s \in Seq(S), Len(s) = 0 PROVE s = <<>>
    BY <2>1
  <2> QED BY <2>1
<1>2. ASSUME NEW n \in N PROVE n + 1 \in N
  <2>1. ASSUME NEW s \in Seq(S), Len(s) = n + 1 PROVE s \in T
    <3> DEFINE r == SubSeq(s, 1, n)
    <3>1. r \in Seq(S) /\ Len(r) = n /\ s[n + 1] \in S
      BY <2>1
    <3>2. s = Append(r, s[n + 1])
      BY <2>1
    <3>3. r \in T
      BY <3>1
    <3> HIDE DEF r
    <3>4. Append(r, s[n + 1]) \in T
      BY <3>1, <3>3
    <3> QED BY <3>2, <3>4
  <2> QED BY <2>1
<1>3. N \in SUBSET Nat
  OBVIOUS
<1> HIDE DEF N
<1>4. N = Nat
  BY <1>1, <1>2, <1>3, AllNumbers
<1> QED BY <1>4 DEF N

\* The fold of Step over a sequence from the left.  Step may look at something
\* else, x, besides the result so far and the next element.
Folded(x, base, s) == FoldLeft(LAMBDA a, e : Step(x, a, e), base, s)

StepOver(x, base, s, t, g) == IF t = {} THEN base ELSE Step(x, g[t \ {Max(t)}], s[Max(t)])

IsRun(x, base, s, g) == g = [t \in SUBSET DOMAIN s |-> StepOver(x, base, s, t, g)]

Run(x, base, s) == CHOOSE g : IsRun(x, base, s, g)

LEMMA RunIsFold ==
  ASSUME NEW x, NEW base, NEW s
  PROVE  Folded(x, base, s) = Run(x, base, s)[DOMAIN s]
BY DEF Folded, FoldLeft, MapThenFoldSet, Run, IsRun, StepOver

LEMMA MaxIsElement ==
  ASSUME NEW t, IsFiniteSet(t), t \in SUBSET Nat, t # {}
  PROVE  Max(t) \in t /\ \A i \in t : i <= Max(t)
<1> DEFINE T == {u \in SUBSET t : u # {} => \E m \in u : \A i \in u : m >= i}
<1>1. {} \in T
  OBVIOUS
<1>2. ASSUME NEW u \in SUBSET t, u # {}, \A i \in u : u \ {i} \in T
      PROVE  u \in T
  <2>1. PICK i : i \in u
    BY <1>2
  <2>2. CASE u = {i}
    BY <2>1, <2>2
  <2>3. CASE u # {i}
    <3>1. PICK m \in u \ {i} : \A j \in u \ {i} : m >= j
      BY <1>2, <2>1, <2>3
    <3>2. CASE m >= i
      BY <3>1, <3>2
    <3>3. CASE ~(m >= i)
      <4>1. \A j \in u : i >= j
        BY <2>1, <3>1, <3>3
      <4> QED BY <2>1, <4>1
    <3> QED BY <3>2, <3>3
  <2> QED BY <2>2, <2>3
<1> HIDE DEF T
<1>3. \A u \in SUBSET t : u # {} /\ (\A i \in u : u \ {i} \in T) => u \in T
  BY <1>2, Zenon
<1>4. SUBSET t \subseteq T
  BY <1>1, <1>3, AllSubsets, Zenon
<1>5. t \in T
  BY <1>4
<1>6. \E m \in t : \A i \in t : m >= i
  BY <1>5 DEF T
<1>7. Max(t) \in t /\ \A i \in t : Max(t) >= i
  BY <1>6 DEF Max
<1> QED BY <1>7

\* The run as far as the sets of n elements.
IsRunUpTo(x, base, s, n, g) == g = [t \in Small(s, n) |-> StepOver(x, base, s, t, g)]

LEMMA SmallNumbers ==
  ASSUME NEW S, NEW s \in Seq(S), NEW n \in Nat, NEW t \in Small(s, n)
  PROVE  /\ IsFiniteSet(t) /\ Cardinality(t) \in Nat /\ Cardinality(t) <= n
         /\ t # {} => /\ Max(t) \in t /\ Cardinality(t \ {Max(t)}) = Cardinality(t) - 1
                      /\ \A k \in Nat : n <= k + 1 => t \ {Max(t)} \in Small(s, k)
<1>1. t \in SUBSET DOMAIN s /\ Cardinality(t) <= n /\ DOMAIN s = 1 .. Len(s) /\ Len(s) \in Nat
  BY DEF Small
<1>2. IsFiniteSet(DOMAIN s)
  BY <1>1, FS_Interval
<1>3. IsFiniteSet(t) /\ Cardinality(t) \in Nat
  BY <1>1, <1>2, FS_Subset, FS_CardinalityType
<1>4. ASSUME t # {}
      PROVE  /\ Max(t) \in t /\ Cardinality(t \ {Max(t)}) = Cardinality(t) - 1
             /\ \A k \in Nat : n <= k + 1 => t \ {Max(t)} \in Small(s, k)
  <2>1. t \in SUBSET Nat
    BY <1>1
  <2>2. Max(t) \in t
    BY <1>3, <1>4, <2>1, MaxIsElement
  <2>3. Cardinality(t \ {Max(t)}) = Cardinality(t) - 1
    BY <1>3, <2>2, FS_RemoveElement
  <2>4. t \ {Max(t)} \in SUBSET DOMAIN s
    BY <1>1
  <2>5. ASSUME NEW k \in Nat, n <= k + 1 PROVE t \ {Max(t)} \in Small(s, k)
    <3>1. Cardinality(t \ {Max(t)}) <= k
      BY <1>1, <1>3, <2>3, <2>5
    <3> QED BY <2>4, <3>1 DEF Small
  <2> QED BY <2>2, <2>3, <2>5
<1> QED BY <1>1, <1>3, <1>4

LEMMA RunOfNothing ==
  ASSUME NEW S, NEW x, NEW base, NEW s \in Seq(S)
  PROVE  \E g : IsRunUpTo(x, base, s, 0, g)
<1>1. ASSUME NEW t \in Small(s, 0) PROVE t = {}
  <2>1. IsFiniteSet(t) /\ Cardinality(t) \in Nat /\ Cardinality(t) <= 0
    BY SmallNumbers
  <2> QED BY <2>1, FS_EmptySet
<1> DEFINE g == [t \in Small(s, 0) |-> base]
           k == [t \in Small(s, 0) |-> StepOver(x, base, s, t, g)]
<1>2. \A t \in Small(s, 0) : g[t] = k[t]
  BY <1>1 DEF StepOver
<1>3. g = k
  BY <1>2
<1>4. IsRunUpTo(x, base, s, 0, g)
  <2> HIDE DEF g
  <2> QED BY <1>3 DEF IsRunUpTo
<1> QED BY <1>4

LEMMA RunOfOneMore ==
  ASSUME NEW S, NEW x, NEW base, NEW s \in Seq(S), NEW n \in Nat, NEW g,
         IsRunUpTo(x, base, s, n, g)
  PROVE  \E h : IsRunUpTo(x, base, s, n + 1, h)
<1> DEFINE h == [t \in Small(s, n + 1) |-> StepOver(x, base, s, t, g)]
<1>1. ASSUME NEW t \in Small(s, n) PROVE h[t] = g[t]
  <2>1. Cardinality(t) \in Nat /\ Cardinality(t) <= n /\ t \in SUBSET DOMAIN s
    BY SmallNumbers DEF Small
  <2>2. Cardinality(t) <= n + 1
    BY <2>1
  <2>3. t \in Small(s, n + 1)
    BY <2>1, <2>2 DEF Small
  <2>4. g[t] = StepOver(x, base, s, t, g)
    BY DEF IsRunUpTo
  <2> QED BY <2>3, <2>4
<1> DEFINE k == [t \in Small(s, n + 1) |-> StepOver(x, base, s, t, h)]
<1>2. ASSUME NEW t \in Small(s, n + 1) PROVE h[t] = k[t]
  <2>1. CASE t = {}
    BY <2>1 DEF StepOver
  <2>2. CASE t # {}
    <3>0. n + 1 \in Nat /\ n + 1 <= n + 1
      OBVIOUS
    <3>1. t \ {Max(t)} \in Small(s, n)
      <4> HIDE DEF h
      <4> QED BY <2>2, <3>0, SmallNumbers
    <3>2. h[t \ {Max(t)}] = g[t \ {Max(t)}]
      <4> HIDE DEF h
      <4> QED BY <1>1, <3>1
    <3>3. StepOver(x, base, s, t, h) = StepOver(x, base, s, t, g)
      <4> HIDE DEF h
      <4> QED BY <2>2, <3>2 DEF StepOver
    <3> QED BY <3>3
  <2> QED BY <2>1, <2>2
<1>3. h = k
  BY <1>2
<1>4. IsRunUpTo(x, base, s, n + 1, h)
  <2> HIDE DEF h
  <2> QED BY <1>3 DEF IsRunUpTo
<1> QED BY <1>4

LEMMA RunExists ==
  ASSUME NEW S, NEW x, NEW base, NEW s \in Seq(S)
  PROVE  \E g : IsRun(x, base, s, g)
<1> DEFINE N == {n \in Nat : \E g : IsRunUpTo(x, base, s, n, g)}
<1>1. 0 \in N
  BY RunOfNothing
<1>2. ASSUME NEW n \in N PROVE n + 1 \in N
  BY RunOfOneMore
<1>3. N \in SUBSET Nat
  OBVIOUS
<1>4. N = Nat
  <2> HIDE DEF N
  <2> QED BY <1>1, <1>2, <1>3, AllNumbers
<1>5. IsFiniteSet(DOMAIN s) /\ Cardinality(DOMAIN s) \in Nat
  <2>1. DOMAIN s = 1 .. Len(s) /\ Len(s) \in Nat
    OBVIOUS
  <2> QED BY <2>1, FS_Interval, FS_CardinalityType
<1>6. PICK g : IsRunUpTo(x, base, s, Cardinality(DOMAIN s), g)
  BY <1>4, <1>5
<1>7. Small(s, Cardinality(DOMAIN s)) = SUBSET DOMAIN s
  BY <1>5, SmallSets DEF Small
<1>8. IsRun(x, base, s, g)
  BY <1>6, <1>7 DEF IsRun, IsRunUpTo
<1> QED BY <1>8

LEMMA RunIs ==
  ASSUME NEW S, NEW x, NEW base, NEW s \in Seq(S), NEW t \in SUBSET DOMAIN s
  PROVE  Run(x, base, s)[t]
           = IF t = {} THEN base ELSE Step(x, Run(x, base, s)[t \ {Max(t)}], s[Max(t)])
<1>1. IsRun(x, base, s, Run(x, base, s))
  BY RunExists DEF Run
<1>2. Run(x, base, s)[t] = StepOver(x, base, s, t, Run(x, base, s))
  BY <1>1 DEF IsRun
<1> QED BY <1>2 DEF StepOver

\* The sets that a run goes through.
LEMMA RunSteps ==
  ASSUME NEW S, NEW x, NEW base, NEW s \in Seq(S)
  PROVE  /\ Run(x, base, s)[{}] = base
         /\ \A i \in 1 .. Len(s) :
              Run(x, base, s)[1 .. i] = Step(x, Run(x, base, s)[1 .. (i - 1)], s[i])
<1>1. Run(x, base, s)[{}] = base
  BY RunIs
<1>2. ASSUME NEW i \in 1 .. Len(s)
      PROVE  Run(x, base, s)[1 .. i] = Step(x, Run(x, base, s)[1 .. (i - 1)], s[i])
  <2> DEFINE t == 1 .. i
  <2>1. Len(s) \in Nat /\ DOMAIN s = 1 .. Len(s) /\ i \in Nat
    OBVIOUS
  <2>2. t \in SUBSET DOMAIN s /\ 1 \in t /\ t \in SUBSET Nat
    BY <2>1
  <2>3. IsFiniteSet(t)
    BY <2>1, FS_Interval
  <2>4. Max(t) = i
    <3>1. Max(t) \in t /\ \A j \in t : j <= Max(t)
      BY <2>2, <2>3, MaxIsElement
    <3>2. i <= Max(t)
      BY <2>1, <3>1
    <3> QED BY <2>1, <3>1, <3>2
  <2>5. t \ {i} = 1 .. (i - 1)
    BY <2>1
  <2> HIDE DEF t
  <2>6. Run(x, base, s)[t] = Step(x, Run(x, base, s)[t \ {Max(t)}], s[Max(t)])
    BY <2>2, RunIs
  <2>7. Run(x, base, s)[t] = Step(x, Run(x, base, s)[1 .. (i - 1)], s[i])
    BY <2>4, <2>5, <2>6
  <2> QED BY <2>7 DEF t
<1> QED BY <1>1, <1>2

LEMMA FoldedEmpty ==
  ASSUME NEW x, NEW base
  PROVE  Folded(x, base, <<>>) = base
<1>1. <<>> \in Seq(Nat) /\ DOMAIN <<>> = {}
  OBVIOUS
<1>2. ASSUME NEW s \in Seq(Nat) PROVE Run(x, base, s)[{}] = base
  BY RunSteps
<1> QED BY <1>1, <1>2, RunIsFold

LEMMA FoldedAppend ==
  ASSUME NEW S, NEW x, NEW base, NEW s \in Seq(S), NEW e \in S
  PROVE  Folded(x, base, Append(s, e)) = Step(x, Folded(x, base, s), e)
<1> DEFINE r == Append(s, e)
           n == Len(s)
           N == {i \in Nat : i <= n => Run(x, base, r)[1 .. i] = Run(x, base, s)[1 .. i]}
<1>1. n \in Nat /\ r \in Seq(S) /\ Len(r) = n + 1 /\ r[n + 1] = e /\ \A i \in 1 .. n : r[i] = s[i]
  OBVIOUS
<1>2. DOMAIN s = 1 .. n /\ DOMAIN r = 1 .. n + 1
  OBVIOUS
<1> HIDE DEF r, n
<1>3. Run(x, base, r)[{}] = base /\ Run(x, base, s)[{}] = base
  BY <1>1, RunSteps
<1>4. 0 \in N
  <2>1. 1 .. 0 = {}
    OBVIOUS
  <2> QED BY <1>3, <2>1
<1>5. ASSUME NEW i \in N PROVE i + 1 \in N
  <2>1. ASSUME i + 1 <= n PROVE Run(x, base, r)[1 .. (i + 1)] = Run(x, base, s)[1 .. (i + 1)]
    <3>1. i \in Nat /\ i <= n /\ i + 1 \in 1 .. n /\ i + 1 \in 1 .. n + 1 /\ (i + 1) - 1 = i
      BY <1>1, <2>1
    <3>2. Run(x, base, r)[1 .. i] = Run(x, base, s)[1 .. i] /\ r[i + 1] = s[i + 1]
      BY <1>1, <3>1
    <3>3. Run(x, base, s)[1 .. (i + 1)] = Step(x, Run(x, base, s)[1 .. ((i + 1) - 1)], s[i + 1])
      BY <3>1, RunSteps DEF n
    <3>4. Run(x, base, r)[1 .. (i + 1)] = Step(x, Run(x, base, r)[1 .. ((i + 1) - 1)], r[i + 1])
      BY <1>1, <3>1, RunSteps
    <3> QED BY <3>1, <3>2, <3>3, <3>4
  <2> QED BY <2>1
<1>6. N \in SUBSET Nat
  OBVIOUS
<1> HIDE DEF N
<1>7. N = Nat
  BY <1>4, <1>5, <1>6, AllNumbers
<1>8. Run(x, base, r)[1 .. n] = Run(x, base, s)[1 .. n]
  BY <1>1, <1>7 DEF N
<1>9. Run(x, base, r)[1 .. (n + 1)] = Step(x, Run(x, base, r)[1 .. ((n + 1) - 1)], r[n + 1])
  <2>1. n + 1 \in 1 .. Len(r)
    BY <1>1
  <2> QED BY <1>1, <2>1, RunSteps
<1>10. (n + 1) - 1 = n
  BY <1>1
<1>11. Run(x, base, r)[1 .. (n + 1)] = Step(x, Run(x, base, s)[1 .. n], e)
  BY <1>1, <1>8, <1>9, <1>10
<1>12. Folded(x, base, s) = Run(x, base, s)[1 .. n] /\ Folded(x, base, r) = Run(x, base, r)[1 .. n + 1]
  BY <1>2, RunIsFold
<1> QED BY <1>11, <1>12 DEF r

LEMMA FoldedJoined ==
  ASSUME NEW S, NEW x, NEW base, NEW s \in Seq(S), NEW t \in Seq(S)
  PROVE  Folded(x, base, s \o t) = Folded(x, Folded(x, base, s), t)
<1> DEFINE T == {u \in Seq(S) : Folded(x, base, s \o u) = Folded(x, Folded(x, base, s), u)}
<1>1. <<>> \in T
  <2>1. s \o <<>> = s /\ <<>> \in Seq(S)
    OBVIOUS
  <2> QED BY <2>1, FoldedEmpty
<1>2. ASSUME NEW u \in Seq(S), NEW e \in S, u \in T PROVE Append(u, e) \in T
  <2>1. s \o Append(u, e) = Append(s \o u, e) /\ s \o u \in Seq(S) /\ Append(u, e) \in Seq(S)
    OBVIOUS
  <2>2. Folded(x, base, Append(s \o u, e)) = Step(x, Folded(x, base, s \o u), e)
    <3> DEFINE r == s \o u
    <3>1. r \in Seq(S)
      BY <2>1
    <3> HIDE DEF r, T
    <3>2. Folded(x, base, Append(r, e)) = Step(x, Folded(x, base, r), e)
      BY <3>1, FoldedAppend
    <3> QED BY <3>2 DEF r
  <2>3. Folded(x, Folded(x, base, s), Append(u, e)) = Step(x, Folded(x, Folded(x, base, s), u), e)
    BY FoldedAppend
  <2> QED BY <1>2, <2>1, <2>2, <2>3
<1> HIDE DEF T
<1>3. Seq(S) \subseteq T
  BY <1>1, <1>2, AllSequences
<1> QED BY <1>3 DEF T

\* What Step preserves, its fold does.
LEMMA FoldedIn ==
  ASSUME NEW S, NEW T, NEW x, NEW base \in T, NEW s \in Seq(S),
         \A a \in T : \A e \in S : Step(x, a, e) \in T
  PROVE  Folded(x, base, s) \in T
<1> DEFINE U == {u \in Seq(S) : Folded(x, base, u) \in T}
<1>1. <<>> \in U
  <2>1. <<>> \in Seq(S)
    OBVIOUS
  <2> QED BY <2>1, FoldedEmpty
<1>2. ASSUME NEW u \in Seq(S), NEW e \in S, u \in U PROVE Append(u, e) \in U
  BY <1>2, FoldedAppend
<1> HIDE DEF U
<1>3. Seq(S) \subseteq U
  BY <1>1, <1>2, AllSequences
<1> QED BY <1>3 DEF U
=============================================================================
