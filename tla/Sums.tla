-------------------------------- MODULE Sums --------------------------------
(***************************************************************************)
(* Sums over finite sets, for the proofs about engines and decimals.       *)
(*                                                                         *)
(* The sums of the models are folds over sets, defined by recursion.  What *)
(* they amount to is proved without an induction schema: a set of          *)
(* counterexamples has a least element, and there is none.  SetInduction   *)
(* packs that argument for a family of sets given as a set.                *)
(***************************************************************************)
EXTENDS Integers, FiniteSets, FiniteSetsExt, TLAPS, FiniteSetTheorems,
        WellFoundedInduction

-----------------------------------------------------------------------------
(* Induction over numbers and finite sets *)

\* A nonempty set of numbers has a least one.
LEMMA FirstOf ==
  ASSUME NEW S \in SUBSET Nat, S # {}
  PROVE  \E x \in S : \A y \in S : x <= y
<1> DEFINE R == OpToRel(<, Nat)
<1>1. ASSUME NEW x \in Nat, NEW y \in Nat, y < x
      PROVE  <<y, x>> \in R
  BY <1>1, Zenon DEF OpToRel
<1>2. IsWellFoundedOn(R, Nat)
  BY NatLessThanWellFounded
<1> HIDE DEF R
<1>3. PICK x \in S : \A y \in S : <<y, x>> \notin R
  BY <1>2, WFMin
<1>4. \A y \in S : x <= y
  <2> SUFFICES ASSUME NEW y \in S, y < x PROVE FALSE
    OBVIOUS
  <2> QED
    BY <1>1, <1>3
<1> QED
  BY <1>4

\* A bounded one has a greatest.
LEMMA LastIsThere ==
  ASSUME NEW n \in Nat, NEW S \in SUBSET (1..n), S # {}
  PROVE  Max(S) \in S /\ \A y \in S : y <= Max(S)
<1> DEFINE Below == {n - x : x \in S}
<1>1. Below \in SUBSET Nat /\ Below # {}
  <2>1. \A x \in S : n - x \in Nat
    OBVIOUS
  <2> QED
    BY <2>1, Zenon
<1>2. PICK d \in Below : \A e \in Below : d <= e
  BY <1>1, FirstOf
<1>3. PICK x \in S : d = n - x
  BY <1>2
<1>4. \A y \in S : x >= y
  <2> SUFFICES ASSUME NEW y \in S PROVE x >= y
    OBVIOUS
  <2>1. d <= n - y
    BY <1>2
  <2>2. x \in 1..n /\ y \in 1..n
    OBVIOUS
  <2> QED
    BY <1>3, <2>1, <2>2
<1>5. \E m \in S : \A y \in S : m >= y
  BY <1>4
<1>6. Max(S) \in S /\ \A y \in S : Max(S) >= y
  BY <1>5, Zenon DEF Max
<1> QED
  BY <1>6

\* What holds of 0 and of each successor holds of every number.
LEMMA NumberInduction ==
  ASSUME NEW P \in SUBSET Nat, 0 \in P, \A n \in P : n + 1 \in P
  PROVE  \A n \in Nat : n \in P
<1> SUFFICES ASSUME Nat \ P # {} PROVE FALSE
  OBVIOUS
<1>1. PICK n \in Nat \ P : \A m \in Nat \ P : n <= m
  BY FirstOf
<1>2. n # 0
  BY <1>1
<1>3. n - 1 \in Nat /\ ~(n <= n - 1) /\ (n - 1) + 1 = n
  BY <1>1, <1>2
<1>4. n - 1 \in P
  BY <1>1, <1>3
<1> QED
  BY <1>1, <1>3, <1>4

\* What holds of the empty set and of one element more holds of a finite set.
LEMMA SetInduction ==
  ASSUME NEW S, IsFiniteSet(S), NEW P, {} \in P,
         \A s \in SUBSET S : \A x \in S \ s : s \in P => s \cup {x} \in P
  PROVE  S \in P
<1> DEFINE N == {n \in Nat : \A s \in SUBSET S : Cardinality(s) = n => s \in P}
<1>1. 0 \in N
  <2> SUFFICES ASSUME NEW s \in SUBSET S, Cardinality(s) = 0 PROVE s \in P
    OBVIOUS
  <2>1. IsFiniteSet(s)
    BY FS_Subset
  <2>2. s = {}
    BY <2>1, FS_EmptySet
  <2> QED
    BY <2>2
<1>2. ASSUME NEW n \in N PROVE n + 1 \in N
  <2>1. n \in Nat /\ n + 1 \in Nat
    OBVIOUS
  <2> SUFFICES ASSUME NEW s \in SUBSET S, Cardinality(s) = n + 1 PROVE s \in P
    BY <2>1
  <2>2. IsFiniteSet(s)
    BY FS_Subset
  <2>3. s # {}
    <3> SUFFICES ASSUME s = {} PROVE FALSE
      OBVIOUS
    <3>1. Cardinality(s) = 0
      BY FS_EmptySet
    <3> QED
      BY <2>1, <3>1
  <2>4. PICK x \in s : TRUE
    BY <2>3
  <2> DEFINE r == s \ {x}
  <2>5. Cardinality(r) = Cardinality(s) - 1
    BY <2>2, <2>4, FS_RemoveElement
  <2>6. Cardinality(r) = n
    BY <2>1, <2>5
  <2>7. r \in P
    BY <2>6
  <2>8. x \in S \ r /\ r \in SUBSET S /\ r \cup {x} = s
    BY <2>4
  <2> HIDE DEF r
  <2> QED
    BY <2>7, <2>8
<1>3. N \in SUBSET Nat
  OBVIOUS
<1> HIDE DEF N
<1>4. \A n \in Nat : n \in N
  BY <1>1, <1>2, <1>3, NumberInduction
<1>5. Cardinality(S) \in Nat
  BY FS_CardinalityType
<1>6. Cardinality(S) \in N /\ S \in SUBSET S
  BY <1>4, <1>5
<1> QED
  BY <1>6, Zenon DEF N

-----------------------------------------------------------------------------
(* Sums: g is a function, so that a lemma can be stated for every g *)

PickOf(s) == CHOOSE x \in s : TRUE

\* One step of the fold: an element, and the sum of the others.
SumBody(it, s, g) == IF s = {} THEN 0 ELSE g[PickOf(s)] + it[s \ {PickOf(s)}]

IsSum(it, S, g) == it = [s \in SUBSET S |-> SumBody(it, s, g)]

Total(S, g) == (CHOOSE it : IsSum(it, S, g))[S]

Numbers(S, g) == IsFiniteSet(S) /\ \A x \in S : g[x] \in Int

\* The element picked from a set is one of it.
LEMMA PickIn ==
  ASSUME NEW s, s # {}
  PROVE  PickOf(s) \in s
<1>1. \E x \in s : TRUE
  OBVIOUS
<1> QED
  BY <1>1, Zenon DEF PickOf

\* There is a function as the fold defines it: one for the sets of up to n
\* elements, for every n.
LEMMA SumExists ==
  ASSUME NEW S, NEW g, Numbers(S, g)
  PROVE  \E it \in [SUBSET S -> Int] : IsSum(it, S, g)
<1> DEFINE Good(it, n) ==
             \A s \in SUBSET S : Cardinality(s) <= n => it[s] = SumBody(it, s, g)
           N == {n \in Nat : \E it \in [SUBSET S -> Int] : Good(it, n)}
<1>1. \A s \in SUBSET S : IsFiniteSet(s) /\ Cardinality(s) \in Nat
  BY FS_Subset, FS_CardinalityType DEF Numbers
<1>2. \A s \in SUBSET S : s # {} =>
        /\ PickOf(s) \in S /\ g[PickOf(s)] \in Int
        /\ s \ {PickOf(s)} \in SUBSET S
        /\ Cardinality(s \ {PickOf(s)}) = Cardinality(s) - 1
  <2> SUFFICES ASSUME NEW s \in SUBSET S, s # {}
               PROVE  /\ PickOf(s) \in S /\ g[PickOf(s)] \in Int
                      /\ s \ {PickOf(s)} \in SUBSET S
                      /\ Cardinality(s \ {PickOf(s)}) = Cardinality(s) - 1
    OBVIOUS
  <2>1. PickOf(s) \in s
    BY PickIn
  <2>2. Cardinality(s \ {PickOf(s)}) = Cardinality(s) - 1
    BY <1>1, <2>1, FS_RemoveElement
  <2>3. g[PickOf(s)] \in Int
    BY <2>1 DEF Numbers
  <2> QED
    BY <2>1, <2>2, <2>3
<1>3. 0 \in N
  <2> DEFINE it == [s \in SUBSET S |-> 0]
  <2>1. it \in [SUBSET S -> Int]
    OBVIOUS
  <2>2. ASSUME NEW s \in SUBSET S, Cardinality(s) <= 0
        PROVE  it[s] = SumBody(it, s, g)
    <3>1. Cardinality(s) = 0
      BY <1>1, <2>2
    <3>2. s = {}
      BY <1>1, <3>1, FS_EmptySet
    <3> QED
      BY <3>2 DEF SumBody
  <2>3. Good(it, 0)
    BY <2>2
  <2> HIDE DEF it, Good
  <2> QED
    BY <2>1, <2>3
<1>4. ASSUME NEW n \in N PROVE n + 1 \in N
  <2>1. n \in Nat /\ n + 1 \in Nat
    OBVIOUS
  <2>2. PICK it \in [SUBSET S -> Int] : Good(it, n)
    OBVIOUS
  <2> DEFINE up == [s \in SUBSET S |-> SumBody(it, s, g)]
  <2>3. up \in [SUBSET S -> Int]
    <3>1. \A s \in SUBSET S : SumBody(it, s, g) \in Int
      <4> SUFFICES ASSUME NEW s \in SUBSET S PROVE SumBody(it, s, g) \in Int
        OBVIOUS
      <4> DEFINE x == g[PickOf(s)]
                 y == it[s \ {PickOf(s)}]
      <4>1. s # {} => x \in Int /\ y \in Int
        BY <1>2
      <4>2. SumBody(it, s, g) = IF s = {} THEN 0 ELSE x + y
        BY Zenon DEF SumBody
      <4> HIDE DEF x, y
      <4> QED
        BY <4>1, <4>2
    <3> QED
      BY <3>1
  <2>4. ASSUME NEW s \in SUBSET S, Cardinality(s) <= n + 1
        PROVE  up[s] = SumBody(up, s, g)
    <3>1. CASE s = {}
      BY <3>1 DEF SumBody
    <3>2. CASE s # {}
      <4> DEFINE r == s \ {PickOf(s)}
      <4>1. r \in SUBSET S /\ Cardinality(r) <= n
        BY <1>1, <1>2, <2>1, <2>4, <3>2
      <4> HIDE DEF r
      <4>2. it[r] = SumBody(it, r, g)
        BY <2>2, <4>1
      <4>3. up[r] = it[r]
        BY <4>1, <4>2
      <4>4. up[s] = g[PickOf(s)] + it[r] /\ SumBody(up, s, g) = g[PickOf(s)] + up[r]
        BY <3>2, Zenon DEF SumBody, r
      <4> QED
        BY <4>3, <4>4, Zenon
    <3> QED
      BY <3>1, <3>2
  <2>5. Good(up, n + 1)
    BY <2>4
  <2> HIDE DEF up, Good
  <2> QED
    BY <2>1, <2>3, <2>5
<1>5. N \in SUBSET Nat
  OBVIOUS
<1> HIDE DEF N
<1>6. \A n \in Nat : n \in N
  BY <1>3, <1>4, <1>5, NumberInduction
<1>7. Cardinality(S) \in Nat
  BY <1>1
<1>8. PICK it \in [SUBSET S -> Int] : Good(it, Cardinality(S))
  BY <1>6, <1>7, Zenon DEF N
<1>9. \A s \in SUBSET S : it[s] = SumBody(it, s, g)
  <2> SUFFICES ASSUME NEW s \in SUBSET S PROVE it[s] = SumBody(it, s, g)
    OBVIOUS
  <2>1. Cardinality(s) <= Cardinality(S)
    BY FS_Subset DEF Numbers
  <2> QED
    BY <1>8, <2>1
<1>10. it = [s \in SUBSET S |-> it[s]]
  OBVIOUS
<1>11. IsSum(it, S, g)
  BY <1>9, <1>10, Zenon DEF IsSum
<1> QED
  BY <1>11

\* Two such functions agree where what they add does.
LEMMA SumLocal ==
  ASSUME NEW S, IsFiniteSet(S), NEW T, S \subseteq T, NEW it, NEW up, NEW g, NEW h,
         IsSum(it, S, g), IsSum(up, T, h), \A x \in S : g[x] = h[x]
  PROVE  it[S] = up[S]
<1> DEFINE N == {n \in Nat : \A s \in SUBSET S : Cardinality(s) = n => it[s] = up[s]}
<1>1. \A s \in SUBSET S : it[s] = SumBody(it, s, g) /\ up[s] = SumBody(up, s, h)
  <2>1. \A s \in SUBSET S : s \in SUBSET T
    OBVIOUS
  <2> QED
    BY <2>1, Zenon DEF IsSum
<1>2. \A s \in SUBSET S : IsFiniteSet(s) /\ Cardinality(s) \in Nat
  BY FS_Subset, FS_CardinalityType
<1>3. 0 \in N
  <2> SUFFICES ASSUME NEW s \in SUBSET S, Cardinality(s) = 0 PROVE it[s] = up[s]
    OBVIOUS
  <2>1. s = {}
    BY <1>2, FS_EmptySet
  <2> QED
    BY <1>1, <2>1, Zenon DEF SumBody
<1>4. ASSUME NEW n \in N PROVE n + 1 \in N
  <2>1. n \in Nat /\ n + 1 \in Nat
    OBVIOUS
  <2> SUFFICES ASSUME NEW s \in SUBSET S, Cardinality(s) = n + 1 PROVE it[s] = up[s]
    BY <2>1
  <2>2. s # {}
    <3> SUFFICES ASSUME s = {} PROVE FALSE
      OBVIOUS
    <3>1. Cardinality(s) = 0
      BY FS_EmptySet
    <3> QED
      BY <2>1, <3>1
  <2> DEFINE x == PickOf(s)
             r == s \ {x}
  <2>3. x \in s
    BY <2>2, PickIn
  <2>4. Cardinality(r) = Cardinality(s) - 1
    BY <1>2, <2>3, FS_RemoveElement
  <2>5. Cardinality(r) = n
    BY <2>1, <2>4
  <2>6. it[r] = up[r]
    BY <2>5
  <2>7. g[x] = h[x]
    BY <2>3
  <2>8. it[s] = g[x] + it[r] /\ up[s] = h[x] + up[r]
    BY <1>1, <2>2, Zenon DEF SumBody
  <2> HIDE DEF x, r
  <2> QED
    BY <2>6, <2>7, <2>8, Zenon
<1>5. N \in SUBSET Nat
  OBVIOUS
<1> HIDE DEF N
<1>6. \A n \in Nat : n \in N
  BY <1>3, <1>4, <1>5, NumberInduction
<1>7. Cardinality(S) \in N /\ S \in SUBSET S
  BY <1>2, <1>6
<1> QED
  BY <1>7, Zenon DEF N

\* A sum is that of any such function, and depends on what it adds only.
LEMMA TotalFrom ==
  ASSUME NEW S, NEW g, Numbers(S, g), NEW T, S \subseteq T, NEW h, NEW it,
         IsSum(it, T, h), \A x \in S : g[x] = h[x]
  PROVE  Total(S, g) = it[S]
<1>1. \E own : IsSum(own, S, g)
  BY SumExists, Zenon
<1> DEFINE own == CHOOSE own : IsSum(own, S, g)
<1>2. IsSum(own, S, g)
  BY <1>1
<1> HIDE DEF own
<1>3. own[S] = it[S]
  BY <1>2, SumLocal DEF Numbers
<1> QED
  BY <1>3, Zenon DEF Total, own

\* Equal terms, equal sums.
LEMMA TotalCongruence ==
  ASSUME NEW S, NEW g, NEW h, Numbers(S, g), \A x \in S : g[x] = h[x]
  PROVE  Total(S, g) = Total(S, h)
<1>1. Numbers(S, h)
  BY DEF Numbers
<1>2. PICK it \in [SUBSET S -> Int] : IsSum(it, S, h)
  BY <1>1, SumExists
<1>3. Total(S, g) = it[S]
  BY <1>2, TotalFrom
<1>4. Total(S, h) = it[S]
  BY <1>1, <1>2, TotalFrom
<1> QED
  BY <1>3, <1>4

\* Whichever element is taken first, the sum is the same.
LEMMA SumRemove ==
  ASSUME NEW S, NEW g, Numbers(S, g), NEW it, it \in [SUBSET S -> Int],
         IsSum(it, S, g)
  PROVE  \A z \in S : it[S] = g[z] + it[S \ {z}]
<1> DEFINE N == {n \in Nat : \A s \in SUBSET S : Cardinality(s) = n =>
                   \A x \in s : it[s] = g[x] + it[s \ {x}]}
<1>1. \A s \in SUBSET S : it[s] = SumBody(it, s, g)
  BY Zenon DEF IsSum
<1>2. \A s \in SUBSET S : IsFiniteSet(s) /\ Cardinality(s) \in Nat
  BY FS_Subset, FS_CardinalityType DEF Numbers
<1>3. 0 \in N
  <2> SUFFICES ASSUME NEW s \in SUBSET S, Cardinality(s) = 0, NEW x \in s PROVE FALSE
    OBVIOUS
  <2>1. s = {}
    BY <1>2, FS_EmptySet
  <2> QED
    BY <2>1
<1>4. ASSUME NEW n \in N PROVE n + 1 \in N
  <2>1. n \in Nat /\ n + 1 \in Nat
    OBVIOUS
  <2> SUFFICES ASSUME NEW s \in SUBSET S, Cardinality(s) = n + 1, NEW x \in s
               PROVE  it[s] = g[x] + it[s \ {x}]
    BY <2>1
  <2> DEFINE y == PickOf(s)
             sx == s \ {x}
             sy == s \ {y}
             sxy == (s \ {x}) \ {y}
  <2>2. y \in s /\ s # {}
    BY PickIn
  <2>3. it[s] = g[y] + it[sy]
    BY <1>1, <2>2, Zenon DEF SumBody
  <2>4. CASE x = y
    BY <2>3, <2>4
  <2>5. CASE x # y
    <3>1. Cardinality(sx) = n /\ Cardinality(sy) = n
      <4>1. Cardinality(sx) = Cardinality(s) - 1 /\ Cardinality(sy) = Cardinality(s) - 1
        BY <1>2, <2>2, FS_RemoveElement
      <4> QED
        BY <2>1, <4>1
    <3>2. sx \in SUBSET S /\ sy \in SUBSET S /\ y \in sx /\ x \in sy /\ sy \ {x} = sxy
      BY <2>2, <2>5
    <3>3. it[sx] = g[y] + it[sxy] /\ it[sy] = g[x] + it[sxy]
      <4>1. \A r \in SUBSET S : Cardinality(r) = n => \A u \in r : it[r] = g[u] + it[r \ {u}]
        OBVIOUS
      <4>2. sx \ {y} = sxy
        OBVIOUS
      <4> HIDE DEF N, y, sx, sy, sxy
      <4>3. it[sx] = g[y] + it[sx \ {y}]
        BY <3>1, <3>2, <4>1
      <4>4. it[sy] = g[x] + it[sy \ {x}]
        BY <3>1, <3>2, <4>1
      <4> QED
        BY <3>2, <4>2, <4>3, <4>4
    <3>4. g[x] \in Int /\ g[y] \in Int /\ it[sxy] \in Int
      BY <2>2 DEF Numbers
    <3> HIDE DEF y, sx, sy, sxy
    <3>5. it[s] = g[x] + it[sx]
      BY <2>3, <3>3, <3>4
    <3> QED
      BY <3>5, Zenon DEF sx
  <2> QED
    BY <2>4, <2>5
<1>5. N \in SUBSET Nat
  OBVIOUS
<1> HIDE DEF N
<1>6. \A n \in Nat : n \in N
  BY <1>3, <1>4, <1>5, NumberInduction
<1>7. Cardinality(S) \in N /\ S \in SUBSET S
  BY <1>2, <1>6
<1> QED
  BY <1>7, Zenon DEF N

\* The sum of nothing.
LEMMA TotalEmpty == \A g : Total({}, g) = 0
<1> SUFFICES ASSUME NEW g PROVE Total({}, g) = 0
  OBVIOUS
<1>1. Numbers({}, g)
  BY FS_EmptySet DEF Numbers
<1>2. PICK it \in [SUBSET {} -> Int] : IsSum(it, {}, g)
  BY <1>1, SumExists
<1>3. Total({}, g) = it[{}]
  BY <1>1, <1>2, TotalFrom
<1>4. it[{}] = 0
  <2>1. {} \in SUBSET {}
    OBVIOUS
  <2> QED
    BY <1>2, <2>1, Zenon DEF IsSum, SumBody
<1> QED
  BY <1>3, <1>4

\* A sum of numbers is one.
LEMMA TotalType ==
  ASSUME NEW S, NEW g, Numbers(S, g)
  PROVE  Total(S, g) \in Int
<1>1. PICK it \in [SUBSET S -> Int] : IsSum(it, S, g)
  BY SumExists
<1>2. Total(S, g) = it[S]
  BY <1>1, TotalFrom
<1> QED
  BY <1>1, <1>2

\* A sum, less one of its terms.
LEMMA TotalRemove ==
  ASSUME NEW S, NEW g, Numbers(S, g), NEW x \in S
  PROVE  /\ Numbers(S \ {x}, g)
         /\ Total(S, g) = Total(S \ {x}, g) + g[x]
<1>1. Numbers(S \ {x}, g)
  <2>1. IsFiniteSet(S \ {x})
    BY FS_RemoveElement DEF Numbers
  <2> QED
    BY <2>1 DEF Numbers
<1>2. PICK it \in [SUBSET S -> Int] : IsSum(it, S, g)
  BY SumExists
<1>3. Total(S, g) = it[S]
  BY <1>2, TotalFrom
<1>4. Total(S \ {x}, g) = it[S \ {x}]
  BY <1>1, <1>2, TotalFrom
<1>5. it[S] = g[x] + it[S \ {x}]
  <2>1. \A z \in S : it[S] = g[z] + it[S \ {z}]
    BY <1>2, SumRemove
  <2> QED
    BY <2>1
<1>6. g[x] \in Int /\ it[S \ {x}] \in Int
  BY DEF Numbers
<1> QED
  BY <1>1, <1>3, <1>4, <1>5, <1>6

\* A sum, with one more term.
LEMMA TotalAdd ==
  ASSUME NEW S, NEW x, x \notin S, NEW g, Numbers(S, g), g[x] \in Int
  PROVE  /\ Numbers(S \cup {x}, g)
         /\ Total(S \cup {x}, g) = Total(S, g) + g[x]
<1>1. Numbers(S \cup {x}, g)
  <2>1. IsFiniteSet(S \cup {x})
    BY FS_AddElement DEF Numbers
  <2> QED
    BY <2>1 DEF Numbers
<1>2. (S \cup {x}) \ {x} = S /\ x \in S \cup {x}
  OBVIOUS
<1> DEFINE T == S \cup {x}
<1> HIDE DEF T
<1>3. Total(T, g) = Total(T \ {x}, g) + g[x]
  BY <1>1, <1>2, TotalRemove DEF T
<1> QED
  BY <1>1, <1>2, <1>3 DEF T

\* h renames the terms g of S to the terms f of T, each to one of its own.
Renames(h, S, g, T, f) ==
  /\ IsFiniteSet(S)
  /\ T = {h[x] : x \in S}
  /\ \A x \in S : f[h[x]] \in Int /\ g[x] = f[h[x]]
  /\ \A x, y \in S : h[x] = h[y] => x = y

\* The same terms under other names have the same sum.
LEMMA TotalReindex ==
  ASSUME NEW S, NEW g, NEW T, NEW f, NEW h, Renames(h, S, g, T, f)
  PROVE  Total(S, g) = Total(T, f)
<1>0. /\ IsFiniteSet(S)
      /\ T = {h[x] : x \in S}
      /\ \A x \in S : f[h[x]] \in Int /\ g[x] = f[h[x]]
      /\ \A x, y \in S : h[x] = h[y] => x = y
  BY Zenon DEF Renames
<1> DEFINE Image(s) == {h[x] : x \in s}
           P == {s \in SUBSET S : Numbers(Image(s), f) /\ Total(s, g) = Total(Image(s), f)}
<1>1. {} \in P
  <2>1. Image({}) = {}
    OBVIOUS
  <2>2. Numbers({}, f)
    BY FS_EmptySet DEF Numbers
  <2>3. Total({}, g) = Total({}, f)
    BY TotalEmpty
  <2> HIDE DEF Image
  <2> QED
    BY <2>1, <2>2, <2>3
<1>2. ASSUME NEW s \in SUBSET S, NEW x \in S \ s, s \in P
      PROVE  s \cup {x} \in P
  <2>1. Numbers(Image(s), f) /\ Total(s, g) = Total(Image(s), f)
    BY <1>2
  <2>2. Image(s \cup {x}) = Image(s) \cup {h[x]} /\ h[x] \notin Image(s)
    BY <1>0
  <2>3. f[h[x]] \in Int /\ g[x] = f[h[x]] /\ x \notin s
    BY <1>0
  <2>4. Numbers(s, g)
    BY <1>0, FS_Subset DEF Numbers
  <2> HIDE DEF Image
  <2>5. /\ Numbers(Image(s) \cup {h[x]}, f)
        /\ Total(Image(s) \cup {h[x]}, f) = Total(Image(s), f) + f[h[x]]
    <3> DEFINE U == Image(s)
               y == h[x]
    <3>1. Numbers(U, f) /\ y \notin U /\ f[y] \in Int
      BY <2>1, <2>2, <2>3, Zenon
    <3> HIDE DEF U, y
    <3>2. Numbers(U \cup {y}, f) /\ Total(U \cup {y}, f) = Total(U, f) + f[y]
      BY <3>1, TotalAdd
    <3> QED
      BY <3>2, Zenon DEF U, y
  <2>6. Total(s \cup {x}, g) = Total(s, g) + g[x]
    BY <2>3, <2>4, TotalAdd
  <2>7. s \cup {x} \in SUBSET S
    OBVIOUS
  <2> QED
    BY <2>1, <2>2, <2>3, <2>5, <2>6, <2>7
<1> HIDE DEF P
<1>3. S \in P
  BY <1>0, <1>1, <1>2, SetInduction
<1> QED
  BY <1>0, <1>3 DEF P

\* Smaller terms have a smaller sum.
LEMMA TotalBounds ==
  ASSUME NEW S, NEW g, NEW f, NEW k \in Nat, Numbers(S, g), Numbers(S, f),
         \A x \in S : 0 <= g[x] /\ g[x] <= k * f[x]
  PROVE  0 <= Total(S, g) /\ Total(S, g) <= k * Total(S, f)
<1> DEFINE P == {s \in SUBSET S : 0 <= Total(s, g) /\ Total(s, g) <= k * Total(s, f)}
<1>1. {} \in P
  BY TotalEmpty
<1>2. ASSUME NEW s \in SUBSET S, NEW x \in S \ s, s \in P
      PROVE  s \cup {x} \in P
  <2>1. Numbers(s, g) /\ Numbers(s, f) /\ g[x] \in Int /\ f[x] \in Int /\ x \notin s
    BY FS_Subset DEF Numbers
  <2>2. /\ Total(s \cup {x}, g) = Total(s, g) + g[x]
        /\ Total(s \cup {x}, f) = Total(s, f) + f[x]
    BY <2>1, TotalAdd
  <2>3. Total(s, g) \in Int /\ Total(s, f) \in Int
    BY <2>1, TotalType
  <2>4. 0 <= Total(s, g) /\ Total(s, g) <= k * Total(s, f)
    BY <1>2
  <2>5. 0 <= g[x] /\ g[x] <= k * f[x]
    OBVIOUS
  <2>6. k * (Total(s, f) + f[x]) = k * Total(s, f) + k * f[x]
    BY <2>1, <2>3
  <2>7. k * Total(s, f) \in Int /\ k * f[x] \in Int
    BY <2>1, <2>3
  <2> DEFINE a == Total(s, g)
             b == k * Total(s, f)
             c == g[x]
             d == k * f[x]
  <2>8. 0 <= a + c /\ a + c <= b + d
    <3>1. a \in Int /\ b \in Int /\ c \in Int /\ d \in Int
      BY <2>1, <2>3, <2>7
    <3>2. 0 <= a /\ a <= b /\ 0 <= c /\ c <= d
      BY <2>4, <2>5
    <3> HIDE DEF a, b, c, d
    <3> QED
      BY <3>1, <3>2
  <2>9. 0 <= Total(s \cup {x}, g) /\ Total(s \cup {x}, g) <= k * Total(s \cup {x}, f)
    BY <2>2, <2>6, <2>8, Zenon
  <2> QED
    BY <2>9
<1> HIDE DEF P
<1>3. S \in P
  BY <1>1, <1>2, SetInduction DEF Numbers
<1> QED
  BY <1>3 DEF P

\* No term exceeds the sum of terms that are not negative.
LEMMA TermInTotal ==
  ASSUME NEW S, NEW g, Numbers(S, g), \A x \in S : 0 <= g[x], NEW z \in S
  PROVE  g[z] <= Total(S, g)
<1>1. Numbers(S \ {z}, g) /\ Total(S, g) = Total(S \ {z}, g) + g[z]
  BY TotalRemove
<1>2. \A x \in S \ {z} : 0 <= g[x] /\ g[x] <= 1 * g[x]
  BY DEF Numbers
<1>3. 0 <= Total(S \ {z}, g)
  BY <1>1, <1>2, TotalBounds
<1>4. Total(S \ {z}, g) \in Int /\ g[z] \in Int
  BY <1>1, TotalType DEF Numbers
<1> QED
  BY <1>1, <1>3, <1>4

\* Every term k times as large: so is the sum.
LEMMA TotalScale ==
  ASSUME NEW S, NEW g, NEW h, Numbers(S, g), NEW k \in Int,
         \A x \in S : h[x] = k * g[x]
  PROVE  /\ Numbers(S, h)
         /\ Total(S, h) = k * Total(S, g)
<1>1. Numbers(S, h)
  BY DEF Numbers
<1> DEFINE P == {s \in SUBSET S : Total(s, h) = k * Total(s, g)}
<1>2. {} \in P
  BY TotalEmpty
<1>3. ASSUME NEW s \in SUBSET S, NEW x \in S \ s, s \in P
      PROVE  s \cup {x} \in P
  <2>1. /\ Numbers(s, g) /\ Numbers(s, h) /\ x \notin s
        /\ g[x] \in Int /\ h[x] \in Int /\ h[x] = k * g[x]
    BY <1>1, FS_Subset DEF Numbers
  <2>2. /\ Total(s \cup {x}, g) = Total(s, g) + g[x]
        /\ Total(s \cup {x}, h) = Total(s, h) + h[x]
    BY <2>1, TotalAdd
  <2>3. Total(s, g) \in Int
    BY <2>1, TotalType
  <2>4. Total(s, h) = k * Total(s, g)
    BY <1>3
  <2>5. k * (Total(s, g) + g[x]) = k * Total(s, g) + k * g[x]
    BY <2>1, <2>3
  <2>6. Total(s \cup {x}, h) = k * Total(s \cup {x}, g)
    BY <2>1, <2>2, <2>4, <2>5, Zenon
  <2> QED
    BY <2>6
<1> HIDE DEF P
<1>4. S \in P
  BY <1>2, <1>3, SetInduction DEF Numbers
<1> QED
  BY <1>1, <1>4 DEF P

\* The sum over two sets apart is the sum of their sums.
LEMMA TotalUnion ==
  ASSUME NEW S, NEW T, \A x \in S : x \notin T, NEW g, Numbers(S, g), Numbers(T, g)
  PROVE  /\ Numbers(S \cup T, g)
         /\ Total(S \cup T, g) = Total(S, g) + Total(T, g)
<1> DEFINE P == {s \in SUBSET T : /\ Numbers(S \cup s, g)
                                  /\ Total(S \cup s, g) = Total(S, g) + Total(s, g)}
<1>1. {} \in P
  <2>1. S \cup {} = S /\ Total(S, g) \in Int
    BY TotalType
  <2> QED
    BY <2>1, TotalEmpty
<1>2. ASSUME NEW s \in SUBSET T, NEW x \in T \ s, s \in P
      PROVE  s \cup {x} \in P
  <2> DEFINE U == S \cup s
  <2>1. Numbers(U, g) /\ Total(U, g) = Total(S, g) + Total(s, g)
    BY <1>2
  <2>2. Numbers(s, g) /\ x \notin s /\ x \notin U /\ g[x] \in Int
    BY FS_Subset DEF Numbers
  <2>3. S \cup (s \cup {x}) = U \cup {x}
    OBVIOUS
  <2> HIDE DEF U
  <2>4. Numbers(U \cup {x}, g) /\ Total(U \cup {x}, g) = Total(U, g) + g[x]
    BY <2>1, <2>2, TotalAdd
  <2>5. Total(s \cup {x}, g) = Total(s, g) + g[x]
    BY <2>2, TotalAdd
  <2>6. Total(S, g) \in Int /\ Total(s, g) \in Int
    BY <2>2, TotalType
  <2>7. Total(U \cup {x}, g) = Total(S, g) + Total(s \cup {x}, g)
    BY <2>1, <2>2, <2>4, <2>5, <2>6
  <2> QED
    BY <2>3, <2>4, <2>7
<1> HIDE DEF P
<1>3. T \in P
  BY <1>1, <1>2, SetInduction DEF Numbers
<1> QED
  BY <1>3 DEF P

\* Terms of 0 add nothing.
LEMMA TotalZeros ==
  ASSUME NEW S, NEW T \in SUBSET S, NEW g, Numbers(S, g), \A x \in S \ T : g[x] = 0
  PROVE  /\ Numbers(T, g)
         /\ Total(S, g) = Total(T, g)
<1> DEFINE Z == S \ T
<1>1. Numbers(T, g) /\ Numbers(Z, g)
  BY FS_Subset DEF Numbers
<1>2. \A x \in Z : 0 <= g[x] /\ g[x] <= 0 * g[x]
  OBVIOUS
<1>3. (\A x \in T : x \notin Z) /\ T \cup Z = S
  OBVIOUS
<1> HIDE DEF Z
<1>4. 0 <= Total(Z, g) /\ Total(Z, g) <= 0 * Total(Z, g)
  BY <1>1, <1>2, TotalBounds
<1>5. Total(Z, g) \in Int /\ Total(T, g) \in Int
  BY <1>1, TotalType
<1>6. Total(T \cup Z, g) = Total(T, g) + Total(Z, g)
  BY <1>1, <1>3, TotalUnion
<1>7. Total(S, g) = Total(T, g) + Total(Z, g)
  BY <1>3, <1>6
<1>8. Total(Z, g) = 0
  BY <1>4, <1>5
<1>9. Total(S, g) = Total(T, g)
  BY <1>5, <1>7, <1>8
<1> QED
  BY <1>1, <1>9
=============================================================================
