----------------------------- MODULE SetLemmas -----------------------------
(***************************************************************************)
(* Least and greatest elements of sets of numbers: the facts about Min and *)
(* Max that the proofs need, and the least-number principle that stands in *)
(* for induction (the least counterexample of a claim); and sums of a      *)
(* function over a finite set, whatever order they are taken in.           *)
(***************************************************************************)
EXTENDS FiniteSetsExt, FiniteSetTheorems, TLAPS

\* A nonempty set of natural numbers has a least element.
LEMMA LeastNat ==
  ASSUME NEW T, T \subseteq Nat, T # {}
  PROVE  \E x \in T : \A y \in T : x <= y
<1> DEFINE R == {ss \in Nat \X Nat : ss[1] < ss[2]}
<1>1. IsWellFoundedOn(R, Nat)
  <2>1. R = OpToRel(<, Nat)
    BY Zenon DEF OpToRel
  <2> QED
    BY <2>1, NatLessThanWellFounded, Zenon
<1>2. PICK x \in T : \A y \in T : ~(<<y, x>> \in R)
  <2> HIDE DEF R
  <2> QED
    BY <1>1, WFMin
<1>3. ASSUME NEW y \in T
      PROVE  x <= y
  <2>1. x \in Nat /\ y \in Nat
    OBVIOUS
  <2>2. <<y, x>> \in Nat \X Nat
    BY <2>1
  <2>3. <<y, x>>[1] = y /\ <<y, x>>[2] = x
    OBVIOUS
  <2>4. ~(y < x)
    BY <1>2, <2>2, <2>3
  <2> QED
    BY <2>1, <2>4
<1> QED
  BY <1>3

\* A nonempty set of natural numbers below a bound has a greatest element.
LEMMA GreatestNat ==
  ASSUME NEW n \in Nat, NEW T, T \subseteq 0..n, T # {}
  PROVE  \E x \in T : \A y \in T : y <= x
<1> DEFINE D == {n - y : y \in T}
<1>1. D \subseteq Nat /\ D # {}
  OBVIOUS
<1>2. PICK d \in D : \A e \in D : d <= e
  <2> HIDE DEF D
  <2> QED
    BY <1>1, LeastNat
<1>3. PICK x \in T : d = n - x
  OBVIOUS
<1>4. ASSUME NEW y \in T
      PROVE  y <= x
  <2>1. n - y \in D
    OBVIOUS
  <2>2. n - x <= n - y
    BY <1>2, <1>3, <2>1
  <2>3. x \in 0..n /\ y \in 0..n
    OBVIOUS
  <2> QED
    BY <2>2, <2>3
<1> QED
  BY <1>4

\* Min picks the least element.
LEMMA MinIsLeast ==
  ASSUME NEW T, T \subseteq Nat, T # {}
  PROVE  Min(T) \in T /\ \A y \in T : Min(T) <= y
BY LeastNat DEF Min

\* Max picks the greatest element of a bounded set.
LEMMA MaxIsGreatest ==
  ASSUME NEW n \in Nat, NEW T, T \subseteq 0..n, T # {}
  PROVE  Max(T) \in T /\ \A y \in T : y <= Max(T)
<1>1. PICK x \in T : \A y \in T : y <= x
  BY GreatestNat
<1>2. \A y \in T : x >= y
  <2>1. \A y \in T : y \in Nat
    OBVIOUS
  <2> QED
    BY <1>1, <2>1
<1>3. /\ (CHOOSE z \in T : \A y \in T : z >= y) \in T
      /\ \A y \in T : (CHOOSE z \in T : \A y2 \in T : z >= y2) >= y
  BY <1>2
<1>4. Max(T) \in T /\ \A y \in T : Max(T) >= y
  BY <1>3 DEF Max
<1>5. T \subseteq Nat
  OBVIOUS
<1> QED
  BY <1>4, <1>5

\* The least element of a set is its only lower bound.
LEMMA MinIs ==
  ASSUME NEW T, T \subseteq Nat, NEW x \in T, \A y \in T : x <= y
  PROVE  Min(T) = x
<1>1. Min(T) \in T /\ Min(T) <= x
  BY MinIsLeast
<1>2. x <= Min(T)
  BY <1>1
<1>3. x \in Nat /\ Min(T) \in Nat
  BY <1>1
<1> QED
  BY <1>1, <1>2, <1>3

\* The greatest element of a set is its only upper bound.
LEMMA MaxIs ==
  ASSUME NEW T, T \subseteq Nat, NEW x \in T, \A y \in T : y <= x
  PROVE  Max(T) = x
<1>1. \A y \in T : x >= y
  BY SMT
<1>2. /\ Max(T) \in T
      /\ \A y \in T : Max(T) >= y
  BY <1>1 DEF Max
<1>3. x \in Nat /\ Max(T) \in Nat
  BY <1>2
<1> QED
  BY <1>1, <1>2, <1>3

-----------------------------------------------------------------------------
(* Sums over finite sets.                                                  *)

Chosen(s) == CHOOSE x \in s : TRUE

\* What SumFunctionOnSet computes for every subset of S.
Sums(v, S, f) == [s \in S |-> IF s = {} THEN 0 ELSE v[Chosen(s)] + f[s \ {Chosen(s)}]]

IsSums(v, S, f) == f = Sums(v, SUBSET S, f)

\* Removing the chosen element makes a set smaller.
LEMMA ChosenLess ==
  ASSUME NEW S, IsFiniteSet(S), S # {}
  PROVE  /\ Chosen(S) \in S /\ IsFiniteSet(S \ {Chosen(S)})
         /\ Cardinality(S \ {Chosen(S)}) = Cardinality(S) - 1
         /\ Cardinality(S) \in Nat /\ Cardinality(S) > 0
<1>1. Chosen(S) \in S
  BY DEF Chosen
<1>2. Cardinality(S) \in Nat
  BY FS_CardinalityType
<1>3. Cardinality(S) # 0
  BY FS_EmptySet
<1>4. IsFiniteSet(S \ {Chosen(S)}) /\ Cardinality(S \ {Chosen(S)}) = Cardinality(S) - 1
  BY <1>1, FS_RemoveElement
<1> QED
  BY <1>1, <1>2, <1>3, <1>4

Small(S, k) == {s \in SUBSET S : Cardinality(s) <= k}

\* The recursion of SumFunctionOnSet has a solution.
LEMMA SumsExist ==
  ASSUME NEW v, NEW S, IsFiniteSet(S)
  PROVE  \E f : f = Sums(v, SUBSET S, f)
<1> DEFINE n == Cardinality(S)
           T == {k \in 0..n : ~\E f : f = Sums(v, Small(S, k), f)}
<1>1. n \in Nat
  BY FS_CardinalityType
<1>2. n \in 0..n
  BY <1>1
<1>3. \A s \in SUBSET S : IsFiniteSet(s) /\ Cardinality(s) \in Nat /\ Cardinality(s) <= n
  BY FS_Subset, FS_CardinalityType
<1>4. Small(S, n) = SUBSET S
  BY <1>3 DEF Small
<1>5. SUFFICES T = {}
  BY <1>2, <1>4
<1>6. SUFFICES ASSUME T # {} PROVE FALSE
  OBVIOUS
<1>7. PICK k \in T : \A y \in T : k <= y
  <2>1. T \subseteq Nat
    OBVIOUS
  <2> HIDE DEF T
  <2> QED
    BY <1>6, <2>1, LeastNat
<1>8. k \in 0..n /\ ~\E f : f = Sums(v, Small(S, k), f)
  BY <1>7
<1> HIDE DEF n
<1>9. CASE k = 0
  <2> DEFINE f == [s \in Small(S, 0) |-> 0]
  <2>1. \A s \in Small(S, 0) : s = {}
    <3> SUFFICES ASSUME NEW s \in Small(S, 0) PROVE s = {}
      OBVIOUS
    <3>1. s \in SUBSET S /\ Cardinality(s) <= 0
      BY DEF Small
    <3>2. IsFiniteSet(s) /\ Cardinality(s) = 0
      BY <1>3, <3>1
    <3> QED
      BY <3>2, FS_EmptySet
  <2>2. f = Sums(v, Small(S, 0), f)
    BY <2>1 DEF Sums
  <2> QED
    BY <1>8, <1>9, <2>2
<1>10. CASE k > 0
  <2> DEFINE j == k - 1
  <2>1. j \in 0..n /\ j \notin T /\ j < k
    <3>1. j \in 0..n /\ ~(k <= j) /\ j < k
      BY <1>1, <1>8, <1>10
    <3> HIDE DEF T, j
    <3> QED
      BY <1>7, <3>1
  <2>2. PICK f : f = Sums(v, Small(S, j), f)
    BY <2>1
  <2> DEFINE D == Small(S, k)
             h == Sums(v, D, f)
  <2>3. ASSUME NEW s \in Small(S, j) PROVE s \in D /\ h[s] = f[s]
    <3>1. s \in D
      <4>1. s \in SUBSET S /\ Cardinality(s) <= j /\ Cardinality(s) \in Nat /\ j \in Nat /\ k \in Nat
        BY <1>3, <1>8, <2>1 DEF Small
      <4> QED
        BY <2>1, <4>1 DEF Small
    <3>2. h[s] = IF s = {} THEN 0 ELSE v[Chosen(s)] + f[s \ {Chosen(s)}]
      BY <3>1 DEF Sums
    <3>3. f[s] = Sums(v, Small(S, j), f)[s]
      BY <2>2
    <3>4. f[s] = IF s = {} THEN 0 ELSE v[Chosen(s)] + f[s \ {Chosen(s)}]
      BY <3>3 DEF Sums
    <3> QED
      BY <3>1, <3>2, <3>4
  <2>4. ASSUME NEW s \in D, s # {} PROVE h[s \ {Chosen(s)}] = f[s \ {Chosen(s)}]
    <3> DEFINE r == s \ {Chosen(s)}
    <3>1. s \in SUBSET S /\ Cardinality(s) <= k /\ IsFiniteSet(s)
      BY <1>3 DEF Small
    <3>2. Cardinality(r) = Cardinality(s) - 1 /\ Cardinality(s) \in Nat /\ Cardinality(s) > 0
      BY <2>4, <3>1, ChosenLess
    <3>3. r \in SUBSET S /\ Cardinality(r) <= j
      <4>1. r \in SUBSET S
        BY <3>1
      <4> HIDE DEF r
      <4> QED
        BY <1>8, <3>1, <3>2, <4>1
    <3>4. r \in Small(S, j)
      BY <3>3 DEF Small
    <3> QED
      BY <2>3, <3>4
  <2>5. h = Sums(v, D, h)
    <3>1. \A s \in D : (IF s = {} THEN 0 ELSE v[Chosen(s)] + f[s \ {Chosen(s)}])
                       = (IF s = {} THEN 0 ELSE v[Chosen(s)] + h[s \ {Chosen(s)}])
      BY <2>4
    <3> DEFINE g == Sums(v, D, h)
    <3>2. g = [s \in D |-> IF s = {} THEN 0 ELSE v[Chosen(s)] + h[s \ {Chosen(s)}]]
      BY DEF Sums
    <3>3. h = [s \in D |-> IF s = {} THEN 0 ELSE v[Chosen(s)] + f[s \ {Chosen(s)}]]
      BY DEF Sums
    <3> HIDE DEF g, h, D
    <3>4. g = h
      BY <3>1, <3>2, <3>3
    <3> QED
      BY <3>4 DEF g
  <2> QED
    BY <1>8, <2>5
<1> QED
  BY <1>8, <1>9, <1>10

\* Two solutions agree on the sets both are defined on.
LEMMA SumsAgree ==
  ASSUME NEW v, NEW S, IsFiniteSet(S), NEW R, NEW f, IsSums(v, S, f),
         NEW g, IsSums(v, R, g), S \subseteq R
  PROVE  f[S] = g[S]
<1> USE DEF IsSums
<1> DEFINE T == {k \in Nat : \E s \in SUBSET S : Cardinality(s) = k /\ f[s] # g[s]}
<1>0. \A s \in SUBSET S : IsFiniteSet(s) /\ Cardinality(s) \in Nat
  BY FS_Subset, FS_CardinalityType
<1>1. SUFFICES T = {}
  BY <1>0
<1>2. SUFFICES ASSUME T # {} PROVE FALSE
  OBVIOUS
<1>3. PICK k \in T : \A y \in T : k <= y
  <2>1. T \subseteq Nat
    OBVIOUS
  <2> HIDE DEF T
  <2> QED
    BY <1>2, <2>1, LeastNat
<1>4. PICK s \in SUBSET S : Cardinality(s) = k /\ f[s] # g[s]
  BY <1>3
<1>5. f[s] = IF s = {} THEN 0 ELSE v[Chosen(s)] + f[s \ {Chosen(s)}]
  <2>1. f[s] = Sums(v, SUBSET S, f)[s]
    OBVIOUS
  <2> QED
    BY <2>1 DEF Sums
<1>6. g[s] = IF s = {} THEN 0 ELSE v[Chosen(s)] + g[s \ {Chosen(s)}]
  <2>1. g[s] = Sums(v, SUBSET R, g)[s]
    OBVIOUS
  <2>2. s \in SUBSET R
    OBVIOUS
  <2> QED
    BY <2>1, <2>2 DEF Sums
<1> DEFINE r == s \ {Chosen(s)}
<1>7. s # {}
  BY <1>4, <1>5, <1>6
<1>8. r \in SUBSET S /\ Cardinality(r) = k - 1 /\ k \in Nat /\ k > 0
  <2>1. IsFiniteSet(s)
    BY <1>0
  <2> QED
    BY <1>4, <1>7, <2>1, ChosenLess
<1>9. f[r] = g[r]
  <2>1. k - 1 \in Nat /\ ~(k <= k - 1)
    BY <1>8
  <2>2. k - 1 \notin T
    BY <1>3, <2>1
  <2> HIDE DEF r
  <2> QED
    BY <1>8, <2>1, <2>2
<1> QED
  BY <1>4, <1>5, <1>6, <1>7, <1>9

\* The sum over a set: of the chosen element and the others.
LEMMA SumStep ==
  ASSUME NEW v, NEW S, IsFiniteSet(S)
  PROVE  SumFunctionOnSet(v, S) =
           IF S = {} THEN 0 ELSE v[Chosen(S)] + SumFunctionOnSet(v, S \ {Chosen(S)})
<1> DEFINE Sol(s) == CHOOSE f : f = Sums(v, SUBSET s, f)
<1>1. ASSUME NEW s, IsFiniteSet(s)
      PROVE  Sol(s) = Sums(v, SUBSET s, Sol(s)) /\ SumFunctionOnSet(v, s) = Sol(s)[s]
  <2>1. \E f : f = Sums(v, SUBSET s, f)
    BY <1>1, SumsExist
  <2>2. Sol(s) = Sums(v, SUBSET s, Sol(s))
    BY <2>1
  <2>3. SumFunctionOnSet(v, s) = Sol(s)[s]
    BY DEF SumFunctionOnSet, FoldFunctionOnSet, MapThenFoldSet, Sums, Chosen
  <2> QED
    BY <2>2, <2>3
<1> HIDE DEF Sol
<1>2. SumFunctionOnSet(v, S) = IF S = {} THEN 0 ELSE v[Chosen(S)] + Sol(S)[S \ {Chosen(S)}]
  <2>1. SumFunctionOnSet(v, S) = Sums(v, SUBSET S, Sol(S))[S]
    BY <1>1
  <2> QED
    BY <2>1 DEF Sums
<1>3. ASSUME S # {} PROVE Sol(S)[S \ {Chosen(S)}] = SumFunctionOnSet(v, S \ {Chosen(S)})
  <2> DEFINE r == S \ {Chosen(S)}
  <2>1. IsFiniteSet(r) /\ r \subseteq S
    BY <1>3, ChosenLess
  <2> HIDE DEF r
  <2>2. Sol(r) = Sums(v, SUBSET r, Sol(r)) /\ SumFunctionOnSet(v, r) = Sol(r)[r]
    BY <1>1, <2>1
  <2>3. Sol(S) = Sums(v, SUBSET S, Sol(S))
    BY <1>1
  <2>4. Sol(r)[r] = Sol(S)[r]
    <3> DEFINE f == Sol(r)
               g == Sol(S)
    <3>1. IsSums(v, r, f) /\ IsSums(v, S, g)
      BY <2>2, <2>3 DEF IsSums
    <3> HIDE DEF f, g
    <3>2. f[r] = g[r]
      BY <2>1, <3>1, SumsAgree
    <3> QED
      BY <3>2 DEF f, g
  <2> QED
    BY <2>2, <2>4 DEF r
<1> QED
  BY <1>2, <1>3

\* The sum of integers is an integer.
LEMMA SumIsInt ==
  ASSUME NEW v, NEW S, IsFiniteSet(S), \A x \in S : v[x] \in Int
  PROVE  SumFunctionOnSet(v, S) \in Int
<1> DEFINE T == {k \in Nat : \E s \in SUBSET S : Cardinality(s) = k /\ SumFunctionOnSet(v, s) \notin Int}
<1>0. \A s \in SUBSET S : IsFiniteSet(s) /\ Cardinality(s) \in Nat
  BY FS_Subset, FS_CardinalityType
<1>1. SUFFICES T = {}
  BY <1>0
<1>2. SUFFICES ASSUME T # {} PROVE FALSE
  OBVIOUS
<1>3. PICK k \in T : \A y \in T : k <= y
  <2>1. T \subseteq Nat
    OBVIOUS
  <2> HIDE DEF T
  <2> QED
    BY <1>2, <2>1, LeastNat
<1>4. PICK s \in SUBSET S : Cardinality(s) = k /\ SumFunctionOnSet(v, s) \notin Int
  BY <1>3
<1> DEFINE r == s \ {Chosen(s)}
<1>5. SumFunctionOnSet(v, s) = IF s = {} THEN 0 ELSE v[Chosen(s)] + SumFunctionOnSet(v, r)
  BY <1>0, SumStep
<1>6. s # {}
  BY <1>4, <1>5
<1>7. r \in SUBSET S /\ Cardinality(r) = k - 1 /\ k \in Nat /\ k > 0 /\ Chosen(s) \in S
  <2>1. IsFiniteSet(s)
    BY <1>0
  <2> QED
    BY <1>4, <1>6, <2>1, ChosenLess
<1>8. SumFunctionOnSet(v, r) \in Int
  <2>1. k - 1 \in Nat /\ ~(k <= k - 1)
    BY <1>7
  <2>2. k - 1 \notin T
    BY <1>3, <2>1
  <2> HIDE DEF r
  <2> QED
    BY <1>7, <2>1, <2>2
<1>9. v[Chosen(s)] \in Int
  BY <1>7
<1> HIDE DEF r
<1>10. SumFunctionOnSet(v, s) = v[Chosen(s)] + SumFunctionOnSet(v, r)
  BY <1>5, <1>6
<1>11. SumFunctionOnSet(v, s) \in Int
  BY <1>8, <1>9, <1>10
<1> QED
  BY <1>4, <1>11

\* The order of a sum does not matter: any element may be taken first.
LEMMA SumAdd ==
  ASSUME NEW v, NEW S, IsFiniteSet(S), NEW e, e \notin S, v[e] \in Int, \A x \in S : v[x] \in Int
  PROVE  SumFunctionOnSet(v, S \cup {e}) = v[e] + SumFunctionOnSet(v, S)
<1> DEFINE Adds(s, x) == SumFunctionOnSet(v, s \cup {x}) = v[x] + SumFunctionOnSet(v, s)
           A == S \cup {e}
           T == {k \in Nat : \E s \in SUBSET A, x \in A : Cardinality(s) = k /\ x \notin s /\ ~Adds(s, x)}
<1>0. \A s \in SUBSET A : IsFiniteSet(s) /\ Cardinality(s) \in Nat
  <2>1. IsFiniteSet(A)
    BY FS_AddElement
  <2> QED
    BY <2>1, FS_Subset, FS_CardinalityType
<1>v. \A x \in A : v[x] \in Int
  OBVIOUS
<1>1. SUFFICES T = {}
  <2>1. S \in SUBSET A /\ e \in A /\ Cardinality(S) \in Nat
    BY <1>0
  <2> QED
    BY <2>1
<1>2. SUFFICES ASSUME T # {} PROVE FALSE
  OBVIOUS
<1>3. PICK k \in T : \A y \in T : k <= y
  <2>1. T \subseteq Nat
    OBVIOUS
  <2> HIDE DEF T
  <2> QED
    BY <1>2, <2>1, LeastNat
<1>4. PICK s \in SUBSET A, x \in A : Cardinality(s) = k /\ x \notin s /\ ~Adds(s, x)
  BY <1>3
<1> DEFINE u == s \cup {x}
           p == Chosen(u)
           r == s \ {p}
<1>5. IsFiniteSet(s) /\ IsFiniteSet(u) /\ u # {} /\ p \in u
  <2>1. IsFiniteSet(s) /\ IsFiniteSet(u) /\ u # {}
    BY <1>0, <1>4
  <2> QED
    BY <2>1, ChosenLess
<1>6. SumFunctionOnSet(v, u) = v[p] + SumFunctionOnSet(v, u \ {p})
  BY <1>5, SumStep
<1>7. p # x
  <2> SUFFICES ASSUME p = x PROVE FALSE
    OBVIOUS
  <2>1. u \ {p} = s
    BY <1>4
  <2> QED
    BY <1>4, <1>6, <2>1
<1>8. p \in s /\ p \in A /\ u \ {p} = r \cup {x} /\ s = r \cup {p} /\ p \notin r /\ x \notin r /\ r \in SUBSET A
  BY <1>4, <1>5, <1>7
<1>9. Cardinality(r) = k - 1 /\ k \in Nat /\ k - 1 \in Nat
  <2>1. Cardinality(s) \in Nat /\ Cardinality(r) = Cardinality(s) - 1
    BY <1>0, <1>5, <1>8, FS_RemoveElement
  <2>2. Cardinality(r) \in Nat
    BY <1>0, <1>8
  <2> QED
    BY <1>4, <2>1, <2>2
<1>10. Adds(r, x) /\ Adds(r, p)
  <2>1. ~(k <= k - 1)
    BY <1>9
  <2>2. k - 1 \notin T
    BY <1>3, <2>1
  <2> HIDE DEF r, p, u, Adds
  <2> QED
    BY <1>8, <1>9, <2>2
<1>11. SumFunctionOnSet(v, r) \in Int /\ v[p] \in Int /\ v[x] \in Int
  <2>1. IsFiniteSet(r) /\ \A y \in r : v[y] \in Int
    BY <1>0, <1>8, <1>v
  <2> HIDE DEF r
  <2>2. SumFunctionOnSet(v, r) \in Int
    BY <2>1, SumIsInt
  <2> QED
    BY <1>8, <1>v, <2>2
<1>12. /\ SumFunctionOnSet(v, u) = v[p] + (v[x] + SumFunctionOnSet(v, r))
       /\ SumFunctionOnSet(v, s) = v[p] + SumFunctionOnSet(v, r)
  BY <1>6, <1>8, <1>10
<1> DEFINE a == v[p]
           b == v[x]
           c == SumFunctionOnSet(v, r)
<1>13. SumFunctionOnSet(v, u) = a + (b + c) /\ SumFunctionOnSet(v, s) = a + c /\ a \in Int /\ b \in Int /\ c \in Int
  BY <1>11, <1>12
<1> HIDE DEF a, c, r, p, u
<1>14. SumFunctionOnSet(v, u) = b + SumFunctionOnSet(v, s)
  BY <1>13
<1> QED
  BY <1>4, <1>14 DEF u

\* The sum depends on the values it adds up only.
LEMMA SumSame ==
  ASSUME NEW v, NEW w, NEW S, IsFiniteSet(S), \A x \in S : v[x] = w[x]
  PROVE  SumFunctionOnSet(v, S) = SumFunctionOnSet(w, S)
<1> DEFINE T == {k \in Nat : \E s \in SUBSET S :
                   Cardinality(s) = k /\ SumFunctionOnSet(v, s) # SumFunctionOnSet(w, s)}
<1>0. \A s \in SUBSET S : IsFiniteSet(s) /\ Cardinality(s) \in Nat
  BY FS_Subset, FS_CardinalityType
<1>1. SUFFICES T = {}
  BY <1>0
<1>2. SUFFICES ASSUME T # {} PROVE FALSE
  OBVIOUS
<1>3. PICK k \in T : \A y \in T : k <= y
  <2>1. T \subseteq Nat
    OBVIOUS
  <2> HIDE DEF T
  <2> QED
    BY <1>2, <2>1, LeastNat
<1>4. PICK s \in SUBSET S : Cardinality(s) = k /\ SumFunctionOnSet(v, s) # SumFunctionOnSet(w, s)
  BY <1>3
<1> DEFINE r == s \ {Chosen(s)}
<1>5. /\ SumFunctionOnSet(v, s) = IF s = {} THEN 0 ELSE v[Chosen(s)] + SumFunctionOnSet(v, r)
      /\ SumFunctionOnSet(w, s) = IF s = {} THEN 0 ELSE w[Chosen(s)] + SumFunctionOnSet(w, r)
  BY <1>0, SumStep
<1>6. s # {}
  BY <1>4, <1>5
<1>7. r \in SUBSET S /\ Cardinality(r) = k - 1 /\ k \in Nat /\ k > 0 /\ Chosen(s) \in S
  <2>1. IsFiniteSet(s)
    BY <1>0
  <2> QED
    BY <1>4, <1>6, <2>1, ChosenLess
<1>8. SumFunctionOnSet(v, r) = SumFunctionOnSet(w, r)
  <2>1. k - 1 \in Nat /\ ~(k <= k - 1)
    BY <1>7
  <2>2. k - 1 \notin T
    BY <1>3, <2>1
  <2> HIDE DEF r
  <2> QED
    BY <1>7, <2>1, <2>2
<1>9. v[Chosen(s)] = w[Chosen(s)]
  BY <1>7
<1> QED
  BY <1>4, <1>5, <1>6, <1>8, <1>9

\* The sum of zeros is zero.
LEMMA SumZero ==
  ASSUME NEW v, NEW S, IsFiniteSet(S), \A x \in S : v[x] = 0
  PROVE  SumFunctionOnSet(v, S) = 0
<1> DEFINE T == {k \in Nat : \E s \in SUBSET S : Cardinality(s) = k /\ SumFunctionOnSet(v, s) # 0}
<1>0. \A s \in SUBSET S : IsFiniteSet(s) /\ Cardinality(s) \in Nat
  BY FS_Subset, FS_CardinalityType
<1>1. SUFFICES T = {}
  BY <1>0
<1>2. SUFFICES ASSUME T # {} PROVE FALSE
  OBVIOUS
<1>3. PICK k \in T : \A y \in T : k <= y
  <2>1. T \subseteq Nat
    OBVIOUS
  <2> HIDE DEF T
  <2> QED
    BY <1>2, <2>1, LeastNat
<1>4. PICK s \in SUBSET S : Cardinality(s) = k /\ SumFunctionOnSet(v, s) # 0
  BY <1>3
<1> DEFINE r == s \ {Chosen(s)}
<1>5. SumFunctionOnSet(v, s) = IF s = {} THEN 0 ELSE v[Chosen(s)] + SumFunctionOnSet(v, r)
  BY <1>0, SumStep
<1>6. s # {}
  BY <1>4, <1>5
<1>7. r \in SUBSET S /\ Cardinality(r) = k - 1 /\ k \in Nat /\ k > 0 /\ Chosen(s) \in S
  <2>1. IsFiniteSet(s)
    BY <1>0
  <2> QED
    BY <1>4, <1>6, <2>1, ChosenLess
<1>8. SumFunctionOnSet(v, r) = 0
  <2>1. k - 1 \in Nat /\ ~(k <= k - 1)
    BY <1>7
  <2>2. k - 1 \notin T
    BY <1>3, <2>1
  <2> HIDE DEF r
  <2> QED
    BY <1>7, <2>1, <2>2
<1>9. v[Chosen(s)] = 0
  BY <1>7
<1> QED
  BY <1>4, <1>5, <1>6, <1>8, <1>9
=============================================================================
