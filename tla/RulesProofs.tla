------------------------------ MODULE RulesProofs ------------------------------
(***************************************************************************)
(* Facts about the rules both generators share, for any catalog: sums over *)
(* sets of sections, the orders lists are sorted by, and credits.          *)
(***************************************************************************)
EXTENDS TimetableRules, FiniteSetTheorems, TLAPS

-----------------------------------------------------------------------------
(* Induction on naturals, least and greatest numbers.                       *)

\* A nonempty set of natural numbers has a least member.
LEMMA LeastNumber ==
  ASSUME NEW T \in SUBSET Nat, T # {}
  PROVE  \E n \in T : \A k \in T : n <= k
<1>1. PICK n \in T : \A k \in T : ~(<<k, n>> \in OpToRel(<, Nat))
  BY NatLessThanWellFounded, WFMin
<1>2. \A k \in T : ~(k < n)
  BY <1>1 DEF OpToRel
<1> QED
  BY <1>2

\* A nonempty bounded set of natural numbers has a greatest member.
LEMMA GreatestNumber ==
  ASSUME NEW T \in SUBSET Nat, T # {}, NEW b \in Nat, \A k \in T : k <= b
  PROVE  \E n \in T : \A k \in T : n >= k
<1> DEFINE D == {b - k : k \in T}
<1>1. D \in SUBSET Nat /\ D # {}
  OBVIOUS
<1>2. PICK d \in D : \A e \in D : d <= e
  BY <1>1, LeastNumber
<1>3. PICK n \in T : d = b - n
  BY <1>2
<1>4. ASSUME NEW k \in T PROVE n >= k
  <2>1. b - n <= b - k
    BY <1>2, <1>3
  <2> QED
    BY <2>1
<1> QED
  BY <1>4

\* What holds of 0 and of the successor of every number it holds of holds of all numbers.
LEMMA Climbing ==
  ASSUME NEW P \in SUBSET Nat, 0 \in P, \A n \in P : n + 1 \in P
  PROVE  P = Nat
<1> SUFFICES ASSUME Nat \ P # {} PROVE FALSE
  OBVIOUS
<1>1. PICK n \in Nat \ P : \A k \in Nat \ P : n <= k
  BY LeastNumber
<1>2. n # 0 /\ n - 1 \in Nat
  BY <1>1
<1>3. n - 1 \in P
  BY <1>1, <1>2
<1> QED
  BY <1>1, <1>3

\* What holds of a set whenever it holds of the set without one of its members
\* holds of every part of a finite set.
LEMMA PartByPart ==
  ASSUME NEW U, IsFiniteSet(U), NEW F,
         \A T \in SUBSET U : (\A x \in T : T \ {x} \in F) => T \in F
  PROVE  \A T \in SUBSET U : T \in F
<1>a. \A T \in SUBSET U : IsFiniteSet(T) /\ Cardinality(T) \in Nat
  BY FS_Subset, FS_CardinalityType
<1> DEFINE P == {n \in Nat : \A T \in SUBSET U : Cardinality(T) = n => T \in F}
<1>1. 0 \in P
  <2>1. \A T \in SUBSET U : Cardinality(T) = 0 => T = {}
    BY <1>a, FS_EmptySet
  <2>2. {} \in F
    OBVIOUS
  <2> QED
    BY <2>1, <2>2
<1>2. ASSUME NEW n \in P PROVE n + 1 \in P
  <2> SUFFICES ASSUME NEW T \in SUBSET U, Cardinality(T) = n + 1 PROVE T \in F
    OBVIOUS
  <2>1. ASSUME NEW x \in T PROVE T \ {x} \in F
    <3>1. IsFiniteSet(T)
      BY <1>a
    <3>2. Cardinality(T \ {x}) = Cardinality(T) - 1
      BY <3>1, FS_RemoveElement
    <3>3. Cardinality(T \ {x}) = n /\ T \ {x} \in SUBSET U
      BY <3>2
    <3> QED
      BY <3>3
  <2> QED
    BY <2>1
<1>3. P = Nat
  <2> HIDE DEF P
  <2>1. P \in SUBSET Nat
    BY DEF P
  <2> QED
    BY <2>1, <1>1, <1>2, Climbing
<1> QED
  BY <1>3, <1>a

\* The least member of a nonempty set of natural numbers.
LEMMA MinIsLeast ==
  ASSUME NEW T \in SUBSET Nat, T # {}
  PROVE  Min(T) \in T /\ Min(T) \in Nat /\ \A k \in T : Min(T) <= k
<1>1. \E n \in T : \A k \in T : n <= k
  BY LeastNumber
<1>2. Min(T) \in T /\ \A k \in T : Min(T) <= k
  BY <1>1 DEF Min
<1> QED
  BY <1>2

\* The greatest member of a nonempty bounded set of natural numbers.
LEMMA MaxIsGreatest ==
  ASSUME NEW T \in SUBSET Nat, T # {}, NEW b \in Nat, \A k \in T : k <= b
  PROVE  Max(T) \in T /\ Max(T) \in Nat /\ \A k \in T : k <= Max(T)
<1>1. \E n \in T : \A k \in T : n >= k
  BY GreatestNumber
<1>2. Max(T) \in T /\ \A k \in T : Max(T) >= k
  BY <1>1 DEF Max
<1> QED
  BY <1>2

\* A finite set of numbers is bounded.
LEMMA FiniteIsBounded ==
  ASSUME NEW U \in SUBSET Nat, IsFiniteSet(U)
  PROVE  \E b \in Nat : \A k \in U : k <= b
<1> DEFINE F == {T \in SUBSET U : \E b \in Nat : \A k \in T : k <= b}
<1>1. ASSUME NEW T \in SUBSET U, \A x \in T : T \ {x} \in F PROVE T \in F
  <2>1. CASE T = {}
    BY <2>1
  <2>2. CASE T # {}
    <3>1. PICK x \in T : TRUE
      BY <2>2
    <3>2. PICK b \in Nat : \A k \in T \ {x} : k <= b
      BY <1>1, <3>1
    <3>3. b + x \in Nat /\ \A k \in T : k <= b + x
      BY <3>2
    <3> QED
      BY <3>3
  <2> QED
    BY <2>1, <2>2
<1> HIDE DEF F
<1>2. \A T \in SUBSET U : T \in F
  BY <1>1, PartByPart
<1> QED
  BY <1>2 DEF F

\* Between a set and a part of it there are sets of every size between theirs.
LEMMA SizesBetween ==
  ASSUME NEW G, IsFiniteSet(G), NEW W \in SUBSET G, NEW k \in Nat,
         Cardinality(W) <= k, k <= Cardinality(G)
  PROVE  \E T \in SUBSET G : W \subseteq T /\ Cardinality(T) = k
<1>0. IsFiniteSet(W) /\ Cardinality(W) \in Nat /\ Cardinality(G) \in Nat
  BY FS_Subset, FS_CardinalityType
<1> DEFINE Sized(n) == \E T \in SUBSET G : W \subseteq T /\ Cardinality(T) = n
           P == {n \in Nat : Cardinality(W) + n <= Cardinality(G) => Sized(Cardinality(W) + n)}
<1>1. 0 \in P
  BY <1>0
<1>2. ASSUME NEW n \in P PROVE n + 1 \in P
  <2> SUFFICES ASSUME Cardinality(W) + (n + 1) <= Cardinality(G)
               PROVE  Sized(Cardinality(W) + (n + 1))
    OBVIOUS
  <2>1. PICK T \in SUBSET G : W \subseteq T /\ Cardinality(T) = Cardinality(W) + n
    BY <1>0
  <2>2. T # G
    BY <1>0, <2>1
  <2>3. PICK x \in G : x \notin T
    BY <2>2
  <2>4. IsFiniteSet(T)
    BY FS_Subset
  <2>5. Cardinality(T \cup {x}) = Cardinality(T) + 1
    BY <2>3, <2>4, FS_AddElement
  <2>6. T \cup {x} \in SUBSET G /\ W \subseteq T \cup {x}
    BY <2>1
  <2>7. Cardinality(T \cup {x}) = Cardinality(W) + (n + 1)
    BY <1>0, <2>1, <2>5
  <2> QED
    BY <2>6, <2>7
<1> HIDE DEF P
<1>3. P \in SUBSET Nat
  BY DEF P
<1>4. P = Nat
  BY <1>1, <1>2, <1>3, Climbing
<1>5. k - Cardinality(W) \in P
  BY <1>0, <1>4
<1>6. Cardinality(W) + (k - Cardinality(W)) = k
  BY <1>0
<1>7. Sized(k)
  BY <1>5, <1>6 DEF P
<1> QED
  BY <1>7

-----------------------------------------------------------------------------
(* Sums *)

\* One step of the sum of the weights w over T, the way MapThenSumSet takes it.
SumStep(w, g, T) ==
  IF T = {} THEN 0
  ELSE w[CHOOSE x \in T : TRUE] + g[T \ {CHOOSE x \in T : TRUE}]

\* g gives the sum for every part of U.
IsSum(w, g, U) ==
  /\ g = [T \in SUBSET U |-> g[T]]
  /\ \A T \in SUBSET U : g[T] = SumStep(w, g, T)

\* A member chosen from a nonempty set is in it.
LEMMA Chosen ==
  ASSUME NEW T, T # {}
  PROVE  (CHOOSE x \in T : TRUE) \in T
OBVIOUS

\* Integer weights of a finite set have sums over all its parts.
LEMMA SumExists ==
  ASSUME NEW U, IsFiniteSet(U), NEW w \in [U -> Int]
  PROVE  \E g : IsSum(w, g, U)
<1>a. \A T \in SUBSET U : IsFiniteSet(T) /\ Cardinality(T) \in Nat
  BY FS_Subset, FS_CardinalityType
<1> DEFINE Upto(n) ==
      {g \in [SUBSET U -> Int] :
         \A T \in SUBSET U : Cardinality(T) <= n => g[T] = SumStep(w, g, T)}
           P == {n \in Nat : Upto(n) # {}}
<1>1. 0 \in P
  <2> DEFINE g == [T \in SUBSET U |-> 0]
  <2>1. \A T \in SUBSET U : Cardinality(T) <= 0 => T = {}
    BY <1>a, FS_EmptySet
  <2>2. g \in Upto(0)
    BY <2>1 DEF SumStep
  <2> QED
    BY <2>2
<1>2. ASSUME NEW n \in P PROVE n + 1 \in P
  <2>1. PICK g : g \in Upto(n)
    BY <1>2
  <2>n. n \in Nat
    BY <1>2
  <2> DEFINE h == [T \in SUBSET U |->
                     IF Cardinality(T) <= n THEN g[T] ELSE SumStep(w, g, T)]
  <2>2. ASSUME NEW T \in SUBSET U, T # {}
        PROVE  LET x == CHOOSE x \in T : TRUE IN
               /\ w[x] \in Int
               /\ T \ {x} \in SUBSET U
               /\ Cardinality(T \ {x}) = Cardinality(T) - 1
    <3> DEFINE x == CHOOSE x \in T : TRUE
    <3>1. x \in T
      BY <2>2
    <3>2. Cardinality(T \ {x}) = Cardinality(T) - 1
      BY <3>1, <1>a, FS_RemoveElement
    <3> QED
      BY <3>1, <3>2
  <2>3. ASSUME NEW T \in SUBSET U PROVE SumStep(w, g, T) \in Int
    <3>1. CASE T = {}
      BY <3>1 DEF SumStep
    <3>2. CASE T # {}
      BY <3>2, <2>1, <2>2 DEF SumStep
    <3> QED
      BY <3>1, <3>2
  <2>4. h \in [SUBSET U -> Int]
    BY <2>1, <2>3
  <2>5. ASSUME NEW T \in SUBSET U, Cardinality(T) <= n + 1 PROVE h[T] = SumStep(w, h, T)
    <3>1. SumStep(w, h, T) = SumStep(w, g, T)
      <4>1. CASE T = {}
        BY <4>1 DEF SumStep
      <4>2. CASE T # {}
        <5> DEFINE x == CHOOSE x \in T : TRUE
        <5>1. T \ {x} \in SUBSET U /\ Cardinality(T \ {x}) = Cardinality(T) - 1
          BY <4>2, <2>2
        <5>2. Cardinality(T \ {x}) <= n
          BY <5>1, <2>5, <1>a, <1>2
        <5>3. h[T \ {x}] = g[T \ {x}]
          BY <5>1, <5>2
        <5> QED
          BY <4>2, <5>3 DEF SumStep
      <4> QED
        BY <4>1, <4>2
    <3>2. h[T] = SumStep(w, g, T)
      BY <2>1
    <3> QED
      BY <3>1, <3>2
  <2>6. h \in Upto(n + 1)
    BY <2>4, <2>5
  <2> HIDE DEF Upto, h
  <2>7. Upto(n + 1) # {}
    BY <2>6
  <2> QED
    BY <2>7, <2>n
<1>3. Cardinality(U) \in P
  <2>1. P = Nat
    <3> HIDE DEF P
    <3>1. P \in SUBSET Nat
      BY DEF P
    <3> QED
      BY <3>1, <1>1, <1>2, Climbing
  <2> QED
    BY <2>1, <1>a
<1>4. PICK g : g \in Upto(Cardinality(U))
  BY <1>3
<1>5. \A T \in SUBSET U : Cardinality(T) <= Cardinality(U)
  BY FS_Subset
<1>6. \A T \in SUBSET U : g[T] = SumStep(w, g, T)
  BY <1>4, <1>5
<1>7. g = [T \in SUBSET U |-> g[T]]
  BY <1>4
<1> QED
  BY <1>6, <1>7 DEF IsSum

\* Sums of natural weights are natural numbers.
LEMMA SumsAreNumbers ==
  ASSUME NEW U, IsFiniteSet(U), NEW w \in [U -> Nat], NEW g, IsSum(w, g, U)
  PROVE  \A T \in SUBSET U : g[T] \in Nat
<1> DEFINE F == {T \in SUBSET U : g[T] \in Nat}
<1>1. ASSUME NEW T \in SUBSET U, \A x \in T : T \ {x} \in F PROVE T \in F
  <2>1. g[T] = SumStep(w, g, T)
    BY DEF IsSum
  <2>2. CASE T = {}
    BY <2>1, <2>2 DEF SumStep
  <2>3. CASE T # {}
    <3> DEFINE x == CHOOSE x \in T : TRUE
    <3>1. x \in T
      BY <2>3, Chosen
    <3>2. g[T \ {x}] \in Nat /\ w[x] \in Nat
      BY <1>1, <3>1
    <3>3. g[T] = w[x] + g[T \ {x}]
      BY <2>1, <2>3 DEF SumStep
    <3> QED
      BY <3>2, <3>3
  <2> QED
    BY <2>2, <2>3
<1> HIDE DEF F
<1>2. \A T \in SUBSET U : T \in F
  BY <1>1, PartByPart
<1> QED
  BY <1>2 DEF F

\* Sums of integer weights are integers.
LEMMA SumsAreIntegers ==
  ASSUME NEW U, IsFiniteSet(U), NEW w \in [U -> Int], NEW g, IsSum(w, g, U)
  PROVE  \A T \in SUBSET U : g[T] \in Int
<1> DEFINE F == {T \in SUBSET U : g[T] \in Int}
<1>1. ASSUME NEW T \in SUBSET U, \A x \in T : T \ {x} \in F PROVE T \in F
  <2>1. g[T] = SumStep(w, g, T)
    BY DEF IsSum
  <2>2. CASE T = {}
    BY <2>1, <2>2 DEF SumStep
  <2>3. CASE T # {}
    <3> DEFINE x == CHOOSE x \in T : TRUE
    <3>1. x \in T
      BY <2>3, Chosen
    <3>2. g[T \ {x}] \in Int /\ w[x] \in Int
      BY <1>1, <3>1
    <3>3. g[T] = w[x] + g[T \ {x}]
      BY <2>1, <2>3 DEF SumStep
    <3> QED
      BY <3>2, <3>3
  <2> QED
    BY <2>2, <2>3
<1> HIDE DEF F
<1>2. \A T \in SUBSET U : T \in F
  BY <1>1, PartByPart
<1> QED
  BY <1>2 DEF F

\* The order in which members are taken does not matter.
LEMMA SumTakesAny ==
  ASSUME NEW U, IsFiniteSet(U), NEW w \in [U -> Nat], NEW g, IsSum(w, g, U)
  PROVE  \A T \in SUBSET U : \A x \in T : g[T] = w[x] + g[T \ {x}]
<1> DEFINE F == {T \in SUBSET U : \A x \in T : g[T] = w[x] + g[T \ {x}]}
<1>n. \A T \in SUBSET U : g[T] \in Nat
  BY SumsAreNumbers
<1>1. ASSUME NEW T \in SUBSET U, \A x \in T : T \ {x} \in F PROVE T \in F
  <2> SUFFICES ASSUME NEW x \in T PROVE g[T] = w[x] + g[T \ {x}]
    OBVIOUS
  <2> DEFINE y == CHOOSE y \in T : TRUE
  <2>1. y \in T
    BY Chosen
  <2>2. g[T] = w[y] + g[T \ {y}]
    BY DEF IsSum, SumStep
  <2> HIDE DEF y
  <2>3. CASE x = y
    BY <2>2, <2>3
  <2>4. CASE x # y
    <3>1. g[T \ {y}] = w[x] + g[(T \ {y}) \ {x}]
      <4>1. T \ {y} \in F /\ x \in T \ {y}
        BY <1>1, <2>1, <2>4
      <4> QED
        BY <4>1
    <3>2. g[T \ {x}] = w[y] + g[(T \ {x}) \ {y}]
      <4>1. T \ {x} \in F /\ y \in T \ {x}
        BY <1>1, <2>1, <2>4
      <4> QED
        BY <4>1
    <3> DEFINE rest == g[(T \ {x}) \ {y}]
    <3>3. (T \ {y}) \ {x} = (T \ {x}) \ {y}
      OBVIOUS
    <3>4. w[x] \in Nat /\ w[y] \in Nat /\ rest \in Nat
      BY <1>n, <2>1
    <3>5. g[T \ {y}] = w[x] + rest /\ g[T \ {x}] = w[y] + rest
      BY <3>1, <3>2, <3>3
    <3> HIDE DEF rest
    <3> QED
      BY <2>2, <3>4, <3>5
  <2> QED
    BY <2>3, <2>4
<1> HIDE DEF F
<1>2. \A T \in SUBSET U : T \in F
  BY <1>1, PartByPart
<1> QED
  BY <1>2 DEF F

\* Sums of the same weights agree.
LEMMA SumsAgree ==
  ASSUME NEW U, IsFiniteSet(U), NEW w \in [U -> Nat], NEW g, IsSum(w, g, U),
         NEW V \in SUBSET U, NEW v, NEW h, IsSum(v, h, V), \A x \in V : v[x] = w[x]
  PROVE  \A T \in SUBSET V : h[T] = g[T]
<1> DEFINE F == {T \in SUBSET V : h[T] = g[T]}
<1>0. IsFiniteSet(V)
  BY FS_Subset
<1>1. ASSUME NEW T \in SUBSET V, \A x \in T : T \ {x} \in F PROVE T \in F
  <2>1. g[T] = SumStep(w, g, T) /\ h[T] = SumStep(v, h, T)
    BY DEF IsSum
  <2>2. CASE T = {}
    BY <2>1, <2>2 DEF SumStep
  <2>3. CASE T # {}
    <3> DEFINE x == CHOOSE x \in T : TRUE
    <3>1. x \in T
      BY <2>3, Chosen
    <3>2. g[T] = w[x] + g[T \ {x}] /\ h[T] = v[x] + h[T \ {x}]
      BY <2>1, <2>3 DEF SumStep
    <3> HIDE DEF x
    <3>3. g[T \ {x}] = h[T \ {x}] /\ v[x] = w[x]
      BY <1>1, <3>1
    <3> QED
      BY <3>2, <3>3
  <2> QED
    BY <2>2, <2>3
<1> HIDE DEF F
<1>2. \A T \in SUBSET V : T \in F
  BY <1>0, <1>1, PartByPart
<1> QED
  BY <1>2 DEF F

\* The sum over two disjoint parts is the sum of their sums.
LEMMA SumsAdd ==
  ASSUME NEW U, IsFiniteSet(U), NEW w \in [U -> Nat], NEW g, IsSum(w, g, U)
  PROVE  \A A, B \in SUBSET U : A \cap B = {} => g[A \cup B] = g[A] + g[B]
<1> SUFFICES ASSUME NEW A \in SUBSET U, NEW B \in SUBSET U, A \cap B = {}
             PROVE  g[A \cup B] = g[A] + g[B]
  OBVIOUS
<1>n. \A T \in SUBSET U : g[T] \in Nat
  BY SumsAreNumbers
<1>t. ASSUME NEW T \in SUBSET U, NEW x \in T PROVE g[T] = w[x] + g[T \ {x}]
  BY SumTakesAny
<1> DEFINE F == {T \in SUBSET B : g[A \cup T] = g[A] + g[T]}
<1>0. IsFiniteSet(B)
  BY FS_Subset
<1>1. ASSUME NEW T \in SUBSET B, \A x \in T : T \ {x} \in F PROVE T \in F
  <2>1. CASE T = {}
    <3>1. g[{}] = 0
      BY DEF IsSum, SumStep
    <3>2. A \cup T = A
      BY <2>1
    <3> QED
      BY <1>n, <2>1, <3>1, <3>2
  <2>2. CASE T # {}
    <3>1. PICK x \in T : TRUE
      BY <2>2
    <3>2. g[A \cup (T \ {x})] = g[A] + g[T \ {x}]
      BY <1>1, <3>1
    <3>3. g[T] = w[x] + g[T \ {x}]
      BY <1>t
    <3>4. g[A \cup T] = w[x] + g[(A \cup T) \ {x}]
      <4>1. A \cup T \in SUBSET U /\ x \in A \cup T
        BY <3>1
      <4> QED
        BY <1>t, <4>1
    <3>5. (A \cup T) \ {x} = A \cup (T \ {x})
      OBVIOUS
    <3>6. w[x] \in Nat /\ g[A] \in Nat /\ g[T \ {x}] \in Nat
      BY <1>n
    <3> QED
      BY <3>2, <3>3, <3>4, <3>5, <3>6
  <2> QED
    BY <2>1, <2>2
<1> HIDE DEF F
<1>2. \A T \in SUBSET B : T \in F
  BY <1>0, <1>1, PartByPart
<1> QED
  BY <1>2 DEF F

\* Weights of things that differ in their kind sum up to no more than the
\* largest weights of the kinds.
LEMMA SumIsBounded ==
  ASSUME NEW U, IsFiniteSet(U), NEW w \in [U -> Nat], NEW g, IsSum(w, g, U),
         NEW R, IsFiniteSet(R), NEW v \in [R -> Nat], NEW h, IsSum(v, h, R),
         NEW D \in SUBSET U, NEW kind \in [D -> R],
         \A s, t \in D : s # t => kind[s] # kind[t],
         \A s \in D : w[s] <= v[kind[s]]
  PROVE  g[D] <= h[R]
<1>n. (\A T \in SUBSET U : g[T] \in Nat) /\ (\A T \in SUBSET R : h[T] \in Nat)
  BY SumsAreNumbers
<1> DEFINE F == {T \in SUBSET D : \A K \in SUBSET R :
                   (\A s \in T : kind[s] \in K) => g[T] <= h[K]}
<1>0. IsFiniteSet(D)
  BY FS_Subset
<1>1. ASSUME NEW T \in SUBSET D, \A x \in T : T \ {x} \in F PROVE T \in F
  <2> SUFFICES ASSUME NEW K \in SUBSET R, \A s \in T : kind[s] \in K PROVE g[T] <= h[K]
    OBVIOUS
  <2>1. CASE T = {}
    <3>1. g[T] = 0
      BY <2>1 DEF IsSum, SumStep
    <3> QED
      BY <3>1, <1>n
  <2>2. CASE T # {}
    <3>1. PICK x \in T : TRUE
      BY <2>2
    <3> DEFINE k == kind[x]
    <3>2. g[T] = w[x] + g[T \ {x}]
      BY SumTakesAny
    <3>3. h[K] = v[k] + h[K \ {k}]
      BY SumTakesAny
    <3>4. \A s \in T \ {x} : kind[s] \in K \ {k}
      OBVIOUS
    <3>5. g[T \ {x}] <= h[K \ {k}]
      BY <1>1, <3>4
    <3>6. w[x] <= v[k] /\ w[x] \in Nat /\ v[k] \in Nat
      OBVIOUS
    <3>7. g[T \ {x}] \in Nat /\ h[K \ {k}] \in Nat
      BY <1>n
    <3> QED
      BY <3>2, <3>3, <3>5, <3>6, <3>7
  <2> QED
    BY <2>1, <2>2
<1> HIDE DEF F
<1>2. \A T \in SUBSET D : T \in F
  BY <1>0, <1>1, PartByPart
<1>3. \A s \in D : kind[s] \in R
  OBVIOUS
<1> QED
  BY <1>2, <1>3 DEF F

\* The sum of a function is a sum, though it is computed by a fold.
LEMMA FunctionsAreSummed ==
  ASSUME NEW U, IsFiniteSet(U), NEW w \in [U -> Int]
  PROVE  \E g : IsSum(w, g, U) /\ SumFunction(w) = g[U]
<1> DEFINE Step(h, T) == IF T = {} THEN 0
                         ELSE w[CHOOSE x \in T : TRUE] + h[T \ {CHOOSE x \in T : TRUE}]
           Folds(h) == h = [T \in SUBSET U |-> Step(h, T)]
           sum == CHOOSE h : Folds(h)
<1>0. DOMAIN w = U
  OBVIOUS
<1>1. SumFunction(w) = sum[U]
  BY <1>0 DEF SumFunction, SumFunctionOnSet, FoldFunctionOnSet, MapThenFoldSet
<1>2. ASSUME NEW h, NEW T \in SUBSET U PROVE SumStep(w, h, T) = Step(h, T)
  BY DEF SumStep
<1>3. PICK h : IsSum(w, h, U)
  BY SumExists
<1>4. \A T \in SUBSET U : h[T] = Step(h, T)
  BY <1>2, <1>3 DEF IsSum
<1>5. h = [T \in SUBSET U |-> h[T]]
  BY <1>3 DEF IsSum
<1> HIDE DEF Step
<1>6. Folds(h)
  BY <1>4, <1>5
<1> HIDE DEF Folds
<1>7. Folds(sum)
  BY <1>6
<1> HIDE DEF sum
<1>8. \A T \in SUBSET U : sum[T] = Step(sum, T)
  BY <1>7 DEF Folds
<1>9. sum = [T \in SUBSET U |-> sum[T]]
  BY <1>7 DEF Folds
<1>10. \A T \in SUBSET U : sum[T] = SumStep(w, sum, T)
  BY <1>2, <1>8
<1>11. IsSum(w, sum, U)
  BY <1>9, <1>10 DEF IsSum
<1> QED
  BY <1>1, <1>11

\* The sum of integer weights is an integer.
LEMMA SumIsInteger ==
  ASSUME NEW U, IsFiniteSet(U), NEW w \in [U -> Int]
  PROVE  SumFunction(w) \in Int
<1>1. PICK g : IsSum(w, g, U) /\ SumFunction(w) = g[U]
  BY FunctionsAreSummed
<1>2. \A T \in SUBSET U : g[T] \in Int
  BY <1>1, SumsAreIntegers
<1> HIDE DEF SumFunction
<1> QED
  BY <1>1, <1>2

\* The sum of natural weights is a natural number and at least each of them.
LEMMA SumIsNumber ==
  ASSUME NEW U, IsFiniteSet(U), NEW w \in [U -> Nat]
  PROVE  SumFunction(w) \in Nat /\ \A x \in U : w[x] <= SumFunction(w)
<1>0. w \in [U -> Int]
  OBVIOUS
<1>1. PICK g : IsSum(w, g, U) /\ SumFunction(w) = g[U]
  BY <1>0, FunctionsAreSummed
<1>2. \A T \in SUBSET U : g[T] \in Nat
  BY <1>1, SumsAreNumbers
<1> HIDE DEF SumFunction
<1>3. ASSUME NEW x \in U PROVE w[x] <= g[U]
  <2>1. g[U] = w[x] + g[U \ {x}]
    BY <1>1, SumTakesAny
  <2>2. g[U \ {x}] \in Nat /\ w[x] \in Nat
    BY <1>2
  <2> QED
    BY <2>1, <2>2
<1> QED
  BY <1>1, <1>2, <1>3

\* The sum of natural weights is at least the sum of any two.
LEMMA TwoAreSummed ==
  ASSUME NEW U, IsFiniteSet(U), NEW w \in [U -> Nat], NEW x \in U, NEW y \in U, x # y
  PROVE  w[x] + w[y] <= SumFunction(w)
<1>1. w \in [U -> Int]
  OBVIOUS
<1>2. PICK g : IsSum(w, g, U) /\ SumFunction(w) = g[U]
  BY <1>1, FunctionsAreSummed
<1>3. IsSum(w, g, U)
  BY <1>2
<1>4. g[U] = w[x] + g[U \ {x}]
  BY <1>3, SumTakesAny
<1> DEFINE T == U \ {x}
<1>5. T \in SUBSET U /\ y \in T
  OBVIOUS
<1> HIDE DEF T
<1>6. g[T] = w[y] + g[T \ {y}]
  BY <1>3, <1>5, SumTakesAny
<1>7. g[T \ {y}] \in Nat
  BY <1>3, <1>5, SumsAreNumbers
<1> QED
  BY <1>2, <1>4, <1>6, <1>7 DEF T

-----------------------------------------------------------------------------
(* Credits *)

CreditWeights == [s \in Sections |-> Catalog[s].credit]

\* The credits of the classes are natural weights of a finite set.
LEMMA WeightsAreNumbers == CreditWeights \in [Sections -> Nat] /\ IsFiniteSet(Sections)
BY CatalogIsTyped DEF CreditWeights

\* Credits are a sum, though they are computed by a fold.
LEMMA CreditsAreSums ==
  ASSUME NEW g, IsSum(CreditWeights, g, Sections), NEW S \in SUBSET Sections
  PROVE  Credits(S) = g[S]
<1> DEFINE Step(h, T) == IF T = {} THEN 0
                         ELSE Catalog[CHOOSE x \in T : TRUE].credit
                                + h[T \ {CHOOSE x \in T : TRUE}]
           Folds(h) == h = [T \in SUBSET S |-> Step(h, T)]
           sum == CHOOSE h : Folds(h)
           w == [s \in S |-> Catalog[s].credit]
<1>1. Credits(S) = sum[S]
  BY DEF Credits, MapThenSumSet, MapThenFoldSet, CreditOf
<1>2. IsFiniteSet(S) /\ w \in [S -> Nat]
  BY CatalogIsTyped, FS_Subset
<1>3. ASSUME NEW h, NEW T \in SUBSET S PROVE SumStep(w, h, T) = Step(h, T)
  BY Chosen DEF SumStep
<1> HIDE DEF w
<1>4. PICK h : IsSum(w, h, S)
  BY <1>2, SumExists
<1>5. \A T \in SUBSET S : h[T] = Step(h, T)
  BY <1>3, <1>4 DEF IsSum
<1>6. h = [T \in SUBSET S |-> h[T]]
  BY <1>4 DEF IsSum
<1> HIDE DEF Step
<1>7. Folds(h)
  BY <1>5, <1>6
<1> HIDE DEF Folds
<1>8. Folds(sum)
  BY <1>7
<1> HIDE DEF sum
<1>9. \A T \in SUBSET S : sum[T] = Step(sum, T)
  BY <1>8 DEF Folds
<1>10. IsSum(w, sum, S)
  <2>1. sum = [T \in SUBSET S |-> sum[T]]
    BY <1>8 DEF Folds
  <2>2. \A T \in SUBSET S : sum[T] = SumStep(w, sum, T)
    BY <1>3, <1>9
  <2> QED
    BY <2>1, <2>2 DEF IsSum
<1>11. \A s \in S : w[s] = CreditWeights[s]
  BY DEF w, CreditWeights
<1>12. \A T \in SUBSET S : sum[T] = g[T]
  BY <1>10, <1>11, WeightsAreNumbers, SumsAgree
<1> QED
  BY <1>1, <1>12

\* The credits of a timetable are a natural number.
LEMMA CreditsAreNumbers ==
  ASSUME NEW S \in SUBSET Sections
  PROVE  Credits(S) \in Nat
<1>1. PICK g : IsSum(CreditWeights, g, Sections)
  BY WeightsAreNumbers, SumExists
<1>2. \A T \in SUBSET Sections : g[T] \in Nat
  BY <1>1, WeightsAreNumbers, SumsAreNumbers
<1> QED
  BY <1>1, <1>2, CreditsAreSums

\* A timetable has at least the credits of each of its classes.
LEMMA CreditsCountEach ==
  ASSUME NEW S \in SUBSET Sections, NEW s \in S
  PROVE  Catalog[s].credit \in Nat /\ Catalog[s].credit <= Credits(S)
<1>1. PICK g : IsSum(CreditWeights, g, Sections)
  BY WeightsAreNumbers, SumExists
<1>2. \A T \in SUBSET Sections : g[T] \in Nat
  BY <1>1, WeightsAreNumbers, SumsAreNumbers
<1>3. g[S] = CreditWeights[s] + g[S \ {s}]
  BY <1>1, WeightsAreNumbers, SumTakesAny
<1>4. CreditWeights[s] = Catalog[s].credit /\ Catalog[s].credit \in Nat
  BY CatalogIsTyped DEF CreditWeights
<1>5. Credits(S) = g[S]
  BY <1>1, CreditsAreSums
<1>6. g[S \ {s}] \in Nat
  BY <1>2
<1> HIDE DEF Credits, CreditWeights
<1> QED
  BY <1>3, <1>4, <1>5, <1>6

\* Classes of different kinds have at most the credits allowed for all the kinds.
LEMMA CreditsAreBounded ==
  ASSUME NEW D \in SUBSET Sections,
         NEW R, IsFiniteSet(R), NEW v \in [R -> Nat], NEW h, IsSum(v, h, R),
         NEW kind \in [D -> R], \A s, t \in D : s # t => kind[s] # kind[t],
         \A s \in D : Catalog[s].credit <= v[kind[s]]
  PROVE  Credits(D) <= h[R]
<1>1. PICK g : IsSum(CreditWeights, g, Sections)
  BY WeightsAreNumbers, SumExists
<1>2. \A s \in D : CreditWeights[s] <= v[kind[s]]
  BY DEF CreditWeights
<1>3. g[D] <= h[R]
  BY <1>1, <1>2, WeightsAreNumbers, SumIsBounded
<1> QED
  BY <1>1, <1>3, CreditsAreSums

\* Two timetables without a common class have together the sum of their credits.
LEMMA CreditsAdd ==
  ASSUME NEW A \in SUBSET Sections, NEW B \in SUBSET Sections, A \cap B = {}
  PROVE  Credits(A \cup B) = Credits(A) + Credits(B)
<1>1. PICK g : IsSum(CreditWeights, g, Sections)
  BY WeightsAreNumbers, SumExists
<1>2. g[A \cup B] = g[A] + g[B]
  <2>1. \A X, Y \in SUBSET Sections : X \cap Y = {} => g[X \cup Y] = g[X] + g[Y]
    BY <1>1, WeightsAreNumbers, SumsAdd
  <2> QED
    BY <2>1
<1>3. Credits(A) = g[A] /\ Credits(B) = g[B]
  BY <1>1, CreditsAreSums
<1>4. Credits(A \cup B) = g[A \cup B]
  <2>1. A \cup B \in SUBSET Sections
    OBVIOUS
  <2> QED
    BY <1>1, <2>1, CreditsAreSums
<1> QED
  BY <1>2, <1>3, <1>4

\* So many sections have so many credits at least.
LEMMA CreditsAtLeast ==
  ASSUME NEW S \in SUBSET Sections, NEW least \in Nat, \A s \in S : least <= Catalog[s].credit
  PROVE  Cardinality(S) \in Nat /\ Cardinality(S) * least <= Credits(S)
<1> DEFINE F == {T \in SUBSET S : Cardinality(T) * least <= Credits(T)}
<1>0. IsFiniteSet(S)
  BY CatalogIsTyped, FS_Subset
<1>1. ASSUME NEW T \in SUBSET S, \A x \in T : T \ {x} \in F PROVE T \in F
  <2>0. IsFiniteSet(T) /\ Cardinality(T) \in Nat /\ Credits(T) \in Nat
    BY <1>0, FS_Subset, FS_CardinalityType, CreditsAreNumbers
  <2>1. CASE T = {}
    <3>1. Cardinality(T) = 0
      BY <2>1, FS_EmptySet
    <3>2. Cardinality(T) * least = 0
      BY <3>1
    <3> QED
      BY <2>0, <3>2
  <2>2. CASE T # {}
    <3>1. PICK x \in T : TRUE
      BY <2>2
    <3> DEFINE Q == T \ {x}
    <3>2. Q \in SUBSET Sections /\ {x} \in SUBSET Sections /\ Q \cap {x} = {} /\ Q \cup {x} = T
      OBVIOUS
    <3>3. Cardinality(T) = Cardinality(Q) + 1 /\ Cardinality(Q) \in Nat
      <4>1. IsFiniteSet(Q) /\ Cardinality(Q) = Cardinality(T) - 1
        BY <2>0, FS_RemoveElement
      <4>2. Cardinality(Q) \in Nat
        BY <4>1, FS_CardinalityType
      <4> QED
        BY <2>0, <4>1, <4>2
    <3>4. Q \in F
      BY <1>1
    <3>5. Cardinality(Q) * least <= Credits(Q)
      BY <3>4
    <3> HIDE DEF Q
    <3>6. Credits(T) = Credits(Q) + Credits({x})
      BY <3>2, CreditsAdd
    <3>7. Catalog[x].credit \in Nat /\ Catalog[x].credit <= Credits({x})
      BY <3>2, CreditsCountEach
    <3>8. Credits(Q) \in Nat /\ Credits({x}) \in Nat
      BY <3>2, CreditsAreNumbers
    <3>9. least <= Credits({x})
      BY <3>7, <3>8
    <3>10. \A q \in Nat : (q + 1) * least = q * least + least /\ q * least \in Nat
      OBVIOUS
    <3>11. Cardinality(T) * least <= Credits(T)
      BY <3>3, <3>5, <3>6, <3>8, <3>9, <3>10
    <3> QED
      BY <3>11
  <2> QED
    BY <2>1, <2>2
<1> HIDE DEF F
<1>2. \A T \in SUBSET S : T \in F
  BY <1>0, <1>1, PartByPart
<1>3. S \in F
  BY <1>2
<1> QED
  BY <1>0, <1>3, FS_CardinalityType DEF F

-----------------------------------------------------------------------------
(* Orders *)

\* Before is a strict total order of S.
LinearlyOrders(Before, S) ==
  /\ \A x \in S : <<x, x>> \notin Before
  /\ \A x, y, z \in S : <<x, y>> \in Before /\ <<y, z>> \in Before => <<x, z>> \in Before
  /\ \A x, y \in S : x # y => <<x, y>> \in Before \/ <<y, x>> \in Before

\* The same order from the other end.
Backwards(Before) == {<<p[2], p[1]>> : p \in Before}

\* A strict linear order read backwards is one.
LEMMA BackwardsOrders ==
  ASSUME NEW S, NEW Before \in SUBSET (S \X S), LinearlyOrders(Before, S)
  PROVE  /\ LinearlyOrders(Backwards(Before), S)
         /\ \A x, y \in S : <<x, y>> \in Backwards(Before) <=> <<y, x>> \in Before
<1>1. \A x, y \in S : <<x, y>> \in Backwards(Before) <=> <<y, x>> \in Before
  BY DEF Backwards
<1> QED
  BY <1>1 DEF LinearlyOrders

\* What comes later in an order has more before it.
LEMMA MoreBefore ==
  ASSUME NEW S, IsFiniteSet(S), NEW Before, LinearlyOrders(Before, S)
  PROVE  LET Below(x) == {y \in S : <<y, x>> \in Before} IN
         /\ \A x \in S : Cardinality(Below(x)) \in 0..(Cardinality(S) - 1)
         /\ \A x, y \in S : <<x, y>> \in Before => Cardinality(Below(x)) < Cardinality(Below(y))
<1> DEFINE Below(x) == {y \in S : <<y, x>> \in Before}
           n == Cardinality(S)
<1>1. n \in Nat
  BY FS_CardinalityType
<1>2. ASSUME NEW x \in S
      PROVE  IsFiniteSet(Below(x)) /\ Cardinality(Below(x)) \in 0..(n - 1)
  <2>1. Below(x) \subseteq S \ {x}
    BY DEF LinearlyOrders
  <2>2. IsFiniteSet(S \ {x}) /\ Cardinality(S \ {x}) = n - 1
    BY FS_RemoveElement
  <2>3. IsFiniteSet(Below(x)) /\ Cardinality(Below(x)) <= n - 1
    <3> HIDE DEF Below, n
    <3>1. Below(x) \in SUBSET (S \ {x})
      BY <2>1
    <3>2. IsFiniteSet(Below(x)) /\ Cardinality(Below(x)) <= Cardinality(S \ {x})
      BY <3>1, <2>2, FS_Subset
    <3> QED
      BY <3>2, <2>2
  <2>4. Cardinality(Below(x)) \in Nat
    BY <2>3, FS_CardinalityType
  <2> QED
    BY <2>3, <2>4, <1>1
<1>3. ASSUME NEW x \in S, NEW y \in S, <<x, y>> \in Before
      PROVE  Cardinality(Below(x)) < Cardinality(Below(y))
  <2>1. x \notin Below(x) /\ Below(x) \cup {x} \subseteq Below(y)
    BY <1>3 DEF LinearlyOrders
  <2>2. Cardinality(Below(x) \cup {x}) = Cardinality(Below(x)) + 1
    BY <1>2, <2>1, FS_AddElement
  <2>3. Cardinality(Below(x) \cup {x}) <= Cardinality(Below(y))
    BY <1>2, <2>1, FS_Subset
  <2>4. Cardinality(Below(x)) \in Int /\ Cardinality(Below(y)) \in Int
    BY <1>1, <1>2
  <2> HIDE DEF Below, n
  <2> QED
    BY <2>2, <2>3, <2>4
<1> QED
  BY <1>2, <1>3

\* Each position of a finite ordered set is taken: counting what comes before is
\* an injection into as many numbers as the set has members.
LEMMA PositionsAreTaken ==
  ASSUME NEW S, IsFiniteSet(S), NEW Before, LinearlyOrders(Before, S)
  PROVE  \A i \in 1..Cardinality(S) :
           \E x \in S : Cardinality({y \in S : <<y, x>> \in Before}) = i - 1
<1> DEFINE Below(x) == {y \in S : <<y, x>> \in Before}
           n == Cardinality(S)
           f == [x \in S |-> Cardinality(Below(x))]
<1>1. n \in Nat
  BY FS_CardinalityType
<1>2. \A x \in S : Cardinality(Below(x)) \in 0..(n - 1)
  BY MoreBefore
<1>3. \A x, y \in S : <<x, y>> \in Before => Cardinality(Below(x)) < Cardinality(Below(y))
  BY MoreBefore
<1> HIDE DEF Below
<1>4. f \in [S -> 0..(n - 1)]
  BY <1>2
<1>5. \A x, y \in S : f[x] = f[y] => x = y
  <2> SUFFICES ASSUME NEW x \in S, NEW y \in S, x # y PROVE f[x] # f[y]
    OBVIOUS
  <2>1. <<x, y>> \in Before \/ <<y, x>> \in Before
    BY DEF LinearlyOrders
  <2>2. Cardinality(Below(x)) < Cardinality(Below(y)) \/ Cardinality(Below(y)) < Cardinality(Below(x))
    BY <2>1, <1>3
  <2>3. Cardinality(Below(x)) \in Int /\ Cardinality(Below(y)) \in Int
    BY <1>1, <1>2
  <2> QED
    BY <2>2, <2>3
<1>6. f \in Injection(S, 0..(n - 1))
  BY <1>4, <1>5 DEF Injection, IsInjective
<1>7. IsFiniteSet(0..(n - 1)) /\ Cardinality(0..(n - 1)) = n
  BY <1>1, FS_Interval
<1>8. f \in Surjection(S, 0..(n - 1))
  <2> HIDE DEF f, n
  <2> QED
    BY <1>6, <1>7, FS_Injection DEF n
<1>9. ASSUME NEW i \in 1..n PROVE \E x \in S : Cardinality(Below(x)) = i - 1
  <2>1. i - 1 \in 0..(n - 1)
    BY <1>1
  <2>2. PICK x \in S : f[x] = i - 1
    BY <2>1, <1>8 DEF Surjection
  <2> QED
    BY <2>2
<1> QED
  BY <1>9 DEF Below

\* Putting each member of a set at one position leaves none of them out.
LEMMA NoneIsLeftOut ==
  ASSUME NEW S, IsFiniteSet(S), NEW list \in [1..Cardinality(S) -> S],
         \A i, j \in 1..Cardinality(S) : list[i] = list[j] => i = j
  PROVE  \A x \in S : \E i \in 1..Cardinality(S) : list[i] = x
<1> DEFINE D == 1..Cardinality(S)
<1>1. Cardinality(S) \in Nat
  BY FS_CardinalityType
<1>2. IsFiniteSet(D) /\ Cardinality(D) = Cardinality(S)
  BY <1>1, FS_Interval
<1>3. list \in Injection(D, S)
  BY DEF Injection, IsInjective
<1>4. list \in Surjection(D, S)
  <2> HIDE DEF D
  <2> QED
    BY <1>2, <1>3, FS_Injection
<1> QED
  BY <1>4 DEF Surjection

\* The members of S, each of them once.
Lists(list, S) ==
  /\ list \in Seq(S)
  /\ \A i, j \in 1..Len(list) : list[i] = list[j] => i = j
  /\ \A x \in S : \E i \in 1..Len(list) : list[i] = x

\* A sequence has no more members than items.
LEMMA ItemsAreCounted ==
  ASSUME NEW T, NEW q \in Seq(T)
  PROVE  IsFiniteSet(ToSet(q)) /\ Cardinality(ToSet(q)) <= Len(q)
<1> DEFINE D == 1..Len(q)
           f == [i \in D |-> q[i]]
<1>1. Len(q) \in Nat
  OBVIOUS
<1>2. IsFiniteSet(D) /\ Cardinality(D) = Len(q)
  BY <1>1, FS_Interval
<1>3. f \in Surjection(D, ToSet(q))
  BY DEF Surjection, ToSet
<1> HIDE DEF D, f
<1> QED
  BY <1>2, <1>3, FS_Surjection

\* Each member stands where as many come before it as the position says.
LEMMA Listing ==
  ASSUME NEW S, IsFiniteSet(S), NEW Before, LinearlyOrders(Before, S),
         NEW list \in [1..Cardinality(S) -> S],
         \A i \in 1..Cardinality(S) : Cardinality({y \in S : <<y, list[i]>> \in Before}) = i - 1
  PROVE  /\ Lists(list, S) /\ Len(list) = Cardinality(S)
         /\ \A i, j \in 1..Len(list) : i < j => <<list[i], list[j]>> \in Before
<1> DEFINE Below(x) == {y \in S : <<y, x>> \in Before}
           n == Cardinality(S)
<1>1. n \in Nat
  BY FS_CardinalityType
<1>2. list \in Seq(S) /\ Len(list) = n
  BY <1>1
<1>3. \A x, y \in S : <<x, y>> \in Before => Cardinality(Below(x)) < Cardinality(Below(y))
  BY MoreBefore
<1>4. \A i \in 1..n : list[i] \in S /\ Cardinality(Below(list[i])) = i - 1
  OBVIOUS
<1> HIDE DEF Below
<1>5. \A i, j \in 1..n : list[i] = list[j] => i = j
  <2> SUFFICES ASSUME NEW i \in 1..n, NEW j \in 1..n, list[i] = list[j] PROVE i = j
    OBVIOUS
  <2>1. Cardinality(Below(list[i])) = i - 1 /\ Cardinality(Below(list[j])) = j - 1
    BY <1>4
  <2>2. i - 1 = j - 1
    BY <2>1
  <2> QED
    BY <1>1, <2>2
<1>6. \A x \in S : \E i \in 1..n : list[i] = x
  BY <1>5, NoneIsLeftOut
<1>7. ASSUME NEW i \in 1..n, NEW j \in 1..n, i < j PROVE <<list[i], list[j]>> \in Before
  <2>1. list[i] # list[j]
    BY <1>5, <1>7
  <2>2. <<list[i], list[j]>> \in Before \/ <<list[j], list[i]>> \in Before
    BY <1>4, <2>1 DEF LinearlyOrders
  <2>3. ~(j - 1 < i - 1)
    BY <1>1, <1>7
  <2> QED
    BY <1>3, <1>4, <2>2, <2>3
<1> QED
  BY <1>2, <1>5, <1>6, <1>7 DEF Lists

-----------------------------------------------------------------------------
(* Sorting *)

\* Keys of n integers each are ordered by KeyLess.
KeysBefore(n) == {p \in [1..n -> Int] \X [1..n -> Int] : KeyLess(p[1], p[2])}

\* Keys of one length are strictly and linearly ordered, first difference first.
LEMMA KeysAreOrdered ==
  ASSUME NEW n \in Nat
  PROVE  LinearlyOrders(KeysBefore(n), [1..n -> Int])
<1> DEFINE K == [1..n -> Int]
<1>1. ASSUME NEW k \in K, NEW l \in K
      PROVE  KeyLess(k, l) <=> \E i \in 1..n : k[i] < l[i] /\ \A j \in 1..(i - 1) : k[j] = l[j]
  BY DEF KeyLess
<1>2. ASSUME NEW k \in K PROVE ~KeyLess(k, k)
  <2>1. \A i \in 1..n : k[i] \in Int
    OBVIOUS
  <2> QED
    BY <1>1, <2>1
<1>3. ASSUME NEW k \in K, NEW l \in K, NEW m \in K, KeyLess(k, l), KeyLess(l, m)
      PROVE  KeyLess(k, m)
  <2>1. PICK a \in 1..n : k[a] < l[a] /\ \A j \in 1..(a - 1) : k[j] = l[j]
    BY <1>1, <1>3
  <2>2. PICK b \in 1..n : l[b] < m[b] /\ \A j \in 1..(b - 1) : l[j] = m[j]
    BY <1>1, <1>3
  <2>n. \A i \in 1..n : k[i] \in Int /\ l[i] \in Int /\ m[i] \in Int
    OBVIOUS
  <2>3. CASE a < b
    <3>1. l[a] = m[a] /\ \A j \in 1..(a - 1) : k[j] = m[j]
      BY <2>1, <2>2, <2>3
    <3>2. k[a] < m[a]
      BY <2>1, <3>1
    <3> QED
      BY <1>1, <3>1, <3>2
  <2>4. CASE a = b
    <3>1. k[a] < m[a]
      BY <2>1, <2>2, <2>4, <2>n
    <3>2. \A j \in 1..(a - 1) : k[j] = m[j]
      BY <2>1, <2>2, <2>4
    <3> QED
      BY <1>1, <3>1, <3>2
  <2>5. CASE b < a
    <3>1. k[b] = l[b] /\ \A j \in 1..(b - 1) : k[j] = m[j]
      BY <2>1, <2>2, <2>5
    <3>2. k[b] < m[b]
      BY <2>2, <3>1
    <3> QED
      BY <1>1, <3>1, <3>2
  <2> QED
    BY <2>3, <2>4, <2>5
<1>4. ASSUME NEW k \in K, NEW l \in K, k # l PROVE KeyLess(k, l) \/ KeyLess(l, k)
  <2> DEFINE D == {i \in 1..n : k[i] # l[i]}
  <2>1. D \in SUBSET Nat /\ D # {}
    BY <1>4
  <2>2. PICK i \in D : \A j \in D : i <= j
    BY <2>1, LeastNumber
  <2>3. \A j \in 1..(i - 1) : k[j] = l[j]
    BY <2>2
  <2>4. i \in 1..n /\ k[i] \in Int /\ l[i] \in Int /\ k[i] # l[i]
    BY <2>2
  <2>5. k[i] < l[i] \/ l[i] < k[i]
    BY <2>4
  <2> QED
    BY <1>1, <2>3, <2>4, <2>5
<1> HIDE DEF K
<1>5. \A k, l \in K : <<k, l>> \in KeysBefore(n) <=> KeyLess(k, l)
  BY DEF KeysBefore, K
<1>6. LinearlyOrders(KeysBefore(n), K)
  BY <1>2, <1>3, <1>4, <1>5 DEF LinearlyOrders
<1> QED
  BY <1>6 DEF K

\* Where keys of four numbers differ first decides.
LEMMA KeyFalls ==
  \A a1, a2, a3, a4, b1, b2, b3, b4 \in Int :
    (a1 < b1 \/ (a1 = b1 /\ (a2 < b2 \/ (a2 = b2 /\ (a3 < b3 \/ (a3 = b3 /\ a4 < b4))))))
      => KeyLess(<<a1, a2, a3, a4>>, <<b1, b2, b3, b4>>)
<1> SUFFICES ASSUME NEW a1 \in Int, NEW a2 \in Int, NEW a3 \in Int, NEW a4 \in Int,
                    NEW b1 \in Int, NEW b2 \in Int, NEW b3 \in Int, NEW b4 \in Int,
                    a1 < b1 \/ (a1 = b1 /\ (a2 < b2 \/ (a2 = b2 /\ (a3 < b3 \/ (a3 = b3 /\ a4 < b4)))))
             PROVE  KeyLess(<<a1, a2, a3, a4>>, <<b1, b2, b3, b4>>)
  OBVIOUS
<1> DEFINE a == <<a1, a2, a3, a4>>
           b == <<b1, b2, b3, b4>>
<1>1. /\ a[1] = a1 /\ a[2] = a2 /\ a[3] = a3 /\ a[4] = a4
      /\ b[1] = b1 /\ b[2] = b2 /\ b[3] = b3 /\ b[4] = b4 /\ DOMAIN a = 1..4
  OBVIOUS
<1> HIDE DEF a, b
<1>2. PICK i \in 1..4 : a[i] < b[i] /\ \A j \in 1..(i - 1) : a[j] = b[j]
  <2>1. CASE a1 < b1
    <3> WITNESS 1 \in 1..4
    <3> QED
      BY <1>1, <2>1
  <2>2. CASE a1 = b1 /\ a2 < b2
    <3> WITNESS 2 \in 1..4
    <3> QED
      BY <1>1, <2>2
  <2>3. CASE a1 = b1 /\ a2 = b2 /\ a3 < b3
    <3> WITNESS 3 \in 1..4
    <3> QED
      BY <1>1, <2>3
  <2>4. CASE a1 = b1 /\ a2 = b2 /\ a3 = b3 /\ a4 < b4
    <3> WITNESS 4 \in 1..4
    <3> QED
      BY <1>1, <2>4
  <2> QED
    BY <2>1, <2>2, <2>3, <2>4
<1>3. KeyLess(a, b)
  BY <1>1, <1>2 DEF KeyLess
<1> QED
  BY <1>3 DEF a, b

\* What the sort of a list compares: the keys of its items, then their positions.
Keyed(key, I) == {<<key[i], i>> : i \in I}
KeyedBefore(key, I, Less) ==
  {p \in Keyed(key, I) \X Keyed(key, I) :
     \/ <<p[1][1], p[2][1]>> \in Less
     \/ <<p[2][1], p[1][1]>> \notin Less /\ p[1][2] < p[2][2]}

\* Keys paired with their positions are strictly and linearly ordered, ties by position.
LEMMA KeyedAreOrdered ==
  ASSUME NEW I \in SUBSET Nat, IsFiniteSet(I), NEW K, NEW key \in [I -> K],
         NEW Less, LinearlyOrders(Less, K)
  PROVE  /\ IsFiniteSet(Keyed(key, I)) /\ Cardinality(Keyed(key, I)) = Cardinality(I)
         /\ LinearlyOrders(KeyedBefore(key, I, Less), Keyed(key, I))
<1> DEFINE S == Keyed(key, I)
           f == [i \in I |-> <<key[i], i>>]
<1>1. f \in Bijection(I, S)
  BY DEF Bijection, Injection, Surjection, IsInjective, Keyed
<1>2. IsFiniteSet(S) /\ Cardinality(S) = Cardinality(I)
  <2>1. ExistsBijection(I, S)
    BY <1>1 DEF ExistsBijection
  <2> HIDE DEF f, S
  <2> QED
    BY <2>1, FS_Bijection
<1> HIDE DEF S
<1>3. \A x \in S : \E i \in I : x = <<key[i], i>>
  BY DEF S, Keyed
<1>4. ASSUME NEW i \in I, NEW j \in I
      PROVE  <<(<<key[i], i>>), (<<key[j], j>>)>> \in KeyedBefore(key, I, Less)
               <=> \/ <<key[i], key[j]>> \in Less
                   \/ <<key[j], key[i]>> \notin Less /\ i < j
  BY DEF KeyedBefore, Keyed
<1>5. \A i \in I : key[i] \in K /\ i \in Nat
  OBVIOUS
<1> DEFINE Before == KeyedBefore(key, I, Less)
<1> HIDE DEF Before
<1>6. \A x \in S : <<x, x>> \notin Before
  <2> SUFFICES ASSUME NEW i \in I PROVE <<(<<key[i], i>>), (<<key[i], i>>)>> \notin Before
    BY <1>3
  <2>1. <<key[i], key[i]>> \notin Less /\ ~(i < i)
    BY <1>5 DEF LinearlyOrders
  <2> QED
    BY <1>4, <2>1 DEF Before
<1>7. \A x, y, z \in S : <<x, y>> \in Before /\ <<y, z>> \in Before => <<x, z>> \in Before
  <2> SUFFICES ASSUME NEW h \in I, NEW i \in I, NEW j \in I,
                      <<(<<key[h], h>>), (<<key[i], i>>)>> \in Before,
                      <<(<<key[i], i>>), (<<key[j], j>>)>> \in Before
               PROVE  <<(<<key[h], h>>), (<<key[j], j>>)>> \in Before
    BY <1>3
  <2>1. <<key[h], key[i]>> \in Less \/ (<<key[i], key[h]>> \notin Less /\ h < i)
    BY <1>4 DEF Before
  <2>2. <<key[i], key[j]>> \in Less \/ (<<key[j], key[i]>> \notin Less /\ i < j)
    BY <1>4 DEF Before
  <2>3. <<key[h], key[j]>> \in Less \/ (<<key[j], key[h]>> \notin Less /\ h < j)
    BY <1>5, <2>1, <2>2 DEF LinearlyOrders
  <2> QED
    BY <1>4, <2>3 DEF Before
<1>8. \A x, y \in S : x # y => <<x, y>> \in Before \/ <<y, x>> \in Before
  <2> SUFFICES ASSUME NEW i \in I, NEW j \in I, i # j
               PROVE  \/ <<(<<key[i], i>>), (<<key[j], j>>)>> \in Before
                      \/ <<(<<key[j], j>>), (<<key[i], i>>)>> \in Before
    BY <1>3
  <2>1. i < j \/ j < i
    BY <1>5
  <2>2. \/ <<key[i], key[j]>> \in Less \/ (<<key[j], key[i]>> \notin Less /\ i < j)
        \/ <<key[j], key[i]>> \in Less \/ (<<key[i], key[j]>> \notin Less /\ j < i)
    BY <2>1
  <2> QED
    BY <1>4, <2>2 DEF Before
<1>9. LinearlyOrders(Before, S)
  BY <1>6, <1>7, <1>8 DEF LinearlyOrders
<1> QED
  BY <1>2, <1>9 DEF S, Before

\* How many come before x.
PlaceOf(x, S, Before) == Cardinality({y \in S : <<y, x>> \in Before})

TakesPositions(S, Before) ==
  \A k \in 1..Cardinality(S) : \E x \in S : PlaceOf(x, S, Before) = k - 1

\* Every place in the order of the keyed positions is taken.
LEMMA KeyedPositionsAreTaken ==
  ASSUME NEW I \in SUBSET Nat, IsFiniteSet(I), NEW K, NEW key \in [I -> K],
         NEW Less, LinearlyOrders(Less, K)
  PROVE  TakesPositions(Keyed(key, I), KeyedBefore(key, I, Less))
<1> DEFINE S == Keyed(key, I)
           Before == KeyedBefore(key, I, Less)
<1>1. IsFiniteSet(S) /\ LinearlyOrders(Before, S)
  BY KeyedAreOrdered
<1> HIDE DEF S, Before
<1>2. \A k \in 1..Cardinality(S) : \E x \in S : Cardinality({y \in S : <<y, x>> \in Before}) = k - 1
  BY <1>1, PositionsAreTaken
<1>3. TakesPositions(S, Before)
  BY <1>2 DEF PlaceOf, TakesPositions
<1> QED
  BY <1>3 DEF S, Before

\* A sorted list has the kept items, each of them once, and no later item has a
\* lesser key than an earlier one.
KeepsSorted(sorted, list, I, key, Less) ==
  LET n == Cardinality(I) IN
  /\ sorted = [k \in 1..n |-> sorted[k]]
  /\ \E p \in [1..n -> I] :
       /\ \A k \in 1..n : sorted[k] = list[p[k]]
       /\ \A k, l \in 1..n : p[k] = p[l] => k = l
       /\ \A i \in I : \E k \in 1..n : p[k] = i
       /\ \A k, l \in 1..n : k < l => <<key[p[l]], key[p[k]]>> \notin Less

\* Items read off by their place in the order of their keys are a sorted list of them.
LEMMA SortedItems ==
  ASSUME NEW I \in SUBSET Nat, IsFiniteSet(I), NEW K, NEW key \in [I -> K],
         NEW Less, LinearlyOrders(Less, K), NEW list,
         NEW at, \A k \in 1..Cardinality(I) :
                   /\ at[k] \in Keyed(key, I)
                   /\ Cardinality({y \in Keyed(key, I) : <<y, at[k]>> \in KeyedBefore(key, I, Less)}) = k - 1
  PROVE  KeepsSorted([k \in 1..Cardinality(I) |-> list[at[k][2]]], list, I, key, Less)
<1> DEFINE S == Keyed(key, I)
           Before == KeyedBefore(key, I, Less)
           n == Cardinality(I)
           sorted == [k \in 1..n |-> at[k]]
           p == [k \in 1..n |-> at[k][2]]
<1>1. IsFiniteSet(S) /\ Cardinality(S) = n /\ LinearlyOrders(Before, S)
  BY KeyedAreOrdered
<1>2. n \in Nat
  BY FS_CardinalityType
<1>3. sorted \in [1..n -> S] /\ \A k \in 1..n : sorted[k] = at[k]
  OBVIOUS
<1>4. \A k \in 1..n : at[k] \in S /\ Cardinality({y \in S : <<y, at[k]>> \in Before}) = k - 1
  OBVIOUS
<1>5. \A x \in S : x[2] \in I /\ x = <<key[x[2]], x[2]>>
  BY DEF Keyed
<1>6. \A i \in I : <<key[i], i>> \in S
  BY DEF Keyed
<1>7. \A x, y \in S : <<x, y>> \in Before => <<key[y[2]], key[x[2]]>> \notin Less
  <2> SUFFICES ASSUME NEW x \in S, NEW y \in S, <<x, y>> \in Before
               PROVE  <<key[y[2]], key[x[2]]>> \notin Less
    OBVIOUS
  <2>1. x[1] = key[x[2]] /\ y[1] = key[y[2]]
    BY <1>5
  <2>2. <<x[1], y[1]>> \in Less \/ <<y[1], x[1]>> \notin Less
    BY DEF KeyedBefore
  <2>3. key[x[2]] \in K /\ key[y[2]] \in K
    BY <1>5
  <2> QED
    BY <2>1, <2>2, <2>3 DEF LinearlyOrders
<1> HIDE DEF S, Before, n
<1>8. \A k \in 1..n : Cardinality({y \in S : <<y, sorted[k]>> \in Before}) = k - 1
  BY <1>3, <1>4
<1>9. /\ Lists(sorted, S) /\ Len(sorted) = n
      /\ \A k, l \in 1..n : k < l => <<sorted[k], sorted[l]>> \in Before
  <2> HIDE DEF sorted
  <2>1. sorted \in [1..Cardinality(S) -> S]
    BY <1>1, <1>3
  <2>2. \A k \in 1..Cardinality(S) : Cardinality({y \in S : <<y, sorted[k]>> \in Before}) = k - 1
    BY <1>1, <1>8
  <2>3. /\ Lists(sorted, S) /\ Len(sorted) = Cardinality(S)
        /\ \A i, j \in 1..Len(sorted) : i < j => <<sorted[i], sorted[j]>> \in Before
    BY <1>1, <2>1, <2>2, Listing
  <2> QED
    BY <1>1, <2>3
<1>10. p \in [1..n -> I] /\ \A k \in 1..n : p[k] = at[k][2]
  BY <1>4, <1>5
<1>11. \A k, l \in 1..n : p[k] = p[l] => k = l
  <2> SUFFICES ASSUME NEW k \in 1..n, NEW l \in 1..n, p[k] = p[l] PROVE k = l
    OBVIOUS
  <2>1. at[k] = at[l]
    BY <1>4, <1>5
  <2> QED
    BY <1>9, <2>1 DEF Lists
<1>12. \A i \in I : \E k \in 1..n : p[k] = i
  <2> SUFFICES ASSUME NEW i \in I PROVE \E k \in 1..n : p[k] = i
    OBVIOUS
  <2>1. PICK k \in 1..n : sorted[k] = <<key[i], i>>
    BY <1>6, <1>9 DEF Lists
  <2> QED
    BY <2>1
<1>13. \A k, l \in 1..n : k < l => <<key[p[l]], key[p[k]]>> \notin Less
  BY <1>3, <1>4, <1>7, <1>9
<1> DEFINE result == [k \in 1..n |-> list[at[k][2]]]
<1>14. result = [k \in 1..n |-> result[k]] /\ \A k \in 1..n : result[k] = list[p[k]]
  OBVIOUS
<1> HIDE DEF p, result
<1>15. KeepsSorted(result, list, I, key, Less)
  BY <1>10, <1>11, <1>12, <1>13, <1>14 DEF KeepsSorted, n
<1> QED
  BY <1>15 DEF result, n

\* A sorted list has the items it sorts, each as often.
LEMMA SortedListIs ==
  ASSUME NEW T, NEW list \in Seq(T), NEW I \in SUBSET (1..Len(list)), NEW key, NEW Less,
         NEW q, KeepsSorted(q, list, I, key, Less)
  PROVE  /\ q \in Seq(T) /\ Len(q) = Cardinality(I)
         /\ ToSet(q) = {list[i] : i \in I}
         /\ (\A i, j \in 1..Len(list) : list[i] = list[j] => i = j)
              => \A k, l \in 1..Len(q) : q[k] = q[l] => k = l
<1> DEFINE n == Cardinality(I)
<1>1. n \in Nat
  <2>1. IsFiniteSet(1..Len(list))
    BY FS_Interval
  <2>2. IsFiniteSet(I)
    BY <2>1, FS_Subset
  <2> QED
    BY <2>2, FS_CardinalityType
<1>2. PICK p \in [1..n -> I] :
        /\ \A k \in 1..n : q[k] = list[p[k]]
        /\ \A k, l \in 1..n : p[k] = p[l] => k = l
        /\ \A i \in I : \E k \in 1..n : p[k] = i
  BY DEF KeepsSorted
<1>3. q = [k \in 1..n |-> q[k]]
  BY DEF KeepsSorted
<1> HIDE DEF n
<1>4. \A k \in 1..n : p[k] \in I /\ p[k] \in 1..Len(list) /\ q[k] \in T
  <2>1. \A i \in 1..Len(list) : list[i] \in T
    OBVIOUS
  <2>2. \A k \in 1..n : p[k] \in I
    OBVIOUS
  <2> QED
    BY <1>2, <2>1, <2>2
<1>5. q \in Seq(T) /\ Len(q) = n
  BY <1>1, <1>3, <1>4
<1>6. ToSet(q) = {list[i] : i \in I}
  <2>1. ToSet(q) = {q[k] : k \in 1..n}
    BY <1>1, <1>5 DEF ToSet
  <2>2. \A x \in ToSet(q) : x \in {list[i] : i \in I}
    BY <1>2, <1>4, <2>1
  <2>3. \A i \in I : list[i] \in ToSet(q)
    BY <1>2, <2>1
  <2> QED
    BY <2>2, <2>3
<1>7. ASSUME \A i, j \in 1..Len(list) : list[i] = list[j] => i = j
      PROVE  \A k, l \in 1..n : q[k] = q[l] => k = l
  <2> SUFFICES ASSUME NEW k \in 1..n, NEW l \in 1..n, q[k] = q[l] PROVE k = l
    OBVIOUS
  <2>1. p[k] = p[l]
    BY <1>2, <1>4, <1>7
  <2> QED
    BY <1>2, <2>1
<1> QED
  BY <1>5, <1>6, <1>7 DEF n

-----------------------------------------------------------------------------
(* Meetings and names *)

\* Days and minutes of a class meeting are natural numbers.
LEMMA NumbersOfMeetings ==
  ASSUME NEW s \in Sections, NEW m \in Catalog[s].meets
  PROVE  m.day \in Nat /\ m.start \in Nat /\ m.end \in Nat /\ m.no \in Nat
BY CatalogIsTyped

\* Class times are ordered by their start and their place in the section's list.
LEMMA PrecedesOrders ==
  ASSUME NEW a, NEW b, NEW c, a.start \in Nat, b.start \in Nat, c.start \in Nat,
         a.no \in Nat, b.no \in Nat, c.no \in Nat
  PROVE  /\ ~Precedes(a, a)
         /\ Precedes(a, b) => ~Precedes(b, a) /\ a.start <= b.start
         /\ Precedes(a, b) /\ ~Precedes(c, b) => Precedes(a, c)
         /\ ~Precedes(b, a) /\ Precedes(b, c) => Precedes(a, c)
         /\ Precedes(a, b) /\ Precedes(b, c) => Precedes(a, c)
         /\ ~Precedes(a, b) /\ ~Precedes(b, a) => a.start = b.start /\ a.no = b.no
BY DEF Precedes

\* When every named course is among the taken ones, each id names a taken class or
\* course.
LEMMA RequiredAreNamed ==
  ASSUME NEW T, NEW ids, Normalized(ids, T) \subseteq CoursesOf(T)
  PROVE  ids \subseteq T \cup CoursesOf(T)
<1> SUFFICES ASSUME NEW id \in ids PROVE id \in T \cup CoursesOf(T)
  OBVIOUS
<1>1. CASE \E s \in T : id \in {s, CourseOf(s)}
  BY <1>1 DEF CoursesOf
<1>2. CASE ~\E s \in T : id \in {s, CourseOf(s)}
  <2>1. id \in Normalized(ids, T)
    BY <1>2 DEF Normalized
  <2> QED
    BY <2>1
<1> QED
  BY <1>1, <1>2

\* A name stands for one course wherever it is looked up.
LEMMA OneCourseByName ==
  ASSUME NEW s \in Sections, NEW t \in Sections, NEW id,
         id \in {s, CourseOf(s)}, id \in {t, CourseOf(t)}
  PROVE  CourseOf(s) = CourseOf(t)
BY SectionsAreNoCourses DEF CourseOf

\* An id that names a class of the context is normalised to its course.
LEMMA NameFound ==
  ASSUME NEW context, NEW s \in context, NEW id, id \in {s, CourseOf(s)},
         context \subseteq Sections, NEW ids, id \in ids
  PROVE  CourseOf(s) \in Normalized(ids, context)
<1> DEFINE t == CHOOSE t \in context : id \in {t, CourseOf(t)}
<1>1. t \in context /\ id \in {t, CourseOf(t)}
  OBVIOUS
<1>2. CourseOf(t) \in Normalized(ids, context)
  BY DEF Normalized
<1> HIDE DEF t
<1>3. CourseOf(s) = CourseOf(t)
  BY <1>1, OneCourseByName
<1> QED
  BY <1>2, <1>3

\* What a normalized name stands for.
LEMMA NameStandsFor ==
  ASSUME NEW context, context \subseteq Sections, NEW ids, NEW c \in Normalized(ids, context)
  PROVE  \/ \E id \in ids : \E s \in context : id \in {s, CourseOf(s)} /\ c = CourseOf(s)
         \/ c \in ids /\ ~\E s \in context : c \in {s, CourseOf(s)}
<1>1. PICK id \in ids :
        c = IF \E s \in context : id \in {s, CourseOf(s)}
              THEN CourseOf(CHOOSE s \in context : id \in {s, CourseOf(s)}) ELSE id
  BY DEF Normalized
<1>2. CASE \E s \in context : id \in {s, CourseOf(s)}
  <2> DEFINE t == CHOOSE t \in context : id \in {t, CourseOf(t)}
  <2>1. t \in context /\ id \in {t, CourseOf(t)}
    BY <1>2
  <2>2. c = CourseOf(t)
    BY <1>1, <1>2
  <2> QED
    BY <2>1, <2>2
<1>3. CASE ~\E s \in context : id \in {s, CourseOf(s)}
  BY <1>1, <1>3
<1> QED
  BY <1>2, <1>3

\* A timetable and its courses are finite sets of numbers.
LEMMA PartsAreFinite ==
  ASSUME NEW S \in SUBSET Sections
  PROVE  /\ S \in SUBSET Nat /\ CoursesOf(S) \in SUBSET Nat
         /\ IsFiniteSet(S) /\ Cardinality(S) \in Nat
         /\ IsFiniteSet(CoursesOf(S)) /\ Cardinality(CoursesOf(S)) \in Nat
<1>1. IsFiniteSet(S) /\ Cardinality(S) \in Nat /\ S \in SUBSET Nat
  BY CatalogIsTyped, FS_Subset, FS_CardinalityType
<1>2. IsFiniteSet(CoursesOf(S)) /\ Cardinality(CoursesOf(S)) \in Nat
  <2> DEFINE f == [s \in S |-> CourseOf(s)]
  <2>1. f \in Surjection(S, CoursesOf(S))
    BY DEF Surjection, CoursesOf
  <2> HIDE DEF f
  <2> QED
    BY <1>1, <2>1, FS_Surjection, FS_CardinalityType
<1>3. CoursesOf(S) \in SUBSET Nat
  BY CatalogIsTyped DEF CoursesOf, CourseOf
<1> QED
  BY <1>1, <1>2, <1>3

\* The meetings of a timetable are finitely many, with natural days and minutes.
LEMMA MeetsAreNumbered ==
  ASSUME NEW S \in SUBSET Sections
  PROVE  /\ IsFiniteSet(Meets(S)) /\ (S # {} => Meets(S) # {})
         /\ \A m \in Meets(S) : m.day \in Nat /\ m.start \in Nat /\ m.end \in Nat /\ m.no \in Nat
<1> DEFINE parts == {Catalog[s].meets : s \in S}
           f == [s \in S |-> Catalog[s].meets]
<1>1. f \in Surjection(S, parts) /\ IsFiniteSet(S)
  BY CatalogIsTyped, FS_Subset DEF Surjection
<1>2. \A T \in parts : IsFiniteSet(T)
  BY CatalogIsTyped
<1>3. IsFiniteSet(parts)
  <2> HIDE DEF f, parts
  <2> QED
    BY <1>1, FS_Surjection
<1>4. IsFiniteSet(UNION parts)
  <2> HIDE DEF parts
  <2> QED
    BY <1>2, <1>3, FS_UNION
<1>5. \A m \in Meets(S) : m.day \in Nat /\ m.start \in Nat /\ m.end \in Nat /\ m.no \in Nat
  BY CatalogIsTyped DEF Meets
<1>6. ASSUME S # {} PROVE Meets(S) # {}
  <2>1. PICK s \in S : TRUE
    BY <1>6
  <2>2. PICK m \in Catalog[s].meets : TRUE
    BY CatalogIsTyped
  <2>3. m \in Meets(S)
    BY <2>2 DEF Meets
  <2> QED
    BY <2>3
<1> QED
  BY <1>4, <1>5, <1>6 DEF Meets

\* Normalising finitely many ids gives no more courses than ids.
LEMMA NamesAreFinite ==
  ASSUME NEW ids, IsFiniteSet(ids), NEW S
  PROVE  /\ IsFiniteSet(Normalized(ids, S)) /\ Cardinality(Normalized(ids, S)) \in Nat
         /\ Cardinality(Normalized(ids, S)) <= Cardinality(ids)
<1> DEFINE f == [id \in ids |-> IF \E s \in S : id \in {s, CourseOf(s)}
                                 THEN CourseOf(CHOOSE s \in S : id \in {s, CourseOf(s)})
                                 ELSE id]
<1>1. f \in Surjection(ids, Normalized(ids, S))
  BY DEF Surjection, Normalized
<1> HIDE DEF f
<1>2. IsFiniteSet(Normalized(ids, S)) /\ Cardinality(Normalized(ids, S)) <= Cardinality(ids)
  BY <1>1, FS_Surjection
<1> QED
  BY <1>2, FS_CardinalityType

\* The first start and the last end of finitely many meetings bound them all.
LEMMA BoundsOfMeetings ==
  ASSUME NEW M, IsFiniteSet(M), M # {}, \A m \in M : m.start \in Nat /\ m.end \in Nat
  PROVE  /\ Min({m.start : m \in M}) \in Nat /\ \A m \in M : Min({k.start : k \in M}) <= m.start
         /\ Max({m.end : m \in M}) \in Nat /\ \A m \in M : m.end <= Max({k.end : k \in M})
<1>1. Min({m.start : m \in M}) \in Nat /\ \A m \in M : Min({k.start : k \in M}) <= m.start
  <2> DEFINE T == {m.start : m \in M}
  <2>1. T \in SUBSET Nat /\ T # {} /\ \A m \in M : m.start \in T
    OBVIOUS
  <2> HIDE DEF T
  <2>2. Min(T) \in Nat /\ \A m \in M : Min(T) <= m.start
    BY <2>1, MinIsLeast
  <2> QED
    BY <2>2 DEF T
<1>2. Max({m.end : m \in M}) \in Nat /\ \A m \in M : m.end <= Max({k.end : k \in M})
  <2> DEFINE T == {m.end : m \in M}
             f == [m \in M |-> m.end]
  <2>1. T \in SUBSET Nat /\ T # {} /\ \A m \in M : m.end \in T
    OBVIOUS
  <2>2. f \in Surjection(M, T)
    BY DEF Surjection
  <2> HIDE DEF T, f
  <2>3. IsFiniteSet(T)
    BY <2>2, FS_Surjection
  <2>4. PICK b \in Nat : \A k \in T : k <= b
    BY <2>1, <2>3, FiniteIsBounded
  <2>5. Max(T) \in Nat /\ \A m \in M : m.end <= Max(T)
    BY <2>1, <2>4, MaxIsGreatest
  <2> QED
    BY <2>5 DEF T
<1> QED
  BY <1>1, <1>2

\* A timetable has finitely many neighbouring meetings and days.
LEMMA NeighboursAreFinite ==
  ASSUME NEW S \in SUBSET Sections
  PROVE  /\ IsFiniteSet(Neighbours(S)) /\ \A p \in Neighbours(S) : BreakOf(p) \in Int
         /\ IsFiniteSet({m.day : m \in Meets(S)})
<1> DEFINE M == Meets(S)
           days == {m.day : m \in M}
           f == [m \in M |-> m.day]
<1>1. IsFiniteSet(M) /\ \A m \in M : m.start \in Nat /\ m.end \in Nat
  BY MeetsAreNumbered
<1> HIDE DEF M
<1>2. Neighbours(S) \in SUBSET (M \X M)
  BY DEF Neighbours, M
<1>3. IsFiniteSet(M \X M)
  BY <1>1, FS_Product
<1>4. \A p \in Neighbours(S) : BreakOf(p) \in Int
  BY <1>1, <1>2 DEF BreakOf
<1>5. f \in Surjection(M, days)
  BY DEF Surjection
<1> HIDE DEF f, days
<1>6. IsFiniteSet(days)
  BY <1>1, <1>5, FS_Surjection
<1> QED
  BY <1>2, <1>3, <1>4, <1>6, FS_Subset DEF M, days

=============================================================================
