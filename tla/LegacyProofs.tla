------------------------------ MODULE LegacyProofs ------------------------------
(***************************************************************************)
(* Proofs about the generator of the recommendation route and its ranking, *)
(* for any catalog, requests and wishes: what is recommended is            *)
(* admissible, the best there is is found, an empty answer is explained,   *)
(* a met wish costs nothing, and what is ranked first is best by targets.  *)
(* The generator comes to an end.                                          *)
(***************************************************************************)
EXTENDS LegacyCorrectness, RulesProofs

-----------------------------------------------------------------------------
(* Least and greatest numbers *)

\* The least of two integers is one of them and at most each.
LEMMA MinOfTwo ==
  \A a, b \in Int : Min({a, b}) \in {a, b} /\ Min({a, b}) <= a /\ Min({a, b}) <= b
BY DEF Min

\* The greatest of two integers is one of them and at least each.
LEMMA MaxOfTwo ==
  ASSUME NEW a \in Int, NEW b \in Int
  PROVE  Max({a, b}) \in {a, b} /\ a <= Max({a, b}) /\ b <= Max({a, b})
BY DEF Max

-----------------------------------------------------------------------------
(* The order of enumeration *)

\* A comes before B when the first number that is in one of them only is in A.
EarlierThan == {p \in (SUBSET Nat) \X (SUBSET Nat) : Earlier(p[1], p[2])}

\* One set is enumerated before another when the first number that tells them apart is in
\* it.
LEMMA EarlierIs ==
  ASSUME NEW A \in SUBSET Nat, NEW B \in SUBSET Nat
  PROVE  Earlier(A, B) <=> \E m \in A \ B : \A k \in Nat : k < m => (k \in A <=> k \in B)
<1> DEFINE D == (A \ B) \cup (B \ A)
<1>1. A # B <=> D # {}
  OBVIOUS
<1>2. ASSUME D # {} PROVE Min(D) \in D /\ Min(D) \in Nat /\ \A k \in D : Min(D) <= k
  <2> HIDE DEF D
  <2>1. D \in SUBSET Nat
    BY DEF D
  <2> QED
    BY <1>2, <2>1, MinIsLeast
<1>3. ASSUME Earlier(A, B) PROVE \E m \in A \ B : \A k \in Nat : k < m => (k \in A <=> k \in B)
  <2>1. D # {} /\ Min(D) \in A
    BY <1>1, <1>3 DEF Earlier
  <2>2. Min(D) \in A \ B /\ \A k \in D : Min(D) <= k
    BY <1>2, <2>1
  <2>3. \A k \in Nat : k < Min(D) => k \notin D
    BY <1>2, <2>1
  <2>4. \A k \in Nat : k \notin D => (k \in A <=> k \in B)
    OBVIOUS
  <2> HIDE DEF D
  <2> QED
    BY <2>2, <2>3, <2>4
<1>4. ASSUME NEW m \in A \ B, \A k \in Nat : k < m => (k \in A <=> k \in B) PROVE Earlier(A, B)
  <2>1. D # {} /\ m \in D
    OBVIOUS
  <2>2. \A k \in D : ~(k < m)
    BY <1>4
  <2>3. Min(D) = m
    <3> HIDE DEF D
    <3> QED
      BY <1>2, <2>1, <2>2
  <2> QED
    BY <1>1, <2>1, <2>3 DEF Earlier
<1> QED
  BY <1>3, <1>4

\* The order of enumeration is a strict linear order of the sets of numbers.
LEMMA EarlierOrders == LinearlyOrders(EarlierThan, SUBSET Nat)
<1>1. ASSUME NEW A \in SUBSET Nat, NEW B \in SUBSET Nat
      PROVE  <<A, B>> \in EarlierThan
               <=> \E m \in A \ B : \A k \in Nat : k < m => (k \in A <=> k \in B)
  BY EarlierIs DEF EarlierThan
<1>2. ASSUME NEW A \in SUBSET Nat PROVE <<A, A>> \notin EarlierThan
  BY <1>1
<1>3. ASSUME NEW A \in SUBSET Nat, NEW B \in SUBSET Nat, NEW C \in SUBSET Nat,
             <<A, B>> \in EarlierThan, <<B, C>> \in EarlierThan
      PROVE  <<A, C>> \in EarlierThan
  <2>1. PICK m \in A \ B : \A k \in Nat : k < m => (k \in A <=> k \in B)
    BY <1>1, <1>3
  <2>2. PICK n \in B \ C : \A k \in Nat : k < n => (k \in B <=> k \in C)
    BY <1>1, <1>3
  <2>3. CASE m < n
    <3>1. m \in A \ C
      BY <2>1, <2>2, <2>3
    <3>2. \A k \in Nat : k < m => (k \in A <=> k \in C)
      BY <2>1, <2>2, <2>3
    <3> QED
      BY <1>1, <3>1, <3>2
  <2>4. CASE n < m
    <3>1. n \in A \ C
      BY <2>1, <2>2, <2>4
    <3>2. \A k \in Nat : k < n => (k \in A <=> k \in C)
      BY <2>1, <2>2, <2>4
    <3> QED
      BY <1>1, <3>1, <3>2
  <2>5. m # n
    BY <2>1, <2>2
  <2> QED
    BY <2>3, <2>4, <2>5
<1>4. ASSUME NEW A \in SUBSET Nat, NEW B \in SUBSET Nat, A # B
      PROVE  <<A, B>> \in EarlierThan \/ <<B, A>> \in EarlierThan
  <2> DEFINE D == (A \ B) \cup (B \ A)
  <2>1. D \in SUBSET Nat /\ D # {}
    BY <1>4
  <2>2. PICK m \in D : \A k \in D : m <= k
    BY <2>1, LeastNumber
  <2>3. \A k \in Nat : k < m => (k \in A <=> k \in B)
    BY <2>2
  <2> QED
    BY <1>1, <2>2, <2>3
<1> QED
  BY <1>2, <1>3, <1>4 DEF LinearlyOrders

\* The order in which choices of required courses are tried is strict and linear.
LEMMA ChoicesAreOrdered ==
  ASSUME NEW P, P \subseteq SUBSET Sections
  PROVE  LinearlyOrders({p \in P \X P : ChoiceBefore(p[1], p[2])}, P)
<1> DEFINE Before == {p \in P \X P : ChoiceBefore(p[1], p[2])}
           n(A) == Cardinality(A)
           c(A) == CoursesOf(A)
<1>0. \A A \in P : n(A) \in Nat /\ A \in SUBSET Nat /\ c(A) \in SUBSET Nat
  BY PartsAreFinite
<1>1. \A A, B \in P : <<A, B>> \in Before
        <=> \/ n(A) > n(B)
            \/ /\ n(A) = n(B)
               /\ c(A) = c(B) => <<A, B>> \in EarlierThan
               /\ c(A) # c(B) => <<c(A), c(B)>> \in EarlierThan
  BY <1>0 DEF ChoiceBefore, EarlierThan
<1> HIDE DEF Before, n, c
<1>2. \A A \in P : <<A, A>> \notin Before
  <2> SUFFICES ASSUME NEW A \in P PROVE <<A, A>> \notin Before
    OBVIOUS
  <2>1. <<A, A>> \notin EarlierThan /\ ~(n(A) > n(A))
    BY <1>0, EarlierOrders DEF LinearlyOrders
  <2> QED
    BY <1>1, <2>1, Zenon
<1>3. \A A, B \in P : A # B => <<A, B>> \in Before \/ <<B, A>> \in Before
  <2> SUFFICES ASSUME NEW A \in P, NEW B \in P, A # B
               PROVE  <<A, B>> \in Before \/ <<B, A>> \in Before
    OBVIOUS
  <2>1. <<A, B>> \in EarlierThan \/ <<B, A>> \in EarlierThan
    BY <1>0, EarlierOrders DEF LinearlyOrders
  <2>2. c(A) # c(B) => <<c(A), c(B)>> \in EarlierThan \/ <<c(B), c(A)>> \in EarlierThan
    BY <1>0, EarlierOrders DEF LinearlyOrders
  <2>3. n(A) \in Nat /\ n(B) \in Nat
    BY <1>0
  <2> QED
    BY <1>1, <2>1, <2>2, <2>3
<1>4. \A A, B, C \in P : <<A, B>> \in Before /\ <<B, C>> \in Before => <<A, C>> \in Before
  <2> SUFFICES ASSUME NEW A \in P, NEW B \in P, NEW C \in P,
                      <<A, B>> \in Before, <<B, C>> \in Before
               PROVE  <<A, C>> \in Before
    OBVIOUS
  <2>1. <<A, B>> \in EarlierThan /\ <<B, C>> \in EarlierThan => <<A, C>> \in EarlierThan
    BY <1>0, EarlierOrders DEF LinearlyOrders
  <2>2. <<c(A), c(B)>> \in EarlierThan /\ <<c(B), c(C)>> \in EarlierThan => <<c(A), c(C)>> \in EarlierThan
    BY <1>0, EarlierOrders DEF LinearlyOrders
  <2>3. ~(<<c(A), c(B)>> \in EarlierThan /\ <<c(B), c(A)>> \in EarlierThan)
    BY <1>0, EarlierOrders DEF LinearlyOrders
  <2>4. n(A) \in Nat /\ n(B) \in Nat /\ n(C) \in Nat
    BY <1>0
  <2> QED
    BY <1>1, <2>1, <2>2, <2>3, <2>4
<1> QED
  BY <1>2, <1>3, <1>4 DEF LinearlyOrders, Before

\* The order in which groups of electives are tried is strict and linear.
LEMMA ElectivesAreOrdered ==
  ASSUME NEW P, P \subseteq SUBSET Sections
  PROVE  LinearlyOrders({p \in P \X P : ElectiveBefore(p[1], p[2])}, P)
<1> DEFINE Before == {p \in P \X P : ElectiveBefore(p[1], p[2])}
           n(A) == Cardinality(A)
<1>0. \A A \in P : n(A) \in Nat /\ A \in SUBSET Nat
  BY PartsAreFinite
<1>1. \A A, B \in P : <<A, B>> \in Before
        <=> n(A) > n(B) \/ (n(A) = n(B) /\ <<A, B>> \in EarlierThan)
  BY <1>0 DEF ElectiveBefore, EarlierThan
<1> HIDE DEF Before, n
<1>2. \A A \in P : <<A, A>> \notin Before
  <2> SUFFICES ASSUME NEW A \in P PROVE <<A, A>> \notin Before
    OBVIOUS
  <2>1. <<A, A>> \notin EarlierThan /\ ~(n(A) > n(A))
    BY <1>0, EarlierOrders DEF LinearlyOrders
  <2> QED
    BY <1>1, <2>1, Zenon
<1>3. \A A, B \in P : A # B => <<A, B>> \in Before \/ <<B, A>> \in Before
  <2> SUFFICES ASSUME NEW A \in P, NEW B \in P, A # B
               PROVE  <<A, B>> \in Before \/ <<B, A>> \in Before
    OBVIOUS
  <2>1. <<A, B>> \in EarlierThan \/ <<B, A>> \in EarlierThan
    BY <1>0, EarlierOrders DEF LinearlyOrders
  <2>2. n(A) \in Nat /\ n(B) \in Nat
    BY <1>0
  <2> QED
    BY <1>1, <2>1, <2>2
<1>4. \A A, B, C \in P : <<A, B>> \in Before /\ <<B, C>> \in Before => <<A, C>> \in Before
  <2> SUFFICES ASSUME NEW A \in P, NEW B \in P, NEW C \in P,
                      <<A, B>> \in Before, <<B, C>> \in Before
               PROVE  <<A, C>> \in Before
    OBVIOUS
  <2>1. <<A, B>> \in EarlierThan /\ <<B, C>> \in EarlierThan => <<A, C>> \in EarlierThan
    BY <1>0, EarlierOrders DEF LinearlyOrders
  <2>2. n(A) \in Nat /\ n(B) \in Nat /\ n(C) \in Nat
    BY <1>0
  <2> QED
    BY <1>1, <2>1, <2>2
<1> QED
  BY <1>2, <1>3, <1>4 DEF LinearlyOrders, Before

-----------------------------------------------------------------------------
(* What the two loops go through *)

RequiredParts(r) == {R \in SUBSET r.required : ~DuplicateCourse(R) /\ Affordable(r, R)}
ElectiveParts(r, most) == {E \in SUBSET ElectivesOf(r) : Cardinality(E) <= most}

\* A collection of parts of a finite set of classes is finite.
LEMMA ManyParts ==
  ASSUME NEW U \in SUBSET Sections, NEW P \in SUBSET (SUBSET U)
  PROVE  IsFiniteSet(P) /\ Cardinality(P) \in Nat /\ P \subseteq SUBSET Sections
<1>1. IsFiniteSet(SUBSET U)
  BY PartsAreFinite, FS_SUBSET
<1>2. IsFiniteSet(P)
  BY <1>1, FS_Subset
<1> QED
  BY <1>2, FS_CardinalityType

\* Every choice of required courses that can be tried is tried once.
LEMMA RequiredAreListed ==
  ASSUME NEW r, r.required \subseteq Sections
  PROVE  Lists(RequiredChoices(r), RequiredParts(r))
<1> DEFINE P == RequiredParts(r)
           Before == {p \in P \X P : ChoiceBefore(p[1], p[2])}
<1>1. P \in SUBSET (SUBSET r.required)
  BY DEF RequiredParts
<1> HIDE DEF P
<1>2. IsFiniteSet(P) /\ Cardinality(P) \in Nat /\ LinearlyOrders(Before, P)
  BY <1>1, ManyParts, ChoicesAreOrdered
<1>3. \A i \in 1..Cardinality(P) :
        \E x \in P : Cardinality({y \in P : <<y, x>> \in Before}) = i - 1
  <2> HIDE DEF Before
  <2> QED
    BY <1>2, PositionsAreTaken
<1>4. \A x \in P : {y \in P : <<y, x>> \in Before} = {y \in P : ChoiceBefore(y, x)}
  OBVIOUS
<1> DEFINE at(i) == CHOOSE x \in P : Cardinality({y \in P : ChoiceBefore(y, x)}) = i - 1
           list == [i \in 1..Cardinality(P) |-> at(i)]
<1>a. ASSUME NEW i \in 1..Cardinality(P)
      PROVE  \E x \in P : Cardinality({y \in P : ChoiceBefore(y, x)}) = i - 1
  <2> HIDE DEF Before
  <2>1. PICK x \in P : Cardinality({y \in P : <<y, x>> \in Before}) = i - 1
    BY <1>3
  <2> QED
    BY <1>4, <2>1
<1>5. \A i \in 1..Cardinality(P) :
        at(i) \in P /\ Cardinality({y \in P : ChoiceBefore(y, at(i))}) = i - 1
  BY <1>a
<1>6. RequiredChoices(r) = list
  BY DEF RequiredChoices, Ordered, P, RequiredParts
<1> HIDE DEF at, Before
<1>7. list \in [1..Cardinality(P) -> P] /\ \A i \in 1..Cardinality(P) : list[i] = at(i)
  BY <1>5
<1>8. \A i \in 1..Cardinality(P) : Cardinality({y \in P : <<y, list[i]>> \in Before}) = i - 1
  BY <1>4, <1>5, <1>7
<1> HIDE DEF list
<1>9. Lists(list, P)
  BY <1>2, <1>7, <1>8, Listing
<1> QED
  BY <1>6, <1>9 DEF P

\* Every group of electives of a size that is tried is tried once.
LEMMA ElectivesAreListed ==
  ASSUME NEW r, r.electives \subseteq Sections, NEW most
  PROVE  Lists(ElectiveChoices(r, most), ElectiveParts(r, most))
<1> DEFINE P == ElectiveParts(r, most)
           Before == {p \in P \X P : ElectiveBefore(p[1], p[2])}
<1>1. P \in SUBSET (SUBSET ElectivesOf(r)) /\ ElectivesOf(r) \subseteq Sections
  BY DEF ElectiveParts, ElectivesOf
<1> HIDE DEF P
<1>2. IsFiniteSet(P) /\ Cardinality(P) \in Nat /\ LinearlyOrders(Before, P)
  BY <1>1, ManyParts, ElectivesAreOrdered
<1>3. \A i \in 1..Cardinality(P) :
        \E x \in P : Cardinality({y \in P : <<y, x>> \in Before}) = i - 1
  <2> HIDE DEF Before
  <2> QED
    BY <1>2, PositionsAreTaken
<1>4. \A x \in P : {y \in P : <<y, x>> \in Before} = {y \in P : ElectiveBefore(y, x)}
  OBVIOUS
<1> DEFINE at(i) == CHOOSE x \in P : Cardinality({y \in P : ElectiveBefore(y, x)}) = i - 1
           list == [i \in 1..Cardinality(P) |-> at(i)]
<1>a. ASSUME NEW i \in 1..Cardinality(P)
      PROVE  \E x \in P : Cardinality({y \in P : ElectiveBefore(y, x)}) = i - 1
  <2> HIDE DEF Before
  <2>1. PICK x \in P : Cardinality({y \in P : <<y, x>> \in Before}) = i - 1
    BY <1>3
  <2> QED
    BY <1>4, <2>1
<1>5. \A i \in 1..Cardinality(P) :
        at(i) \in P /\ Cardinality({y \in P : ElectiveBefore(y, at(i))}) = i - 1
  BY <1>a
<1>6. ElectiveChoices(r, most) = list
  BY DEF ElectiveChoices, Ordered, P, ElectiveParts
<1> HIDE DEF at, Before
<1>7. list \in [1..Cardinality(P) -> P] /\ \A i \in 1..Cardinality(P) : list[i] = at(i)
  BY <1>5
<1>8. \A i \in 1..Cardinality(P) : Cardinality({y \in P : <<y, list[i]>> \in Before}) = i - 1
  BY <1>4, <1>5, <1>7
<1> HIDE DEF list
<1>9. Lists(list, P)
  BY <1>2, <1>7, <1>8, Listing
<1> QED
  BY <1>6, <1>9 DEF P

-----------------------------------------------------------------------------
(* Classes in a row *)

\* A row goes up the day.
LEMMA RowClimbs ==
  ASSUME NEW M, \A m \in M : m.start \in Nat /\ m.no \in Nat, NEW n \in Nat, NEW row \in [0..n -> M],
         \A i \in 1..n : Neighbour(row[i - 1], row[i], M)
  PROVE  \A j \in 0..n : row[j].day = row[0].day /\ \A i \in 0..n : i < j => Precedes(row[i], row[j])
<1> DEFINE Climbs(j) == row[j].day = row[0].day /\ \A i \in 0..n : i < j => Precedes(row[i], row[j])
           P == {j \in Nat : j \in 0..n => Climbs(j)}
<1>1. 0 \in P
  <2>1. \A i \in 0..n : ~(i < 0)
    OBVIOUS
  <2> QED
    BY <2>1
<1>2. ASSUME NEW j \in P PROVE j + 1 \in P
  <2> SUFFICES ASSUME j + 1 \in 0..n
               PROVE  /\ row[j + 1].day = row[0].day
                      /\ \A i \in 0..n : i < j + 1 => Precedes(row[i], row[j + 1])
    OBVIOUS
  <2>1. j \in 0..n /\ j + 1 \in 1..n /\ (j + 1) - 1 = j
    OBVIOUS
  <2>2. row[j].day = row[j + 1].day /\ Precedes(row[j], row[j + 1])
    BY <2>1 DEF Neighbour
  <2>3. row[j].day = row[0].day /\ \A i \in 0..n : i < j => Precedes(row[i], row[j])
    BY <2>1
  <2>4. ASSUME NEW i \in 0..n, i < j + 1 PROVE Precedes(row[i], row[j + 1])
    <3>1. /\ row[i].start \in Nat /\ row[j].start \in Nat /\ row[j + 1].start \in Nat
          /\ row[i].no \in Nat /\ row[j].no \in Nat /\ row[j + 1].no \in Nat
      BY <2>1
    <3>2. i = j \/ Precedes(row[i], row[j])
      BY <2>1, <2>3, <2>4
    <3> QED
      BY <2>2, <3>1, <3>2, PrecedesOrders
  <2> QED
    BY <2>2, <2>3, <2>4
<1> HIDE DEF P
<1>3. P \in SUBSET Nat
  BY DEF P
<1>4. P = Nat
  BY <1>1, <1>2, <1>3, Climbing
<1>5. ASSUME NEW j \in 0..n
      PROVE  row[j].day = row[0].day /\ \A i \in 0..n : i < j => Precedes(row[i], row[j])
  <2>1. j \in P
    BY <1>4
  <2> QED
    BY <2>1, Zenon DEF P
<1> QED
  BY <1>5

\* The longest chain is at least as long as the row that leads to any class.
LEMMA LongestIsNumber ==
  ASSUME NEW S \in SUBSET Sections
  PROVE  /\ LongestChain(S) \in Nat
         /\ \A c \in Meets(S) : /\ IsFiniteSet(RowUpTo(Meets(S), c))
                                /\ Cardinality(RowUpTo(Meets(S), c)) \in Nat
                                /\ Cardinality(RowUpTo(Meets(S), c)) <= LongestChain(S)
<1> DEFINE M == Meets(S)
           counts == {1} \cup {Cardinality(RowUpTo(M, c)) : c \in M}
           b == Cardinality(M) + 1
<1>0. IsFiniteSet(M) /\ Cardinality(M) \in Nat
  BY MeetsAreNumbered, FS_CardinalityType
<1> HIDE DEF M
<1>1. ASSUME NEW c \in M
      PROVE  /\ IsFiniteSet(RowUpTo(M, c)) /\ Cardinality(RowUpTo(M, c)) \in Nat
             /\ Cardinality(RowUpTo(M, c)) <= Cardinality(M)
  <2>1. RowUpTo(M, c) \in SUBSET M
    BY DEF RowUpTo
  <2> QED
    BY <1>0, <2>1, FS_Subset, FS_CardinalityType
<1>2. b \in Nat /\ counts \in SUBSET Nat /\ counts # {} /\ \A k \in counts : k <= b
  BY <1>0, <1>1
<1>3. Max(counts) \in Nat /\ \A k \in counts : k <= Max(counts)
  <2> HIDE DEF counts, b
  <2> QED
    BY <1>2, MaxIsGreatest
<1>4. LongestChain(S) = Max(counts)
  BY DEF LongestChain, M
<1>5. \A c \in M : Cardinality(RowUpTo(M, c)) \in counts
  OBVIOUS
<1> HIDE DEF counts
<1>6. \A c \in M : Cardinality(RowUpTo(M, c)) <= LongestChain(S)
  BY <1>3, <1>4, <1>5
<1>7. LongestChain(S) \in Nat
  BY <1>3, <1>4
<1> QED
  BY <1>1, <1>6, <1>7 DEF M

\* Counting from the end finds the classes of a row that are not longer than allowed.
LEMMA RowsAreCounted ==
  ASSUME NEW S \in SUBSET Sections, NEW n \in Nat, LongestChain(S) <= n
  PROVE  ~RowLongerThan(S, n)
<1> SUFFICES ASSUME RowLongerThan(S, n) PROVE FALSE
  OBVIOUS
<1> DEFINE M == Meets(S)
<1>0. IsFiniteSet(M) /\ \A m \in M : m.start \in Nat /\ m.no \in Nat
  BY MeetsAreNumbered
<1>1. PICK row \in [0..n -> M] :
        \A i \in 1..n : Neighbour(row[i - 1], row[i], M) /\ row[i].start = row[i - 1].end
  BY DEF RowLongerThan
<1> HIDE DEF M
<1>r. (\A c \in M : c.start \in Nat /\ c.no \in Nat) /\ \A i \in 1..n : Neighbour(row[i - 1], row[i], M)
  BY <1>0, <1>1
<1>2. \A j \in 0..n : row[j].day = row[0].day /\ \A i \in 0..n : i < j => Precedes(row[i], row[j])
  BY <1>r, RowClimbs
<1>3. \A i \in 0..n : row[i] \in M /\ row[i].start \in Nat /\ row[i].no \in Nat
  BY <1>0
<1> DEFINE m == row[n]
<1>4. ASSUME NEW i \in 0..n PROVE row[i] \in RowUpTo(M, m)
  <2>1. row[i].day = m.day /\ ~Precedes(m, row[i])
    <3>1. n \in 0..n /\ (i = n \/ i < n)
      OBVIOUS
    <3>2. i = n \/ Precedes(row[i], row[n])
      BY <1>2, <3>1
    <3>3. row[i].day = m.day
      BY <1>2, <3>1
    <3> QED
      BY <1>3, <3>1, <3>2, <3>3, PrecedesOrders
  <2>2. ASSUME NEW d \in M, d.day = m.day, Precedes(row[i], d), ~Precedes(m, d)
        PROVE  \E e \in M : Neighbour(e, d, M) /\ e.end = d.start
    <3> DEFINE J == {j \in 0..n : ~Precedes(row[j], d)}
    <3>0. d.start \in Nat /\ d.no \in Nat
      BY <1>0
    <3>1. J \in SUBSET Nat /\ J # {}
      <4>1. n \in J
        BY <2>2
      <4> QED
        BY <4>1
    <3>2. PICK j \in J : \A k \in J : j <= k
      BY <3>1, LeastNumber
    <3>3. j \in 1..n /\ j - 1 \in 0..n /\ j \in 0..n /\ ~Precedes(row[j], d)
      <4>1. j # 0
        <5> SUFFICES ASSUME j = 0 PROVE FALSE
          OBVIOUS
        <5>1. ~Precedes(row[0], d) /\ 0 \in 0..n
          OBVIOUS
        <5>2. i = 0 \/ Precedes(row[0], row[i])
          BY <1>2, <5>1
        <5>3. /\ row[0].start \in Nat /\ row[i].start \in Nat
              /\ row[0].no \in Nat /\ row[i].no \in Nat
          BY <1>3, <5>1
        <5> QED
          BY <2>2, <3>0, <5>1, <5>2, <5>3, PrecedesOrders
      <4> QED
        BY <4>1
    <3>4. Precedes(row[j - 1], d)
      <4>1. j - 1 \notin J
        BY <3>2
      <4> QED
        BY <4>1, <3>3
    <3>5. row[j - 1].day = d.day /\ row[j - 1] \in M
      BY <1>2, <1>3, <2>1, <2>2, <3>3
    <3>6. Neighbour(row[j - 1], row[j], M) /\ row[j].start = row[j - 1].end
      BY <1>1, <3>3
    <3>7. d.start = row[j].start /\ d.no = row[j].no
      <4>1. ~Precedes(d, row[j])
        BY <3>4, <3>5, <3>6 DEF Neighbour
      <4>2. row[j].start \in Nat /\ row[j].no \in Nat
        BY <1>3, <3>3
      <4> QED
        BY <3>0, <3>3, <4>1, <4>2, PrecedesOrders
    <3>8. Neighbour(row[j - 1], d, M)
      <4>1. \A c : Precedes(c, d) <=> Precedes(c, row[j])
        BY <3>7 DEF Precedes
      <4> QED
        BY <3>4, <3>5, <3>6, <4>1 DEF Neighbour
    <3> QED
      BY <3>5, <3>6, <3>7, <3>8
  <2> QED
    BY <1>3, <2>1, <2>2 DEF RowUpTo
<1> DEFINE R == RowUpTo(M, m)
<1>5. R \subseteq M
  BY DEF RowUpTo
<1>6. IsFiniteSet(R) /\ Cardinality(R) \in Nat
  BY <1>0, <1>5, FS_Subset, FS_CardinalityType
<1>7. row \in Injection(0..n, R)
  <2>1. \A i, j \in 0..n : row[i] = row[j] => i = j
    <3>1. \A i, j \in 0..n : i < j => Precedes(row[i], row[j])
      BY <1>2
    <3>2. ASSUME NEW i \in 0..n, NEW j \in 0..n, row[i] = row[j] PROVE ~(i < j)
      <4>1. ~Precedes(row[i], row[j])
        BY <1>3, <3>2, PrecedesOrders
      <4> QED
        BY <3>1, <4>1
    <3>3. ASSUME NEW i \in 0..n, NEW j \in 0..n, row[i] = row[j] PROVE i = j
      <4>1. ~(i < j)
        BY <3>2, <3>3
      <4>2. ~(j < i)
        BY <3>2, <3>3
      <4> QED
        BY <4>1, <4>2
    <3> QED
      BY <3>3
  <2>2. row \in [0..n -> R]
    BY <1>4
  <2> QED
    BY <2>1, <2>2 DEF Injection, IsInjective
<1>8. IsFiniteSet(0..n) /\ Cardinality(0..n) = n + 1
  BY FS_Interval
<1>9. n + 1 <= Cardinality(R)
  <2> HIDE DEF R
  <2>1. Cardinality(0..n) <= Cardinality(R)
    BY <1>6, <1>7, <1>8, FS_Injection
  <2> QED
    BY <1>8, <2>1
<1>10. Cardinality(R) <= LongestChain(S) /\ LongestChain(S) \in Nat
  BY <1>3, LongestIsNumber DEF M
<1> HIDE DEF R
<1> QED
  BY <1>6, <1>9, <1>10

-----------------------------------------------------------------------------
(* What the checks of the loops say about a timetable *)

\* A timetable that _violates_hard_constraints lets pass meets every hard condition.
LEMMA HardConditionsSuffice ==
  ASSUME NEW r \in Orders, NEW S \in SUBSET Sections, ~ViolatesHardConditions(S, r.hard)
  PROVE  HardConditionsHold(S, r.hard)
<1> DEFINE hard == r.hard
<1>0. /\ \A m \in Meets(S) : m.day \in Nat /\ m.start \in Nat /\ m.end \in Nat
      /\ hard.earliest # None => hard.earliest \in Nat
      /\ hard.latest # None => hard.latest \in Nat
      /\ hard.maxChain # None => hard.maxChain \in Nat
      /\ \A g \in hard.excludedRanges : g.start \in Nat /\ g.end \in Nat
  BY MeetsAreNumbered, OrdersAreTyped
<1>1. ASSUME NEW m \in Meets(S) PROVE WithinHours(m, hard)
  <2>1. /\ m.day \notin hard.excludedDays /\ m.day \notin hard.freeDays
        /\ hard.earliest # None => ~(m.start < hard.earliest)
        /\ hard.latest # None => ~(m.end > hard.latest)
        /\ \A g \in hard.excludedRanges : ~InRange(m, g)
    BY DEF ViolatesHardConditions
  <2>2. ASSUME NEW g \in hard.excludedRanges, g.day = m.day
        PROVE  m.end <= g.start \/ g.end <= m.start
    BY <1>0, <2>1, <2>2 DEF InRange
  <2> HIDE DEF hard
  <2> QED
    BY <1>0, <2>1, <2>2 DEF WithinHours
<1>2. \A id \in hard.required : \E s \in S : id \in {s, CourseOf(s)}
  <2>1. Normalized(hard.required, S) \subseteq CoursesOf(S)
    BY DEF ViolatesHardConditions
  <2>2. hard.required \subseteq S \cup CoursesOf(S)
    BY <2>1, RequiredAreNamed
  <2> QED
    BY <2>2 DEF CoursesOf
<1>3. \A s \in S : {s, CourseOf(s)} \cap hard.excluded = {}
  <2> SUFFICES ASSUME NEW s \in S, NEW id \in {s, CourseOf(s)}, id \in hard.excluded PROVE FALSE
    OBVIOUS
  <2>1. CourseOf(s) \in Normalized(hard.excluded, S)
    BY NameFound
  <2>2. CourseOf(s) \in CoursesOf(S)
    BY DEF CoursesOf
  <2> QED
    BY <2>1, <2>2 DEF ViolatesHardConditions
<1>4. \A s \in S : Catalog[s].professor \notin hard.excludedProfessors
  BY DEF ViolatesHardConditions
<1>5. ASSUME hard.maxChain # None PROVE ~RowLongerThan(S, hard.maxChain)
  <2>1. ~(LongestChain(S) > hard.maxChain)
    BY <1>5 DEF ViolatesHardConditions
  <2>2. LongestChain(S) \in Nat
    BY LongestIsNumber
  <2>3. LongestChain(S) <= hard.maxChain
    BY <1>0, <1>5, <2>1, <2>2
  <2> HIDE DEF hard
  <2> QED
    BY <1>0, <1>5, <2>3, RowsAreCounted
<1> HIDE DEF hard
<1>6. HardConditionsHold(S, hard)
  BY <1>1, <1>2, <1>3, <1>4, <1>5 DEF HardConditionsHold
<1> QED
  BY <1>6 DEF hard

\* The ceiling of the credits is the least of the target and the maximum, None without
\* both.
LEMMA CeilingIsLeast ==
  ASSUME NEW r \in Orders
  PROVE  /\ CreditCeiling(r) # None => CreditCeiling(r) \in Nat /\ CreditCeiling(r) \in {r.target, r.max}
         /\ r.target # None =>
              r.target \in Nat /\ CreditCeiling(r) # None /\ CreditCeiling(r) <= r.target
         /\ r.max # None =>
              r.max \in Nat /\ CreditCeiling(r) # None /\ CreditCeiling(r) <= r.max
<1> DEFINE limits == {r.target, r.max} \ {None}
<1>1. limits \in SUBSET Nat
  BY OrdersAreTyped
<1>2. CASE limits = {}
  <2>1. CreditCeiling(r) = None /\ r.target = None /\ r.max = None
    BY <1>2 DEF CreditCeiling
  <2> QED
    BY <2>1
<1>3. CASE limits # {}
  <2>1. CreditCeiling(r) = Min(limits)
    BY <1>3 DEF CreditCeiling
  <2>2. Min(limits) \in limits /\ \A k \in limits : Min(limits) <= k
    <3> HIDE DEF limits
    <3> QED
      BY <1>1, <1>3, MinIsLeast
  <2>3. CreditCeiling(r) \in limits /\ \A k \in limits : CreditCeiling(r) <= k
    BY <2>1, <2>2
  <2> QED
    BY <1>1, <2>3
<1> QED
  BY <1>2, <1>3

\* The credits of a timetable that passes the three comparisons are within the request's.
LEMMA CreditsAreAllowed ==
  ASSUME NEW r \in Orders, NEW S \in SUBSET Sections, ~ExceedsTarget(Credits(S), r),
         ~BelowMinimum(Credits(S), r.min, r.minInclusive),
         ~AboveMaximum(Credits(S), CreditCeiling(r), r.maxInclusive)
  PROVE  CreditsAllowed(r, S)
<1>1. Credits(S) \in Nat
  BY CreditsAreNumbers
<1>2. r.min # None => r.min \in Nat
  BY OrdersAreTyped
<1>3. r.minInclusive \in BOOLEAN /\ r.maxInclusive \in BOOLEAN
  BY OrdersAreTyped
<1>4. r.min # None => Credits(S) > r.min \/ (r.minInclusive /\ Credits(S) = r.min)
  BY <1>1, <1>2, <1>3 DEF BelowMinimum
<1>5. ASSUME r.max # None PROVE Credits(S) < r.max \/ (r.maxInclusive /\ Credits(S) = r.max)
  <2>1. r.max \in Nat /\ CreditCeiling(r) # None /\ CreditCeiling(r) <= r.max /\ CreditCeiling(r) \in Nat
    BY <1>5, CeilingIsLeast
  <2> QED
    BY <1>1, <1>3, <2>1 DEF AboveMaximum
<1>6. r.target # None => Credits(S) <= r.target
  <2>1. r.target # None => r.target \in Nat
    BY OrdersAreTyped
  <2> QED
    BY <1>1, <2>1 DEF ExceedsTarget
<1> QED
  BY <1>4, <1>5, <1>6 DEF CreditsAllowed

\* What _evaluate_candidate accepts is a timetable the route promises to recommend.
LEMMA AcceptedIsRecommendable ==
  ASSUME order \in Orders, NEW R, R \subseteq order.required, NEW E, E \subseteq ElectivesOf(order),
         NEW S, S = order.fixed \cup R \cup E,
         RejectionOf(S, order.min) = {}, ~ViolatesHardConditions(S, order.hard)
  PROVE  S \in SUBSET Sections /\ Recommendable(order, S)
<1>1. S \in SUBSET Sections
  BY OrdersAreTyped DEF ElectivesOf
<1>2. ~DuplicateCourse(S) /\ ~ExceedsTarget(Credits(S), order) /\ IssueCodes(S, order.min) = {}
  BY DEF RejectionOf
<1>3. /\ ~\E s, t \in S : s # t /\ ConflictsWith(s, t)
      /\ ~TravelIssue(S, None)
      /\ ~BelowMinimum(Credits(S), order.min, order.minInclusive)
      /\ ~AboveMaximum(Credits(S), CreditCeiling(order), order.maxInclusive)
  BY <1>2 DEF IssueCodes
<1>4. order.fixed \subseteq S /\ S \subseteq order.fixed \cup order.required \cup ElectivesOf(order)
  OBVIOUS
<1>5. ASSUME NEW s \in S, NEW t \in S, s # t
      PROVE  CourseOf(s) # CourseOf(t) /\ \A a \in Catalog[s].meets, b \in Catalog[t].meets :
               a.day # b.day \/ a.end <= b.start \/ b.end <= a.start
  <2>1. CourseOf(s) # CourseOf(t)
    BY <1>2, <1>5 DEF DuplicateCourse
  <2>2. ASSUME NEW a \in Catalog[s].meets, NEW b \in Catalog[t].meets
        PROVE  a.day # b.day \/ a.end <= b.start \/ b.end <= a.start
    <3>1. ~Overlaps(a, b)
      BY <1>3, <1>5 DEF ConflictsWith
    <3>2. a.start \in Nat /\ a.end \in Nat /\ b.start \in Nat /\ b.end \in Nat
      BY <1>1, CatalogIsTyped
    <3> QED
      BY <3>1, <3>2 DEF Overlaps
  <2> QED
    BY <2>1, <2>2
<1>6. CreditsAllowed(order, S)
  BY <1>1, <1>2, <1>3, CreditsAreAllowed
<1>7. HardConditionsHold(S, order.hard)
  BY <1>1, HardConditionsSuffice
<1> QED
  BY <1>1, <1>3, <1>4, <1>5, <1>6, <1>7 DEF Recommendable

-----------------------------------------------------------------------------
(* The order the candidates are given in *)

\* The sort key of generate_detailed has four integers.
LEMMA ObjectiveKeysAreTyped ==
  ASSUME NEW r \in Orders, NEW S \in SUBSET Sections
  PROVE  /\ ObjectiveKey(S, r) \in [1..4 -> Int]
         /\ ElectiveGap(S, r) \in Nat /\ CreditGap(S, r) \in Int /\ Cardinality(RequiredIn(S, r)) \in Nat
<1>1. RequiredIn(S, r) \in SUBSET Sections /\ ElectivesIn(S, r) \in SUBSET Sections
  BY DEF RequiredIn, ElectivesIn
<1>2. Cardinality(RequiredIn(S, r)) \in Nat /\ Credits(RequiredIn(S, r)) \in Nat
  BY <1>1, PartsAreFinite, CreditsAreNumbers
<1>3. ElectiveGap(S, r) \in Nat
  <2>1. Cardinality(ElectivesIn(S, r)) \in Nat
    BY <1>1, PartsAreFinite
  <2>2. r.count # None => r.count \in Nat
    BY OrdersAreTyped
  <2> QED
    BY <2>1, <2>2 DEF ElectiveGap, PositivePart
<1>4. CreditGap(S, r) \in Int
  <2>1. r.target # None => r.target \in Nat
    BY OrdersAreTyped
  <2> QED
    BY <2>1, CreditsAreNumbers DEF CreditGap
<1>5. ObjectiveKey(S, r) \in [1..4 -> Int]
  <2>1. \A a, b, c, d \in Int : <<a, b, c, d>> \in [1..4 -> Int]
    OBVIOUS
  <2>2. -ElectiveGap(S, r) \in Int /\ -CreditGap(S, r) \in Int
    BY <1>3, <1>4
  <2> QED
    BY <1>2, <2>1, <2>2 DEF ObjectiveKey
<1> QED
  BY <1>2, <1>3, <1>4, <1>5

\* The sort of generate_detailed lists its candidates by descending key.
LEMMA BestComeFirst ==
  ASSUME NEW r \in Orders, NEW list \in Seq(SUBSET Sections)
  PROVE  LET sorted == SortedBy(list, LAMBDA S : ObjectiveKey(S, r), LAMBDA k, l : KeyLess(l, k))
             key == [i \in 1..Len(list) |-> ObjectiveKey(list[i], r)]
         IN  KeepsSorted(sorted, list, 1..Len(list), key, Backwards(KeysBefore(4)))
<1> DEFINE I == 1..Len(list)
           key == [i \in I |-> ObjectiveKey(list[i], r)]
           K == [1..4 -> Int]
           Less == Backwards(KeysBefore(4))
           keyed == {<<ObjectiveKey(list[i], r), i>> : i \in I}
           before(a, b) == KeyLess(b[1], a[1]) \/ (~KeyLess(a[1], b[1]) /\ a[2] < b[2])
           at == [k \in 1..Cardinality(keyed) |->
                    CHOOSE x \in keyed : Cardinality({y \in keyed : before(y, x)}) = k - 1]
<1>1. Len(list) \in Nat /\ I \in SUBSET Nat /\ IsFiniteSet(I)
  BY FS_Interval
<1>2. key \in [I -> K]
  <2>1. \A i \in I : ObjectiveKey(list[i], r) \in K
    BY ObjectiveKeysAreTyped
  <2> QED
    BY <2>1
<1>3. LinearlyOrders(Less, K) /\ \A x, y \in K : <<x, y>> \in Less <=> KeyLess(y, x)
  <2>1. LinearlyOrders(KeysBefore(4), K) /\ KeysBefore(4) \in SUBSET (K \X K)
    BY KeysAreOrdered DEF KeysBefore
  <2>2. \A x, y \in K : <<y, x>> \in KeysBefore(4) <=> KeyLess(y, x)
    BY DEF KeysBefore
  <2> HIDE DEF K
  <2> QED
    BY <2>1, <2>2, BackwardsOrders
<1>4. keyed = Keyed(key, I)
  BY DEF Keyed
<1>5. \A x \in keyed : x[1] \in K
  BY <1>2, <1>4 DEF Keyed
<1> HIDE DEF key, K, Less, keyed, I
<1>6. \A x, y \in keyed : <<x, y>> \in KeyedBefore(key, I, Less) <=> before(x, y)
  BY <1>3, <1>4, <1>5 DEF KeyedBefore
<1>7. /\ Cardinality(keyed) = Cardinality(I) /\ IsFiniteSet(keyed)
      /\ LinearlyOrders(KeyedBefore(key, I, Less), keyed)
  BY <1>1, <1>2, <1>3, <1>4, KeyedAreOrdered
<1>8. ASSUME NEW k \in 1..Cardinality(keyed)
      PROVE  \E x \in keyed : Cardinality({y \in keyed : before(y, x)}) = k - 1
  <2>1. TakesPositions(keyed, KeyedBefore(key, I, Less))
    <3>1. LinearlyOrders(Less, K)
      BY <1>3
    <3>2. I \in SUBSET Nat /\ IsFiniteSet(I)
      BY <1>1
    <3>3. TakesPositions(Keyed(key, I), KeyedBefore(key, I, Less))
      BY <1>2, <3>1, <3>2, KeyedPositionsAreTaken
    <3> QED
      BY <1>4, <3>3
  <2>2. PICK x \in keyed : Cardinality({y \in keyed : <<y, x>> \in KeyedBefore(key, I, Less)}) = k - 1
    BY <2>1 DEF TakesPositions, PlaceOf
  <2> HIDE DEF before
  <2>3. {y \in keyed : <<y, x>> \in KeyedBefore(key, I, Less)} = {y \in keyed : before(y, x)}
    BY <1>6
  <2> QED
    BY <2>2, <2>3
<1>9. ASSUME NEW k \in 1..Cardinality(keyed)
      PROVE  at[k] \in keyed /\ Cardinality({y \in keyed : before(y, at[k])}) = k - 1
  <2> HIDE DEF before
  <2> QED
    BY <1>8
<1> HIDE DEF at
<1>10. ASSUME NEW k \in 1..Cardinality(I)
       PROVE  /\ at[k] \in Keyed(key, I)
              /\ Cardinality({y \in Keyed(key, I) : <<y, at[k]>> \in KeyedBefore(key, I, Less)}) = k - 1
  <2>1. k \in 1..Cardinality(keyed)
    BY <1>7
  <2>2. at[k] \in keyed /\ Cardinality({y \in keyed : before(y, at[k])}) = k - 1
    BY <1>9, <2>1
  <2> HIDE DEF before
  <2>3. {y \in keyed : <<y, at[k]>> \in KeyedBefore(key, I, Less)} = {y \in keyed : before(y, at[k])}
    BY <1>6, <2>2
  <2> QED
    BY <1>4, <2>2, <2>3
<1>11. KeepsSorted([k \in 1..Cardinality(I) |-> list[at[k][2]]], list, I, key, Less)
  BY <1>1, <1>2, <1>3, <1>10, SortedItems
<1>12. SortedBy(list, LAMBDA S : ObjectiveKey(S, r), LAMBDA k, l : KeyLess(l, k))
         = [k \in 1..Cardinality(I) |-> list[at[k][2]]]
  <2>1. DOMAIN list = I
    BY DEF I
  <2> QED
    BY <2>1 DEF SortedBy, SortedPart, Ordered, at, keyed
<1> QED
  BY <1>11, <1>12 DEF I, key, Less

-----------------------------------------------------------------------------
(* No required course, and no elective, is always a choice *)

\* The greatest number of electives tried is a natural number.
LEMMA MostIsNumber ==
  ASSUME NEW r \in Orders, NEW base \in Nat
  PROVE  MostElectives(r, base) \in Nat
<1> DEFINE least == Min({CreditOf(s) : s \in ElectivesOf(r)})
           asked == IF r.count = None THEN 0 ELSE r.count
           boundary == RoundedUp(r.min - base, least)
           wanted ==
             IF r.min # None /\ base < r.min
               THEN IF ~r.minInclusive /\ base + boundary * least = r.min THEN boundary + 1 ELSE boundary
             ELSE IF r.target # None THEN RoundedDown(PositivePart(r.target - base), least)
             ELSE 0
           ceiling == CreditCeiling(r)
           room == RoundedDown(PositivePart(ceiling - base), least)
           allowed == IF ~r.maxInclusive /\ base + room * least = ceiling THEN PositivePart(room - 1) ELSE room
           most == Max({asked, wanted})
<1>1. ElectivesOf(r) \in SUBSET Sections
  BY OrdersAreTyped DEF ElectivesOf
<1>2. CASE ElectivesOf(r) = {}
  BY <1>2 DEF MostElectives
<1>3. CASE ElectivesOf(r) # {}
  <2>1. least \in Nat \ {0}
    <3> DEFINE credits == {CreditOf(s) : s \in ElectivesOf(r)}
    <3>1. credits \in SUBSET (Nat \ {0}) /\ credits # {}
      BY <1>1, <1>3, CatalogIsTyped DEF CreditOf
    <3> HIDE DEF credits
    <3>2. Min(credits) \in credits
      BY <3>1, MinIsLeast
    <3>3. Min(credits) \in Nat \ {0}
      BY <3>1, <3>2
    <3> QED
      BY <3>3 DEF credits
  <2>2. asked \in Nat
    BY OrdersAreTyped
  <2> HIDE DEF least, asked
  <2>3. \A x \in Int : RoundedUp(x, least) \in Int /\ RoundedDown(x, least) \in Int
    BY <2>1 DEF RoundedUp, RoundedDown
  <2>4. \A x \in Nat : RoundedDown(x, least) \in Nat
    BY <2>1 DEF RoundedDown
  <2>5. \A x \in Int : PositivePart(x) \in Nat
    BY DEF PositivePart
  <2>6. wanted \in Int
    <3>1. r.min # None => boundary \in Int
      <4>1. r.min # None => r.min - base \in Int
        BY OrdersAreTyped
      <4> QED
        BY <2>3, <4>1
    <3>2. r.target # None => RoundedDown(PositivePart(r.target - base), least) \in Int
      <4>1. r.target # None => r.target - base \in Int
        BY OrdersAreTyped
      <4> QED
        BY <2>4, <2>5, <4>1
    <3> HIDE DEF boundary
    <3> QED
      BY <3>1, <3>2
  <2>7. ceiling # None => allowed \in Nat
    <3> SUFFICES ASSUME ceiling # None PROVE allowed \in Nat
      OBVIOUS
    <3>1. ceiling - base \in Int
      BY CeilingIsLeast
    <3>2. room \in Nat
      BY <2>4, <2>5, <3>1
    <3> HIDE DEF room, ceiling
    <3> QED
      BY <2>5, <3>2
  <2> HIDE DEF wanted, allowed, ceiling
  <2>8. most \in Nat
    <3>1. most \in {asked, wanted} /\ asked <= most
      BY <2>2, <2>6, MaxOfTwo
    <3> QED
      BY <2>2, <2>6, <3>1
  <2> DEFINE upTo == IF ceiling = None THEN most ELSE Min({most, allowed})
  <2>9. upTo \in Nat
    <3> HIDE DEF most
    <3>1. ASSUME ceiling # None PROVE Min({most, allowed}) \in Nat
      <4>1. most \in Int /\ allowed \in Int /\ {most, allowed} \subseteq Nat
        BY <2>7, <2>8, <3>1
      <4>2. Min({most, allowed}) \in {most, allowed}
        BY <4>1, MinOfTwo
      <4> QED
        BY <4>1, <4>2
    <3> QED
      BY <2>8, <3>1
  <2>10. Cardinality(ElectivesOf(r)) \in Nat
    BY <1>1, PartsAreFinite
  <2>11. MostElectives(r, base) = Min({upTo, Cardinality(ElectivesOf(r))})
    BY <1>3 DEF MostElectives, least, asked, wanted, ceiling, allowed
  <2> HIDE DEF upTo
  <2>12. Min({upTo, Cardinality(ElectivesOf(r))}) \in {upTo, Cardinality(ElectivesOf(r))}
    <3>1. upTo \in Int /\ Cardinality(ElectivesOf(r)) \in Int
      BY <2>9, <2>10
    <3> QED
      BY <3>1, MinOfTwo
  <2> QED
    BY <2>9, <2>10, <2>11, <2>12
<1> QED
  BY <1>2, <1>3

\* A listing of a set is a sequence of all its members.
LEMMA ListedIs ==
  ASSUME NEW list, NEW P, Lists(list, P)
  PROVE  list \in Seq(P) /\ ToSet(list) = P
BY DEF Lists, ToSet

\* At least one group of electives is tried for every choice of required courses.
LEMMA ElectivesAreTried ==
  ASSUME NEW r \in Orders, NEW base \in Nat
  PROVE  /\ ElectiveChoices(r, MostElectives(r, base)) \in Seq(SUBSET ElectivesOf(r))
         /\ ElectiveChoices(r, MostElectives(r, base)) # <<>>
<1> DEFINE most == MostElectives(r, base)
           list == ElectiveChoices(r, most)
           P == ElectiveParts(r, most)
<1>1. most \in Nat
  BY MostIsNumber
<1> HIDE DEF most
<1>2. r.electives \subseteq Sections
  BY OrdersAreTyped
<1>3. Lists(list, P)
  BY <1>2, ElectivesAreListed
<1>4. {} \in P
  BY <1>1, FS_EmptySet DEF ElectiveParts
<1>5. P \subseteq SUBSET ElectivesOf(r)
  BY DEF ElectiveParts
<1> HIDE DEF list, P
<1>6. list \in Seq(P) /\ ToSet(list) = P
  BY <1>3, ListedIs
<1>7. list \in Seq(SUBSET ElectivesOf(r))
  BY <1>5, <1>6
<1>8. list # <<>>
  BY <1>4, <1>6 DEF ToSet
<1> QED
  BY <1>7, <1>8 DEF list, most

\* When the fixed classes fit, the choice of no required course is tried.
LEMMA RequiredAreTried ==
  ASSUME NEW r \in Orders, ~AboveMaximum(Credits(r.fixed), r.max, r.maxInclusive),
         ~ExceedsTarget(Credits(r.fixed), r)
  PROVE  {} \in ToSet(RequiredChoices(r))
<1>1. r.fixed \in SUBSET Sections /\ r.required \subseteq Sections
  BY OrdersAreTyped
<1>2. Credits(r.fixed) \in Nat
  BY <1>1, CreditsAreNumbers
<1>3. CreditCeiling(r) # None => Credits(r.fixed) <= CreditCeiling(r)
  <2> SUFFICES ASSUME CreditCeiling(r) # None PROVE Credits(r.fixed) <= CreditCeiling(r)
    OBVIOUS
  <2>1. CreditCeiling(r) \in Nat /\ CreditCeiling(r) \in {r.target, r.max}
    BY CeilingIsLeast
  <2>2. CASE CreditCeiling(r) = r.target
    BY <1>2, <2>1, <2>2 DEF ExceedsTarget
  <2>3. CASE CreditCeiling(r) = r.max
    BY <1>2, <2>1, <2>3 DEF AboveMaximum
  <2> QED
    BY <2>1, <2>2, <2>3
<1>4. SumFunction([c \in CoursesOf({}) |-> Cheapest(r, c)]) = 0
  <2> DEFINE w == [c \in CoursesOf({}) |-> Cheapest(r, c)]
  <2>1. w \in [{} -> Int]
    BY DEF CoursesOf
  <2>2. PICK g : IsSum(w, g, {}) /\ SumFunction(w) = g[{}]
    <3> HIDE DEF w
    <3> QED
      BY <2>1, FS_EmptySet, FunctionsAreSummed
  <2>3. g[{}] = 0
    BY <2>2 DEF IsSum, SumStep
  <2> QED
    BY <2>2, <2>3
<1>5. Affordable(r, {})
  BY <1>2, <1>3, <1>4, CeilingIsLeast DEF Affordable
<1>6. {} \in RequiredParts(r)
  BY <1>5 DEF RequiredParts, DuplicateCourse
<1>7. Lists(RequiredChoices(r), RequiredParts(r))
  BY <1>1, RequiredAreListed
<1> QED
  BY <1>6, <1>7, ListedIs

-----------------------------------------------------------------------------
(* What the generator holds while it runs *)

Different(list) == \A i, j \in 1..Len(list) : list[i] = list[j] => i = j

Accepted(list) ==
  /\ list \in Seq(SUBSET Sections)
  /\ \A i \in 1..Len(list) :
       Recommendable(order, list[i]) /\ ~ViolatesHardConditions(list[i], order.hard)
  /\ Different(list)

\* The inductive invariant.
LegacySound ==
  /\ order \in Orders
  /\ phase \in {"start", "required", "electives", "done"}
  /\ choices \in Seq(SUBSET order.required) /\ chosen \subseteq order.required
  /\ groups \in Seq(SUBSET ElectivesOf(order))
  /\ Accepted(found)
  /\ Len(found) <= order.limit
  /\ truncated \in BOOLEAN /\ (truncated => LimitReached(found)) /\ (~truncated => ~LimitReached(found))
  /\ wish # None => phase = "done"
  /\ ranked # None => wish # None

\* Nothing is found before the first request.
LEMMA LegacySoundInit == LegacyRankInit => LegacySound
<1> SUFFICES ASSUME LegacyRankInit PROVE LegacySound
  OBVIOUS
<1>1. order \in Orders /\ found = <<>> /\ Len(found) = 0 /\ ~truncated
  BY DEF LegacyRankInit, LegacyInit
<1>2. order.limit \in Nat /\ order.limit > 0
  BY <1>1, OrdersAreTyped
<1>3. Accepted(found)
  BY <1>1 DEF Accepted, Different
<1>4. ~LimitReached(found)
  BY <1>1, <1>2 DEF LimitReached
<1>5. /\ choices \in Seq(SUBSET order.required) /\ chosen \subseteq order.required
      /\ groups \in Seq(SUBSET ElectivesOf(order))
  BY DEF LegacyRankInit, LegacyInit
<1>6. phase = "start" /\ truncated = FALSE /\ wish = None /\ ranked = None
  BY DEF LegacyRankInit, LegacyInit
<1>7. truncated \in BOOLEAN /\ (truncated => LimitReached(found)) /\ (~truncated => ~LimitReached(found))
  BY <1>4, <1>6, Zenon
<1>8. Len(found) <= order.limit
  BY <1>1, <1>2
<1> QED
  BY <1>7, <1>8, <1>1, <1>2, <1>3, <1>4, <1>5, <1>6 DEF LegacySound

\* Starting a generation finds nothing.
LEMMA StartIsSound ==
  ASSUME LegacySound, LegacyStart, UNCHANGED <<wish, template, ranked>>
  PROVE  LegacySound'
<1>1. RequiredChoices(order) \in Seq(SUBSET order.required)
  <2>1. Lists(RequiredChoices(order), RequiredParts(order))
    BY OrdersAreTyped, RequiredAreListed DEF LegacySound
  <2>2. RequiredChoices(order) \in Seq(RequiredParts(order))
    BY <2>1, ListedIs
  <2>3. RequiredParts(order) \subseteq SUBSET order.required
    BY DEF RequiredParts
  <2> QED
    BY <2>2, <2>3
<1>2. choices' \in Seq(SUBSET order.required) /\ phase' \in {"required", "done"} /\ phase = "start"
  BY <1>1 DEF LegacyStart, LegacyRefuse, LegacySound
<1>3. UNCHANGED <<order, chosen, groups, found, stats, truncated>>
  BY DEF LegacyStart
<1>4. Accepted(found)'
  BY <1>3 DEF Accepted, LegacySound
<1>5. LimitReached(found)' <=> LimitReached(found)
  BY <1>3 DEF LimitReached
<1> QED
  BY <1>2, <1>3, <1>4, <1>5 DEF LegacySound

\* Taking the next choice of required courses leaves what was found.
LEMMA RequiredIsSound ==
  ASSUME LegacySound, NextRequired, UNCHANGED <<wish, template, ranked>>
  PROVE  LegacySound'
<1>1. /\ phase = "required" /\ choices # <<>> /\ choices' = Tail(choices)
      /\ UNCHANGED <<order, found, truncated, diagnostics>>
  BY DEF NextRequired
<1>2. choices' \in Seq(SUBSET order.required) /\ Head(choices) \subseteq order.required
  BY <1>1 DEF LegacySound
<1>3. /\ phase' \in {"required", "electives"} /\ chosen' \subseteq order.required
      /\ groups' \in Seq(SUBSET ElectivesOf(order))
  <2>1. CASE UNCHANGED <<phase, chosen, groups>>
    BY <1>1, <2>1 DEF LegacySound
  <2>2. CASE /\ phase' = "electives" /\ chosen' = Head(choices)
             /\ groups' = ElectiveChoices(order, MostElectives(order, Credits(order.fixed \cup Head(choices))))
    <3>1. order.fixed \cup Head(choices) \in SUBSET Sections
      BY <1>2, OrdersAreTyped DEF LegacySound
    <3>2. groups' \in Seq(SUBSET ElectivesOf(order))
      BY <2>2, <3>1, CreditsAreNumbers, ElectivesAreTried DEF LegacySound
    <3> QED
      BY <1>2, <2>2, <3>2
  <2> QED
    BY <2>1, <2>2 DEF NextRequired
<1>4. Accepted(found)'
  BY <1>1 DEF Accepted, LegacySound
<1>5. LimitReached(found)' <=> LimitReached(found)
  BY <1>1 DEF LimitReached
<1> QED
  BY <1>1, <1>2, <1>3, <1>4, <1>5 DEF LegacySound

\* Trying a group of electives adds an admissible candidate that is new, or nothing.
LEMMA ElectivesAreSound ==
  ASSUME LegacySound, NextElectives, UNCHANGED <<wish, template, ranked>>
  PROVE  LegacySound'
<1> DEFINE S == order.fixed \cup chosen \cup Head(groups)
<1>1. /\ phase = "electives" /\ groups # <<>> /\ ~truncated /\ groups' = Tail(groups)
      /\ truncated' = LimitReached(found') /\ UNCHANGED <<order, phase, choices, chosen, diagnostics>>
  BY DEF NextElectives
<1>2. groups' \in Seq(SUBSET ElectivesOf(order)) /\ Head(groups) \subseteq ElectivesOf(order)
  BY <1>1 DEF LegacySound
<1>3. found' = found \/ (/\ found' = Append(found, S) /\ RejectionOf(S, order.min) = {}
                         /\ ~ViolatesHardConditions(S, order.hard) /\ ~Contains(found, S))
  BY DEF NextElectives
<1>4. Len(found) \in Nat /\ Len(found) < order.limit /\ order.limit \in Nat
  BY <1>1, OrdersAreTyped DEF LegacySound, LimitReached, Accepted
<1> HIDE DEF S
<1>5. Accepted(found') /\ Len(found') <= order.limit
  <2>1. CASE found' = found
    BY <2>1, <1>4 DEF LegacySound
  <2>2. CASE found' # found
    <3>1. /\ found' = Append(found, S) /\ RejectionOf(S, order.min) = {}
          /\ ~ViolatesHardConditions(S, order.hard) /\ ~Contains(found, S)
      BY <1>3, <2>2
    <3>2. S \in SUBSET Sections /\ Recommendable(order, S)
      BY <1>2, <3>1, AcceptedIsRecommendable DEF LegacySound, S
    <3>3. found \in Seq(SUBSET Sections)
      BY DEF LegacySound, Accepted
    <3>4. /\ found' \in Seq(SUBSET Sections) /\ Len(found') = Len(found) + 1
          /\ \A i \in 1..Len(found') :
               IF i = Len(found) + 1 THEN found'[i] = S ELSE i \in 1..Len(found) /\ found'[i] = found[i]
      BY <3>1, <3>2, <3>3
    <3>5. \A i \in 1..Len(found') :
            Recommendable(order, found'[i]) /\ ~ViolatesHardConditions(found'[i], order.hard)
      BY <3>1, <3>2, <3>4 DEF LegacySound, Accepted
    <3>6. \A i \in 1..Len(found) : found[i] # S
      BY <3>1 DEF Contains
    <3>7. \A i, j \in 1..Len(found) : found[i] = found[j] => i = j
      BY DEF LegacySound, Accepted, Different
    <3>8. Different(found')
      BY <1>4, <3>4, <3>6, <3>7 DEF Different
    <3> QED
      BY <1>4, <3>4, <3>5, <3>8 DEF Accepted
  <2> QED
    BY <2>1, <2>2
<1>6. Accepted(found)'
  BY <1>1, <1>5 DEF Accepted
<1>7. truncated' \in BOOLEAN /\ (truncated' => LimitReached(found)') /\ (~truncated' => ~LimitReached(found)')
  <2>1. truncated' = (Len(found') >= order'.limit)
    BY <1>1 DEF LimitReached
  <2>2. LimitReached(found)' <=> Len(found') >= order'.limit
    BY DEF LimitReached
  <2>3. (Len(found') >= order'.limit) \in BOOLEAN
    <3>1. Len(found') \in Nat /\ order'.limit \in Nat
      BY <1>1, <1>4, <1>5 DEF Accepted
    <3>2. \A x, y \in Nat : (x >= y) \in BOOLEAN
      OBVIOUS
    <3> QED
      BY <3>1, <3>2
  <2> QED
    BY <2>1, <2>2, <2>3, Zenon
<1> QED
  BY <1>1, <1>2, <1>5, <1>6, <1>7 DEF LegacySound

\* The final sort keeps the candidates: none is lost, repeated or added.
LEMMA FinishIsSound ==
  ASSUME LegacySound, LegacyFinish, UNCHANGED <<wish, template, ranked>>
  PROVE  LegacySound' /\ ToSet(found') = ToSet(found) /\ (found' = <<>> <=> found = <<>>)
<1>1. /\ phase # "done" /\ phase' = "done" /\ UNCHANGED <<order, choices, chosen, groups, stats, truncated>>
      /\ found' = SortedBy(found, LAMBDA S : ObjectiveKey(S, order), LAMBDA k, l : KeyLess(l, k))
  BY DEF LegacyFinish
<1>2. found \in Seq(SUBSET Sections) /\ order \in Orders /\ Different(found) /\ Len(found) \in Nat
  BY DEF LegacySound, Accepted
<1> DEFINE I == 1..Len(found)
           key == [i \in I |-> ObjectiveKey(found[i], order)]
<1>3. KeepsSorted(found', found, I, key, Backwards(KeysBefore(4)))
  BY <1>1, <1>2, BestComeFirst
<1>4. Cardinality(I) = Len(found)
  <2>1. \A c \in Nat : Cardinality(1..c) = c
    BY FS_Interval
  <2> QED
    BY <1>2, <2>1
<1>5. /\ found' \in Seq(SUBSET Sections) /\ Len(found') = Len(found) /\ Different(found')
      /\ ToSet(found') = {found[i] : i \in I}
  <2> HIDE DEF key
  <2>1. I \in SUBSET (1..Len(found))
    OBVIOUS
  <2> HIDE DEF I
  <2> QED
    BY <1>2, <1>3, <1>4, <2>1, SortedListIs DEF Different
<1>6. ToSet(found') = ToSet(found)
  <2>1. ToSet(found) = {found[i] : i \in I}
    BY <1>2 DEF ToSet
  <2> HIDE DEF I
  <2> QED
    BY <1>5, <2>1
<1>7. \A i \in 1..Len(found') : found'[i] \in ToSet(found)
  BY <1>5, <1>6 DEF ToSet
<1>8. \A T \in ToSet(found) : Recommendable(order, T) /\ ~ViolatesHardConditions(T, order.hard)
  BY <1>2 DEF LegacySound, Accepted, ToSet
<1>9. Accepted(found')
  BY <1>5, <1>7, <1>8 DEF Accepted
<1>10. Accepted(found)'
  BY <1>1, <1>9 DEF Accepted
<1>11. LimitReached(found)' <=> LimitReached(found)
  BY <1>1, <1>5 DEF LimitReached
<1>12. LegacySound'
  BY <1>1, <1>5, <1>10, <1>11 DEF LegacySound
<1>13. found' = <<>> <=> found = <<>>
  BY <1>2, <1>5
<1> QED
  BY <1>6, <1>12, <1>13

\* A step that leaves the candidates alone keeps them sound.
LEMMA QuietIsSound ==
  ASSUME LegacySound, UNCHANGED <<order, choices, chosen, found, truncated>>,
         phase' \in {"start", "required", "electives", "done"},
         groups' \in Seq(SUBSET ElectivesOf(order)),
         wish' # None => phase' = "done", ranked' # None => wish' # None
  PROVE  LegacySound'
<1>1. Accepted(found)'
  BY DEF Accepted, LegacySound
<1>2. LimitReached(found)' <=> LimitReached(found)
  BY DEF LimitReached
<1> QED
  BY <1>1, <1>2 DEF LegacySound

\* No step of the generator or its ranking loses soundness.
LEMMA LegacySoundNext == LegacySound /\ [LegacyRankNext]_legacyRankVars => LegacySound'
<1> SUFFICES ASSUME LegacySound, [LegacyRankNext]_legacyRankVars PROVE LegacySound'
  OBVIOUS
<1>1. CASE LegacyStart /\ UNCHANGED <<wish, template, ranked>>
  BY <1>1, StartIsSound
<1>2. CASE NextRequired /\ UNCHANGED <<wish, template, ranked>>
  BY <1>2, RequiredIsSound
<1>3. CASE NextElectives /\ UNCHANGED <<wish, template, ranked>>
  BY <1>3, ElectivesAreSound
<1>4. CASE NoElectivesLeft /\ UNCHANGED <<wish, template, ranked>>
  <2>1. wish = None
    BY <1>4 DEF NoElectivesLeft, LegacySound
  <2> QED
    BY <1>4, <2>1, QuietIsSound DEF NoElectivesLeft, LegacySound
<1>5. CASE LegacyFinish /\ UNCHANGED <<wish, template, ranked>>
  BY <1>5, FinishIsSound
<1>6. CASE ChooseRanking
  <2>1. phase = "done" /\ ranked' = ranked /\ wish = None /\ UNCHANGED legacyVars
    BY <1>6 DEF ChooseRanking
  <2>2. ranked = None
    BY <2>1 DEF LegacySound
  <2> QED
    BY <2>1, <2>2, QuietIsSound DEF LegacySound, legacyVars
<1>7. CASE LegacyRank
  <2>1. wish # None /\ UNCHANGED <<legacyVars, wish, template>>
    BY <1>7 DEF LegacyRank
  <2> QED
    BY <2>1, QuietIsSound DEF LegacySound, legacyVars
<1>8. CASE UNCHANGED legacyRankVars
  BY <1>8, QuietIsSound DEF LegacySound, legacyVars, legacyRankVars
<1> QED
  BY <1>1, <1>2, <1>3, <1>4, <1>5, <1>6, <1>7, <1>8 DEF LegacyRankNext, LegacyNext

-----------------------------------------------------------------------------
(* The promise *)

\* The promise counts what it offers as the generator does.
LEMMA SameNumber == \A S : LegacyPromise!Cardinality(S) = Cardinality(S)
BY DEF LegacyPromise!Cardinality, Cardinality, LegacyPromise!IsFiniteSet, IsFiniteSet

\* Trying a group of electives is a step of the promise or none.
LEMMA TryingKeepsPromise ==
  ASSUME LegacySound, LegacySound', NextElectives
  PROVE  [LegacyPromise!Next]_(LegacyPromise!vars)
<1> DEFINE S == order.fixed \cup chosen \cup Head(groups)
<1>1. phase = "electives" /\ UNCHANGED <<order, phase>>
  BY DEF NextElectives
<1>2. found' = found \/ (found' = Append(found, S) /\ ~Contains(found, S))
  BY DEF NextElectives
<1> HIDE DEF S
<1>3. CASE found' = found
  BY <1>1, <1>3 DEF LegacyPromise!vars
<1>4. CASE found' = Append(found, S) /\ ~Contains(found, S)
  <2>0. /\ found \in Seq(SUBSET Sections) /\ found' \in Seq(SUBSET Sections)
        /\ \A i \in 1..Len(found') : Recommendable(order, found'[i])
        /\ Len(found') <= order.limit /\ order.limit \in Nat
    BY <1>1, OrdersAreTyped DEF LegacySound, Accepted
  <2>1. ToSet(found') = ToSet(found) \cup {S}
    BY <1>4, <2>0 DEF ToSet
  <2>2. S \notin ToSet(found)
    BY <1>4, <2>0 DEF Contains, ToSet
  <2>3. S \in ToSet(found')
    BY <2>1
  <2>4. Recommendable(order, S)
    BY <2>0, <2>3 DEF ToSet
  <2>5. Cardinality(ToSet(found')) <= order.limit
    <3>1. IsFiniteSet(ToSet(found')) /\ Cardinality(ToSet(found')) <= Len(found')
      BY <2>0, ItemsAreCounted
    <3>2. Cardinality(ToSet(found')) \in Nat /\ Len(found') \in Nat
      BY <2>0, <3>1, FS_CardinalityType
    <3> QED
      BY <2>0, <3>1, <3>2
  <2>6. LegacyPromise!Offer
    BY <1>1, <2>1, <2>2, <2>3, <2>4, <2>5, SameNumber DEF LegacyPromise!Offer
  <2> QED
    BY <2>6 DEF LegacyPromise!Next
<1> QED
  BY <1>2, <1>3, <1>4

\* Every step of the generator and its ranking is a step of the promise or none.
LEMMA LegacyStepKeepsPromise ==
  ASSUME LegacySound, LegacySound', [LegacyRankNext]_legacyRankVars
  PROVE  [LegacyPromise!Next]_(LegacyPromise!vars)
<1>q. ASSUME order' = order, ToSet(found') = ToSet(found), phase # "done", phase' = "done"
      PROVE  [LegacyPromise!Next]_(LegacyPromise!vars)
  BY <1>q DEF LegacyPromise!Next, LegacyPromise!Answer
<1>u. ASSUME UNCHANGED <<order, found>>, phase' = "done" <=> phase = "done"
      PROVE  [LegacyPromise!Next]_(LegacyPromise!vars)
  BY <1>u DEF LegacyPromise!vars
<1>1. CASE LegacyStart
  <2>1. phase = "start" /\ UNCHANGED <<order, found>>
    BY <1>1 DEF LegacyStart
  <2> QED
    BY <2>1, <1>q, <1>u
<1>2. CASE NextRequired
  <2>1. phase = "required" /\ phase' # "done" /\ UNCHANGED <<order, found>>
    BY <1>2 DEF NextRequired
  <2> QED
    BY <2>1, <1>u
<1>3. CASE NextElectives
  BY <1>3, TryingKeepsPromise
<1>4. CASE NoElectivesLeft
  <2>1. phase # "done" /\ phase' # "done" /\ UNCHANGED <<order, found>>
    BY <1>4 DEF NoElectivesLeft
  <2> QED
    BY <2>1, <1>u
<1>5. CASE LegacyFinish /\ UNCHANGED <<wish, template, ranked>>
  <2>1. phase # "done" /\ phase' = "done" /\ order' = order
    BY <1>5 DEF LegacyFinish
  <2>2. ToSet(found') = ToSet(found)
    BY <1>5, FinishIsSound
  <2> QED
    BY <2>1, <2>2, <1>q
<1>6. CASE UNCHANGED legacyVars
  <2>1. UNCHANGED <<order, found, phase>>
    BY <1>6 DEF legacyVars
  <2> QED
    BY <2>1, <1>u
<1>7. CASE ChooseRanking \/ LegacyRank \/ UNCHANGED legacyRankVars
  BY <1>6, <1>7 DEF ChooseRanking, LegacyRank, legacyRankVars
<1> QED
  BY <1>1, <1>2, <1>3, <1>4, <1>5, <1>7 DEF LegacyRankNext, LegacyNext

(* The generator of the recommendation route keeps a generator's promise   *)
(* for any catalog and request: what it offers can be recommended, none is *)
(* offered twice or taken back, and there are no more than asked for.      *)
THEOREM LegacyImplementsPromise ==
  LegacyRankSpec => LegacyPromise!Init /\ [][LegacyPromise!Next]_(LegacyPromise!vars)
<1>1. LegacyRankInit => LegacyPromise!Init
  BY DEF LegacyRankInit, LegacyInit, LegacyPromise!Init, ToSet
<1>2. LegacySound /\ LegacySound' /\ [LegacyRankNext]_legacyRankVars
        => [LegacyPromise!Next]_(LegacyPromise!vars)
  BY LegacyStepKeepsPromise
<1> QED
  BY <1>1, <1>2, LegacySoundInit, LegacySoundNext, PTL DEF LegacyRankSpec

-----------------------------------------------------------------------------
(* Why nothing is recommended *)

Reasons ==
  {"TIME_CONFLICT", "TRAVEL_NOT_POSSIBLE", "HARD_CONDITION_FAILED",
   "CREDIT_ABOVE_TARGET", "DUPLICATE_LOGICAL_COURSE"}

\* The final diagnostics say something about what was counted so far.
Counted == "COMBINATIONS_EVALUATED" \in stats \/ stats \cap Reasons # {}

TargetIsReached == TargetAsLimit(order) /\ Credits(order.fixed) = order.target

\* The inductive invariant: the choice without a required course is still to come
\* until something was counted.
LegacyExplained ==
  /\ phase \in {"required", "electives"} =>
       ~AboveMaximum(Credits(order.fixed), order.max, order.maxInclusive)
         /\ ~ExceedsTarget(Credits(order.fixed), order)
  /\ phase = "required" => {} \in ToSet(choices) \/ Counted \/ TargetIsReached
  /\ phase = "electives" => groups # <<>> \/ "COMBINATIONS_EVALUATED" \in stats
  /\ truncated => "COMBINATIONS_EVALUATED" \in stats
  /\ EmptyRecommendationIsExplained

\* When the fixed classes alone are rejected, the rejection is counted or the target is
\* reached.
LEMMA MajorsAloneAreCounted ==
  ASSUME order \in Orders, ~AboveMaximum(Credits(order.fixed), order.max, order.maxInclusive),
         ~ExceedsTarget(Credits(order.fixed), order),
         RejectionOf(order.fixed, None) # {}
  PROVE  RejectionOf(order.fixed, None) \cap Reasons # {} \/ TargetIsReached
<1>1. Credits(order.fixed) \in Nat
  BY OrdersAreTyped, CreditsAreNumbers
<1>2. CASE DuplicateCourse(order.fixed)
  BY <1>2 DEF RejectionOf, Reasons
<1>3. CASE ~DuplicateCourse(order.fixed)
  <2>1. RejectionOf(order.fixed, None) = IssueCodes(order.fixed, None)
    BY <1>3 DEF RejectionOf
  <2>2. PICK c \in IssueCodes(order.fixed, None) : TRUE
    BY <2>1
  <2>3. c \in {"TIME_CONFLICT", "TRAVEL_NOT_POSSIBLE", "CREDIT_BELOW_MINIMUM", "CREDIT_ABOVE_MAXIMUM"}
    BY <2>2 DEF IssueCodes
  <2>4. CASE c \in {"TIME_CONFLICT", "TRAVEL_NOT_POSSIBLE"}
    BY <2>1, <2>2, <2>4 DEF Reasons
  <2>5. CASE c = "CREDIT_BELOW_MINIMUM"
    BY <2>2, <2>5 DEF IssueCodes, BelowMinimum
  <2>6. CASE c = "CREDIT_ABOVE_MAXIMUM"
    <3> DEFINE credits == Credits(order.fixed)
    <3>1. AboveMaximum(credits, CreditCeiling(order), order.maxInclusive)
      BY <2>2, <2>6 DEF IssueCodes
    <3>2. CreditCeiling(order) # None /\ CreditCeiling(order) \in Nat /\ CreditCeiling(order) \in {order.target, order.max}
      BY <3>1, CeilingIsLeast DEF AboveMaximum
    <3>3. CreditCeiling(order) = order.max => order.max # None
      BY <3>2
    <3>4. CreditCeiling(order) = order.target => order.target # None /\ credits <= order.target
      BY <1>1, <3>2 DEF ExceedsTarget
    <3> HIDE DEF credits
    <3>5. ~order.maxInclusive /\ credits >= CreditCeiling(order)
      <4>1. ASSUME order.maxInclusive PROVE FALSE
        <5>1. credits > CreditCeiling(order)
          BY <3>1, <4>1 DEF AboveMaximum
        <5>2. CASE CreditCeiling(order) = order.max
          BY <3>1, <3>3, <5>2 DEF credits
        <5>3. CASE CreditCeiling(order) = order.target
          BY <1>1, <3>2, <3>4, <5>1, <5>3 DEF credits
        <5> QED
          BY <3>2, <5>2, <5>3
      <4> QED
        BY <3>1, <4>1 DEF AboveMaximum
    <3>6. order.max # None /\ order.max \in Nat
      BY <3>5, OrdersAreTyped
    <3>7. credits < order.max
      BY <1>1, <3>5, <3>6 DEF AboveMaximum, credits
    <3>8. CreditCeiling(order) = order.target
      BY <1>1, <3>2, <3>5, <3>6, <3>7 DEF credits
    <3>9. credits = order.target
      BY <1>1, <3>2, <3>4, <3>5, <3>8 DEF credits
    <3> QED
      BY <3>4, <3>5, <3>7, <3>8, <3>9 DEF TargetIsReached, TargetAsLimit, credits
  <2> QED
    BY <2>3, <2>4, <2>5, <2>6
<1> QED
  BY <1>2, <1>3

\* Before the first request no answer is owed an explanation.
LEMMA LegacyExplainedInit == LegacyRankInit => LegacyExplained
BY DEF LegacyRankInit, LegacyInit, LegacyExplained, EmptyRecommendationIsExplained

\* A phase that does not end keeps what has been answered out of sight.
LEMMA StillRunning ==
  ASSUME phase' # "done"
  PROVE  EmptyRecommendationIsExplained'
BY DEF EmptyRecommendationIsExplained

\* Starting a generation leaves the empty choice to come, or says why not.
LEMMA StartIsExplained ==
  ASSUME LegacySound, LegacyExplained, LegacyStart
  PROVE  LegacyExplained'
<1>1. phase = "start" /\ UNCHANGED <<order, chosen, groups, found, stats, truncated>> /\ order \in Orders
  BY DEF LegacyStart, LegacySound
<1>2. CASE LegacyRefuse("FIXED_MAJOR_INTEGRITY_ERROR") \/ LegacyRefuse("MAJOR_CREDITS_EXCEED_TARGET")
  <2>1. phase' = "done" /\ diagnostics' \in {{"FIXED_MAJOR_INTEGRITY_ERROR"}, {"MAJOR_CREDITS_EXCEED_TARGET"}}
    BY <1>2 DEF LegacyRefuse
  <2>2. EmptyRecommendationIsExplained'
    BY <2>1 DEF EmptyRecommendationIsExplained
  <2> QED
    BY <1>1, <2>1, <2>2 DEF LegacyExplained
<1>3. CASE phase' = "required"
  <2>1. /\ Valid(order.fixed, None, None, TRUE, order.max, order.maxInclusive)
        /\ ~ExceedsTarget(FixedCredits, order) /\ choices' = RequiredChoices(order)
    BY <1>3 DEF LegacyStart, LegacyRefuse
  <2>2. /\ ~AboveMaximum(Credits(order.fixed), order.max, order.maxInclusive)
        /\ ~ExceedsTarget(Credits(order.fixed), order)
    BY <2>1 DEF Valid, FixedCredits
  <2>3. {} \in ToSet(choices')
    BY <1>1, <2>1, <2>2, RequiredAreTried
  <2>4. EmptyRecommendationIsExplained'
    BY <1>3, StillRunning
  <2> QED
    BY <1>1, <1>3, <2>2, <2>3, <2>4 DEF LegacyExplained
<1> QED
  BY <1>2, <1>3 DEF LegacyStart

\* The empty choice of required courses, once taken, is the one whose groups are tried.
LEMMA RequiredIsExplained ==
  ASSUME LegacySound, LegacyExplained, NextRequired
  PROVE  LegacyExplained'
<1> DEFINE R == Head(choices)
           rejection == RejectionOf(order.fixed \cup R, None)
<1>1. /\ phase = "required" /\ choices # <<>> /\ choices' = Tail(choices)
      /\ UNCHANGED <<order, found, truncated, diagnostics>>
      /\ choices \in Seq(SUBSET order.required) /\ order \in Orders
  BY DEF NextRequired, LegacySound
<1>2. stats \subseteq stats'
  BY DEF NextRequired
<1>3. /\ ~AboveMaximum(Credits(order.fixed), order.max, order.maxInclusive)
      /\ ~ExceedsTarget(Credits(order.fixed), order)
  BY <1>1 DEF LegacyExplained
<1>4. truncated' => "COMBINATIONS_EVALUATED" \in stats'
  BY <1>1, <1>2 DEF LegacyExplained
<1>5. CASE rejection # {}
  <2>1. stats' = stats \cup rejection /\ phase' = "required"
    BY <1>1, <1>5 DEF NextRequired
  <2>2. {} \in ToSet(choices') \/ Counted' \/ TargetIsReached'
    <3>1. CASE {} \in ToSet(choices) /\ R # {}
      <4>1. PICK i \in 1..Len(choices) : choices[i] = {}
        BY <1>1, <3>1 DEF ToSet
      <4>2. i # 1 /\ i - 1 \in 1..Len(choices')
        BY <1>1, <3>1, <4>1
      <4>3. choices'[i - 1] = {}
        BY <1>1, <4>1, <4>2
      <4>4. DOMAIN choices' = 1..Len(choices')
        BY <1>1
      <4> QED
        BY <4>2, <4>3, <4>4 DEF ToSet
    <3>2. CASE R = {}
      <4>1. rejection = RejectionOf(order.fixed, None)
        BY <3>2
      <4>2. rejection \cap Reasons # {} \/ TargetIsReached
        BY <1>1, <1>3, <1>5, <4>1, MajorsAloneAreCounted
      <4>3. TargetIsReached => TargetIsReached'
        BY <1>1 DEF TargetIsReached, TargetAsLimit
      <4>4. rejection \cap Reasons # {} => Counted'
        BY <2>1 DEF Counted
      <4> QED
        BY <4>2, <4>3, <4>4
    <3>3. CASE Counted \/ TargetIsReached
      <4>1. TargetIsReached => TargetIsReached'
        BY <1>1 DEF TargetIsReached, TargetAsLimit
      <4>2. Counted => Counted'
        BY <1>2 DEF Counted
      <4> QED
        BY <3>3, <4>1, <4>2
    <3> QED
      BY <1>1, <3>1, <3>2, <3>3 DEF LegacyExplained
  <2>3. EmptyRecommendationIsExplained'
    BY <2>1, StillRunning
  <2> QED
    BY <1>1, <1>3, <1>4, <2>1, <2>2, <2>3 DEF LegacyExplained
<1>6. CASE rejection = {}
  <2>1. /\ phase' = "electives"
        /\ groups' = ElectiveChoices(order, MostElectives(order, Credits(order.fixed \cup R)))
    BY <1>6 DEF NextRequired
  <2>2. order.fixed \cup R \in SUBSET Sections
    BY <1>1, OrdersAreTyped
  <2>3. groups' # <<>>
    BY <1>1, <2>1, <2>2, CreditsAreNumbers, ElectivesAreTried
  <2>4. EmptyRecommendationIsExplained'
    BY <2>1, StillRunning
  <2> QED
    BY <1>1, <1>3, <1>4, <2>1, <2>3, <2>4 DEF LegacyExplained
<1> QED
  BY <1>5, <1>6

\* A generation that ends without a candidate reports a reason.
LEMMA FinishIsExplained ==
  ASSUME LegacySound, LegacyExplained, LegacyFinish, UNCHANGED <<wish, template, ranked>>
  PROVE  LegacyExplained'
<1>1. /\ phase' = "done" /\ UNCHANGED <<order, choices, chosen, groups, stats, truncated>>
      /\ diagnostics' = diagnostics \cup FinalDiagnostics
  BY DEF LegacyFinish
<1>2. Counted \/ TargetIsReached
  <2>1. CASE phase = "required" /\ choices = <<>>
    BY <2>1 DEF LegacyExplained, ToSet
  <2>2. CASE truncated
    BY <2>2 DEF LegacyExplained, Counted
  <2> QED
    BY <2>1, <2>2 DEF LegacyFinish
<1>3. ASSUME found' = <<>>, Counted PROVE FinalDiagnostics \ {"NO_REQUIRED_GENERAL_CANDIDATE"} # {}
  <2>1. ToSet(found) = {}
    BY <1>3, FinishIsSound DEF ToSet
  <2>2. CASE "COMBINATIONS_EVALUATED" \in stats
    <3>1. "NO_VALID_TIMETABLE" \in FinalDiagnostics
      BY <2>1, <2>2 DEF FinalDiagnostics
    <3> QED
      BY <3>1
  <2>3. CASE stats \cap Reasons # {}
    <3>1. PICK c \in stats : c \in Reasons
      BY <2>3
    <3>2. c \in FinalDiagnostics
      BY <3>1 DEF FinalDiagnostics, Reasons
    <3>3. c # "NO_REQUIRED_GENERAL_CANDIDATE"
      BY <3>1 DEF Reasons
    <3> QED
      BY <3>2, <3>3
  <2> QED
    BY <1>3, <2>2, <2>3 DEF Counted
<1>4. TargetIsReached => TargetIsReached'
  BY <1>1 DEF TargetIsReached, TargetAsLimit
<1>5. ASSUME found' = <<>>
      PROVE  diagnostics' \ {"NO_REQUIRED_GENERAL_CANDIDATE"} # {} \/ TargetIsReached'
  BY <1>1, <1>2, <1>3, <1>4, <1>5
<1>6. EmptyRecommendationIsExplained'
  BY <1>5 DEF EmptyRecommendationIsExplained, TargetIsReached
<1>7. truncated' => "COMBINATIONS_EVALUATED" \in stats'
  BY <1>1 DEF LegacyExplained
<1> QED
  BY <1>1, <1>6, <1>7 DEF LegacyExplained

\* A step that leaves the generator alone keeps its explanation.
LEMMA ExplainedStays ==
  ASSUME LegacyExplained, UNCHANGED legacyVars
  PROVE  LegacyExplained'
<1>1. UNCHANGED <<order, phase, choices, groups, found, stats, truncated, diagnostics>>
  BY DEF legacyVars
<1>2. EmptyRecommendationIsExplained'
  BY <1>1 DEF LegacyExplained, EmptyRecommendationIsExplained, TargetAsLimit
<1>3. (Counted => Counted') /\ (TargetIsReached => TargetIsReached')
  BY <1>1 DEF Counted, TargetIsReached, TargetAsLimit
<1> QED
  BY <1>1, <1>2, <1>3 DEF LegacyExplained

\* No step loses the explanation of an empty answer.
LEMMA LegacyExplainedNext ==
  LegacySound /\ LegacyExplained /\ [LegacyRankNext]_legacyRankVars => LegacyExplained'
<1> SUFFICES ASSUME LegacySound, LegacyExplained, [LegacyRankNext]_legacyRankVars
             PROVE  LegacyExplained'
  OBVIOUS
<1>1. CASE LegacyStart
  BY <1>1, StartIsExplained
<1>2. CASE NextRequired
  BY <1>2, RequiredIsExplained
<1>3. CASE NextElectives
  <2>1. phase' = "electives" /\ phase = "electives" /\ order' = order
    BY <1>3 DEF NextElectives
  <2>2. "COMBINATIONS_EVALUATED" \in stats'
    BY <1>3 DEF NextElectives
  <2>3. EmptyRecommendationIsExplained'
    BY <2>1, StillRunning
  <2> QED
    BY <2>1, <2>2, <2>3 DEF LegacyExplained
<1>4. CASE NoElectivesLeft
  <2>1. phase' = "required" /\ phase = "electives" /\ groups = <<>> /\ UNCHANGED <<order, stats, truncated>>
    BY <1>4 DEF NoElectivesLeft
  <2>2. Counted'
    BY <2>1 DEF LegacyExplained, Counted
  <2>3. EmptyRecommendationIsExplained'
    BY <2>1, StillRunning
  <2> QED
    BY <2>1, <2>2, <2>3 DEF LegacyExplained
<1>5. CASE LegacyFinish /\ UNCHANGED <<wish, template, ranked>>
  BY <1>5, FinishIsExplained
<1>6. CASE ChooseRanking \/ LegacyRank \/ UNCHANGED legacyRankVars
  BY <1>6, ExplainedStays DEF ChooseRanking, LegacyRank, legacyRankVars
<1> QED
  BY <1>1, <1>2, <1>3, <1>4, <1>5, <1>6 DEF LegacyRankNext, LegacyNext

(* A generation that recommends nothing says why, except when an exclusive *)
(* limit excludes the target and the majors reach it already.              *)
THEOREM EmptyRecommendationsExplained == LegacyRankSpec => []EmptyRecommendationIsExplained
<1>1. LegacyExplained => EmptyRecommendationIsExplained
  BY DEF LegacyExplained
<1> QED
  BY <1>1, LegacySoundInit, LegacySoundNext, LegacyExplainedInit, LegacyExplainedNext, PTL
     DEF LegacyRankSpec

-----------------------------------------------------------------------------
(* Scores are numbers *)

\* The weights of every template are integers, those of unmet wishes never positive.
LEMMA WeightsAreTyped ==
  ASSUME template \in DOMAIN Profiles
  PROVE  /\ \A kind \in {"freeDay", "freeRange", "preferred", "avoided", "area", "chain"} :
              Weight(kind, 1) \in Nat /\ Weight(kind, 2) \in Int /\ Weight(kind, 2) <= 0
         /\ \A kind \in {"idle", "days", "start"} :
              /\ Weight(kind, 1) \in Nat /\ Weight(kind, 2) \in Int
              /\ Weight(kind, 3) \in Int /\ Weight(kind, 3) <= 0
         /\ 0 <= Weight("start", 2) /\ Weight("start", 2) <= Weight("start", 1)
<1>0. Point = 120 /\ Point \div 2 = 60
  BY DEF Point
<1>1. template \in {"BALANCED", "FREE_DAY_PRIORITY", "NO_MORNING_PRIORITY", "COMPACT_SCHEDULE"}
  BY DEF Profiles
<1>2. CASE template = "BALANCED"
  BY <1>0, <1>2 DEF Weight, Halved, Profiles
<1>3. CASE template = "FREE_DAY_PRIORITY"
  BY <1>0, <1>3 DEF Weight, Halved, Profiles
<1>4. CASE template = "NO_MORNING_PRIORITY"
  BY <1>0, <1>4 DEF Weight, Halved, Profiles
<1>5. CASE template = "COMPACT_SCHEDULE"
  BY <1>0, <1>5 DEF Weight, Halved, Profiles
<1> QED
  BY <1>1, <1>2, <1>3, <1>4, <1>5

\* What the ranking measures of a timetable is finite and numeric.
LEMMA MeasuresAreFinite ==
  ASSUME NEW S \in SUBSET Sections, S # {}
  PROVE  /\ IsFiniteSet(Neighbours(S)) /\ \A p \in Neighbours(S) : BreakOf(p) \in Int /\ Gap(p) \in Nat
         /\ IsFiniteSet(AttendanceDays(S)) /\ AttendanceDays(S) # {}
         /\ Cardinality(AttendanceDays(S)) \in Nat \ {0}
         /\ FirstMinute(Meets(S)) \in {m.start : m \in Meets(S)}
         /\ \A m \in Meets(S) : FirstMinute(Meets(S)) <= m.start
         /\ \A d \in AttendanceDays(S) : FirstMinute(DayMeets(S, d)) \in Nat
         /\ Max({m.end : m \in Meets(S)}) \in {m.end : m \in Meets(S)}
         /\ \A m \in Meets(S) : m.end <= Max({k.end : k \in Meets(S)})
<1> DEFINE M == Meets(S)
<1>1. IsFiniteSet(M) /\ M # {} /\ \A m \in M : m.day \in Nat /\ m.start \in Nat /\ m.end \in Nat
  BY MeetsAreNumbered
<1> HIDE DEF M
<1>2. IsFiniteSet(Neighbours(S)) /\ \A p \in Neighbours(S) : BreakOf(p) \in Int /\ Gap(p) \in Nat
  <2>1. Neighbours(S) \in SUBSET (M \X M)
    BY DEF Neighbours, M
  <2>2. IsFiniteSet(M \X M)
    BY <1>1, FS_Product
  <2>3. \A p \in Neighbours(S) : BreakOf(p) \in Int
    BY <1>1, <2>1 DEF BreakOf
  <2>4. \A p \in Neighbours(S) : Gap(p) \in Nat
    BY <2>3 DEF Gap, PositivePart
  <2> QED
    BY <2>1, <2>2, <2>3, <2>4, FS_Subset
<1>3. IsFiniteSet(AttendanceDays(S)) /\ AttendanceDays(S) # {} /\ Cardinality(AttendanceDays(S)) \in Nat \ {0}
  <2> DEFINE f == [m \in M |-> m.day]
  <2>1. f \in Surjection(M, AttendanceDays(S))
    BY DEF Surjection, AttendanceDays, M
  <2> HIDE DEF f
  <2>2. IsFiniteSet(AttendanceDays(S))
    BY <1>1, <2>1, FS_Surjection
  <2>3. AttendanceDays(S) # {}
    BY <1>1 DEF AttendanceDays, M
  <2>4. Cardinality(AttendanceDays(S)) \in Nat /\ Cardinality(AttendanceDays(S)) # 0
    BY <2>2, <2>3, FS_CardinalityType, FS_EmptySet
  <2> QED
    BY <2>2, <2>3, <2>4
<1>4. FirstMinute(M) \in {m.start : m \in M} /\ \A m \in M : FirstMinute(M) <= m.start
  <2> DEFINE T == {m.start : m \in M}
  <2>1. T \in SUBSET Nat /\ T # {} /\ \A m \in M : m.start \in T
    BY <1>1
  <2> HIDE DEF T
  <2>2. Min(T) \in T /\ \A k \in T : Min(T) <= k
    BY <2>1, MinIsLeast
  <2>3. FirstMinute(M) = Min(T)
    BY DEF FirstMinute, T
  <2>4. FirstMinute(M) \in T /\ \A m \in M : FirstMinute(M) <= m.start
    BY <2>1, <2>2, <2>3
  <2> QED
    BY <2>4 DEF T
<1>5. ASSUME NEW d \in AttendanceDays(S) PROVE FirstMinute(DayMeets(S, d)) \in Nat
  <2> DEFINE T == {m.start : m \in DayMeets(S, d)}
  <2>1. T \in SUBSET Nat /\ T # {}
    BY <1>1 DEF DayMeets, AttendanceDays, M
  <2> HIDE DEF T
  <2>2. Min(T) \in Nat
    BY <2>1, MinIsLeast
  <2> QED
    BY <2>2 DEF FirstMinute, T
<1>6. /\ Max({m.end : m \in M}) \in {m.end : m \in M}
      /\ \A m \in M : m.end <= Max({k.end : k \in M})
  <2> DEFINE T == {m.end : m \in M}
             f == [m \in M |-> m.end]
  <2>1. T \in SUBSET Nat /\ T # {} /\ \A m \in M : m.end \in T
    BY <1>1
  <2>2. f \in Surjection(M, T)
    BY DEF Surjection
  <2> HIDE DEF T, f
  <2>3. IsFiniteSet(T)
    BY <1>1, <2>2, FS_Surjection
  <2>4. PICK b \in Nat : \A k \in T : k <= b
    BY <2>1, <2>3, FiniteIsBounded
  <2>5. Max(T) \in T /\ \A k \in T : k <= Max(T)
    BY <2>1, <2>4, MaxIsGreatest
  <2>6. Max(T) \in T /\ \A m \in M : m.end <= Max(T)
    BY <2>1, <2>5
  <2> QED
    BY <2>6 DEF T
<1> QED
  BY <1>2, <1>3, <1>4, <1>5, <1>6 DEF M

\* The product of two integers is one.
LEMMA ProductsAreIntegers == \A a, b \in Int : a * b \in Int
OBVIOUS

\* What a list of wishes scores, met and unmet, is an integer.
LEMMA WishedIsInteger ==
  ASSUME template \in DOMAIN Profiles, NEW kind \in {"freeDay", "freeRange", "preferred", "avoided", "area"},
         NEW U, IsFiniteSet(U), NEW met \in SUBSET U, NEW unmet \in SUBSET U
  PROVE  MetAndUnmet(kind, met, unmet) \in Int
<1>1. Cardinality(met) \in Int /\ Cardinality(unmet) \in Int
  BY FS_Subset, FS_CardinalityType
<1>2. Weight(kind, 1) \in Int /\ Weight(kind, 2) \in Int
  BY WeightsAreTyped
<1> QED
  BY <1>1, <1>2, ProductsAreIntegers DEF MetAndUnmet

\* The scores of free days, free ranges, preferred and avoided courses and areas are
\* integers.
LEMMA WishedValuesAreIntegers ==
  ASSUME template \in DOMAIN Profiles, wish \in Wishes, NEW S
  PROVE  /\ FreeDayValue(S) \in Int /\ FreeRangeValue(S) \in Int /\ PreferredValue(S) \in Int
         /\ AvoidedValue(S) \in Int /\ AreaValue(S) \in Int
<1>0. /\ IsFiniteSet(wish.freeDays) /\ IsFiniteSet(wish.freeRanges) /\ IsFiniteSet(wish.areas)
      /\ IsFiniteSet(Normalized(wish.preferred, S)) /\ IsFiniteSet(Normalized(wish.avoided, S))
  BY WishesAreTyped, NamesAreFinite
<1>1. FreeDayValue(S) \in Int
  BY <1>0, WishedIsInteger DEF FreeDayValue
<1>2. FreeRangeValue(S) \in Int
  BY <1>0, WishedIsInteger DEF FreeRangeValue
<1>3. PreferredValue(S) \in Int
  BY <1>0, WishedIsInteger DEF PreferredValue
<1>4. AvoidedValue(S) \in Int
  BY <1>0, WishedIsInteger DEF AvoidedValue
<1>5. AreaValue(S) \in Int
  BY <1>0, WishedIsInteger DEF AreaValue
<1> QED
  BY <1>1, <1>2, <1>3, <1>4, <1>5

\* The score of a late start is an integer.
LEMMA StartsAreIntegers ==
  ASSUME template \in DOMAIN Profiles, NEW minute
  PROVE  LateStartValue(minute) \in Int
<1>1. Weight("start", 1) \in Int /\ Weight("start", 2) \in Int /\ Weight("start", 3) \in Int
  BY WeightsAreTyped
<1> QED
  BY <1>1 DEF LateStartValue

\* The raw score of a timetable with classes is an integer.
LEMMA ScoresAreIntegers ==
  ASSUME template \in DOMAIN Profiles, wish \in Wishes, NEW S \in SUBSET Sections, S # {}
  PROVE  RawScore(S) \in Int
<1>w. /\ Weight("idle", 1) \in Int /\ Weight("idle", 2) \in Int /\ Weight("idle", 3) \in Int
      /\ Weight("days", 1) \in Int /\ Weight("days", 2) \in Int /\ Weight("days", 3) \in Int
      /\ Weight("chain", 1) \in Int /\ Weight("chain", 2) \in Int
  BY WeightsAreTyped
<1>1. FirstClassValue(S) \in Int
  BY StartsAreIntegers DEF FirstClassValue
<1>2. LatestEndValue(S) \in Int
  BY <1>w DEF LatestEndValue
<1>3. AttendanceValue(S) \in Int
  BY <1>w DEF AttendanceValue
<1>4. ConsecutiveValue(S) \in Int
  <2>1. Cardinality({p \in Neighbours(S) : BreakOf(p) = 0}) \in Int
    BY MeasuresAreFinite, FS_Subset, FS_CardinalityType
  <2> QED
    BY <1>w, <2>1, ProductsAreIntegers DEF ConsecutiveValue, ConsecutiveCount
<1>5. CompactValue(S) \in Int
  <2>1. Cardinality({p \in Neighbours(S) : Gap(p) <= 30}) \in Int
    BY MeasuresAreFinite, FS_Subset, FS_CardinalityType
  <2> QED
    BY <1>w, <2>1, ProductsAreIntegers DEF CompactValue, ShortGapCount
<1>6. DailyStartValue(S) \in Int
  <2> DEFINE D == AttendanceDays(S)
             w == [d \in D |-> LateStartValue(FirstMinute(DayMeets(S, d)))]
  <2>1. IsFiniteSet(D) /\ Cardinality(D) \in Nat \ {0}
    BY MeasuresAreFinite
  <2>2. w \in [D -> Int]
    BY StartsAreIntegers
  <2>3. SumFunction(w) \in Int
    <3> HIDE DEF w, D
    <3> QED
      BY <2>1, <2>2, SumIsInteger
  <2>4. \A a \in Int, b \in Nat \ {0} : a \div b \in Int
    OBVIOUS
  <2>5. SumFunction(w) \div Cardinality(D) \in Int
    <3> HIDE DEF w, D
    <3> QED
      BY <2>1, <2>3, <2>4
  <2>6. DailyStartValue(S) = IF template = "NO_MORNING_PRIORITY" THEN SumFunction(w)
                             ELSE SumFunction(w) \div Cardinality(D)
    BY DEF DailyStartValue
  <2> HIDE DEF w, D
  <2> QED
    BY <2>3, <2>5, <2>6
<1>7. /\ FreeDayValue(S) \in Int /\ FreeRangeValue(S) \in Int /\ PreferredValue(S) \in Int
      /\ AvoidedValue(S) \in Int /\ AreaValue(S) \in Int
  BY WishedValuesAreIntegers
<1> DEFINE first == IF wish.firstClass # None THEN FirstClassValue(S) ELSE 0
           latest == IF wish.latestEnd # None THEN LatestEndValue(S) ELSE 0
<1>8. first \in Int /\ latest \in Int /\ 70 * Point \in Int
  BY <1>1, <1>2 DEF Point
<1>9. RawScore(S) = 70 * Point + FreeDayValue(S) + FreeRangeValue(S) + PreferredValue(S) + AvoidedValue(S)
        + AreaValue(S) + first + latest
        + AttendanceValue(S) + ConsecutiveValue(S) + CompactValue(S) + DailyStartValue(S)
  BY DEF RawScore
<1> HIDE DEF first, latest
<1> QED
  BY <1>3, <1>4, <1>5, <1>6, <1>7, <1>8, <1>9

\* The sort key of the ranking has seven integers.
LEMMA LegacyKeysAreTyped ==
  ASSUME order \in Orders, template \in DOMAIN Profiles, wish \in Wishes, NEW S \in SUBSET Sections, S # {}
  PROVE  LegacyKey(S) \in [1..7 -> Int]
<1>1. ElectiveGap(S, order) \in Int /\ CreditGap(S, order) \in Int /\ Cardinality(RequiredIn(S, order)) \in Int
  BY ObjectiveKeysAreTyped
<1>2. RawScore(S) \in Int
  BY ScoresAreIntegers
<1>3. IdleMinutes(S) \in Int
  <2> DEFINE N == Neighbours(S)
             w == [p \in N |-> Gap(p)]
  <2>1. IsFiniteSet(N) /\ w \in [N -> Int]
    BY MeasuresAreFinite
  <2>2. SumFunction(w) \in Int
    <3> HIDE DEF w, N
    <3> QED
      BY <2>1, SumIsInteger
  <2> QED
    BY <2>2 DEF IdleMinutes
<1>4. Cardinality(AttendanceDays(S)) \in Int
  BY MeasuresAreFinite
<1>5. MorningClasses(S) \in Int
  <2>1. IsFiniteSet(Meets(S))
    BY MeetsAreNumbered
  <2>2. Cardinality({m \in Meets(S) : m.start < MorningEnd}) \in Int
    BY <2>1, FS_Subset, FS_CardinalityType
  <2> QED
    BY <2>2 DEF MorningClasses
<1>6. \A a, b, c, d, e, f, g \in Int : <<a, b, c, d, e, f, g>> \in [1..7 -> Int]
  OBVIOUS
<1>7. -Cardinality(RequiredIn(S, order)) \in Int /\ -RawScore(S) \in Int
  BY <1>1, <1>2
<1> QED
  BY <1>1, <1>3, <1>4, <1>5, <1>6, <1>7 DEF LegacyKey

-----------------------------------------------------------------------------
(* The order of the ids *)

\* Two lists of ids compare at the first id that tells them apart.
LEMMA IdsBeforeIs ==
  ASSUME NEW A \in SUBSET Nat, NEW B \in SUBSET Nat, NEW m \in (A \ B) \cup (B \ A),
         \A k \in Nat : k < m => (k \in A <=> k \in B)
  PROVE  IdsBefore(A, B) <=> IF m \in A THEN \E b \in B : b > m ELSE \A a \in A : a < m
<1> DEFINE D == (A \ B) \cup (B \ A)
<1>1. D \in SUBSET Nat /\ D # {} /\ m \in D /\ A # B
  OBVIOUS
<1>2. \A k \in D : ~(k < m)
  OBVIOUS
<1> HIDE DEF D
<1>3. Min(D) \in D /\ Min(D) \in Nat /\ \A k \in D : Min(D) <= k
  BY <1>1, MinIsLeast
<1>4. Min(D) = m
  BY <1>1, <1>2, <1>3
<1> QED
  BY <1>1, <1>4 DEF IdsBefore, D

\* Two sets of numbers that differ have a first difference.
LEMMA FirstDifference ==
  ASSUME NEW A \in SUBSET Nat, NEW B \in SUBSET Nat, A # B
  PROVE  \E m \in (A \ B) \cup (B \ A) : \A k \in Nat : k < m => (k \in A <=> k \in B)
<1> DEFINE D == (A \ B) \cup (B \ A)
<1>1. D \in SUBSET Nat /\ D # {}
  OBVIOUS
<1>2. PICK m \in D : \A k \in D : m <= k
  BY <1>1, LeastNumber
<1> QED
  BY <1>2

IdsOrder == {p \in (SUBSET Nat) \X (SUBSET Nat) : IdsBefore(p[1], p[2])}

\* The comparison of lists of ids is transitive.
LEMMA IdsBeforeChains ==
  ASSUME NEW A \in SUBSET Nat, NEW B \in SUBSET Nat, NEW C \in SUBSET Nat,
         IdsBefore(A, B), IdsBefore(B, C)
  PROVE  IdsBefore(A, C)
<1>0. A # B /\ B # C
  BY DEF IdsBefore
<1>1. PICK m \in (A \ B) \cup (B \ A) : \A k \in Nat : k < m => (k \in A <=> k \in B)
  BY <1>0, FirstDifference
<1>2. PICK n \in (B \ C) \cup (C \ B) : \A k \in Nat : k < n => (k \in B <=> k \in C)
  BY <1>0, FirstDifference
<1>3. IF m \in A THEN \E b \in B : b > m ELSE \A a \in A : a < m
  BY <1>1, IdsBeforeIs
<1>4. IF n \in B THEN \E c \in C : c > n ELSE \A b \in B : b < n
  BY <1>2, IdsBeforeIs
<1>5. CASE m < n
  <2>1. m \in (A \ C) \cup (C \ A) /\ \A k \in Nat : k < m => (k \in A <=> k \in C)
    BY <1>1, <1>2, <1>5
  <2>2. CASE m \in A
    <3>1. PICK b \in B : b > m
      BY <1>3, <2>2
    <3>2. b \in Nat /\ n \in Nat /\ m \in Nat
      OBVIOUS
    <3>3. \E c \in C : c > m
      <4>1. CASE b < n
        BY <1>2, <3>1, <4>1
      <4>2. CASE ~(b < n) /\ n \in C
        BY <1>5, <4>2
      <4>3. CASE n \in B
        <5>1. PICK c \in C : c > n
          BY <1>4, <4>3
        <5>2. c \in Nat /\ c > m
          BY <1>5, <3>2, <5>1
        <5> QED
          BY <5>2
      <4> QED
        BY <4>1, <4>2, <4>3
    <3> QED
      BY <2>1, <2>2, <3>3, IdsBeforeIs
  <2>3. CASE m \notin A
    BY <1>3, <2>1, <2>3, IdsBeforeIs
  <2> QED
    BY <2>2, <2>3
<1>6. CASE n < m
  <2>1. n \in (A \ C) \cup (C \ A) /\ (\A k \in Nat : k < n => (k \in A <=> k \in C)) /\ (n \in A <=> n \in B)
    BY <1>1, <1>2, <1>6
  <2>2. n \in B
    <3> SUFFICES ASSUME \A b \in B : b < n PROVE FALSE
      BY <1>4
    <3>1. \E b \in B : ~(b < n)
      BY <1>1, <1>3, <1>6
    <3> QED
      BY <3>1
  <2> QED
    BY <1>4, <2>1, <2>2, IdsBeforeIs
<1>7. CASE m = n
  <2>1. m \in B
    <3> SUFFICES ASSUME m \in A, \A b \in B : b < m PROVE FALSE
      BY <1>1, <1>4, <1>7
    <3>1. PICK b \in B : b > m
      BY <1>3
    <3>2. b < m /\ b \in Nat /\ m \in Nat
      BY <3>1
    <3> QED
      BY <3>1, <3>2
  <2>2. m \notin A /\ m \notin C /\ \A a \in A : a < m
    BY <1>1, <1>2, <1>3, <1>7, <2>1
  <2> DEFINE D == {c \in C : c > m}
  <2>3. D \in SUBSET Nat /\ D # {}
    BY <1>4, <1>7, <2>1
  <2>4. PICK d \in D : \A k \in D : d <= k
    BY <2>3, LeastNumber
  <2>5. d \in Nat /\ d > m /\ d \in C /\ m \in Nat
    BY <2>4
  <2>6. \A a \in A : a < d
    <3> SUFFICES ASSUME NEW a \in A PROVE a < d
      OBVIOUS
    <3>1. a \in Nat /\ a < m
      BY <2>2
    <3> QED
      BY <2>5, <3>1
  <2>7. \A k \in Nat : k < d => (k \in A <=> k \in C)
    <3> SUFFICES ASSUME NEW k \in Nat, k < d PROVE k \in A <=> k \in C
      OBVIOUS
    <3>1. CASE k < m
      BY <1>1, <1>2, <1>7, <3>1
    <3>2. CASE k = m
      BY <2>2, <3>2
    <3>3. CASE m < k
      <4>1. k \notin A
        BY <2>2, <2>5, <3>3
      <4>2. k \notin D
        BY <2>4, <2>5
      <4> QED
        BY <3>3, <4>1, <4>2
    <3> QED
      BY <2>5, <3>1, <3>2, <3>3
  <2>8. d \notin A
    BY <2>5, <2>6
  <2> QED
    BY <2>5, <2>6, <2>7, <2>8, IdsBeforeIs
<1> QED
  BY <1>5, <1>6, <1>7

\* The comparison of lists of ids is a strict linear order.
LEMMA IdsAreOrdered == LinearlyOrders(IdsOrder, SUBSET Nat)
<1>1. \A A, B \in SUBSET Nat : <<A, B>> \in IdsOrder <=> IdsBefore(A, B)
  BY DEF IdsOrder
<1>2. \A A \in SUBSET Nat : ~IdsBefore(A, A)
  BY DEF IdsBefore
<1>3. \A A, B, C \in SUBSET Nat : IdsBefore(A, B) /\ IdsBefore(B, C) => IdsBefore(A, C)
  BY IdsBeforeChains
<1>4. ASSUME NEW A \in SUBSET Nat, NEW B \in SUBSET Nat, A # B
      PROVE  IdsBefore(A, B) \/ IdsBefore(B, A)
  <2>1. PICK m \in (A \ B) \cup (B \ A) : \A k \in Nat : k < m => (k \in A <=> k \in B)
    BY <1>4, FirstDifference
  <2>2. IdsBefore(A, B) <=> IF m \in A THEN \E b \in B : b > m ELSE \A a \in A : a < m
    BY <2>1, IdsBeforeIs
  <2>3. IdsBefore(B, A) <=> IF m \in B THEN \E a \in A : a > m ELSE \A b \in B : b < m
    <3>1. m \in (B \ A) \cup (A \ B) /\ \A k \in Nat : k < m => (k \in B <=> k \in A)
      BY <2>1
    <3> QED
      BY <3>1, IdsBeforeIs
  <2>4. CASE m \in A
    <3>1. \A b \in B : b > m \/ b < m
      BY <2>4
    <3> QED
      BY <2>1, <2>2, <2>3, <2>4, <3>1
  <2>5. CASE m \in B
    <3>1. \A a \in A : a > m \/ a < m
      BY <2>5
    <3> QED
      BY <2>1, <2>2, <2>3, <2>5, <3>1
  <2> QED
    BY <2>4, <2>5
<1> QED
  BY <1>1, <1>2, <1>3, <1>4 DEF LinearlyOrders

\* Pairs are ordered by their first members, then by their second ones.
PairsBefore(First, Second, K, L) ==
  {p \in (K \X L) \X (K \X L) :
     \/ <<p[1][1], p[2][1]>> \in First
     \/ p[1][1] = p[2][1] /\ <<p[1][2], p[2][2]>> \in Second}

\* Two strict linear orders, the second for ties of the first, order the pairs.
LEMMA PairsAreOrdered ==
  ASSUME NEW K, NEW L, NEW First, LinearlyOrders(First, K), NEW Second, LinearlyOrders(Second, L)
  PROVE  LinearlyOrders(PairsBefore(First, Second, K, L), K \X L)
<1> DEFINE P == PairsBefore(First, Second, K, L)
           R == K \X L
<1>1. ASSUME NEW a \in K, NEW b \in L, NEW c \in K, NEW d \in L
      PROVE  <<(<<a, b>>), (<<c, d>>)>> \in P <=> <<a, c>> \in First \/ (a = c /\ <<b, d>> \in Second)
  BY DEF PairsBefore
<1>2. \A x \in R : \E a \in K, b \in L : x = <<a, b>>
  OBVIOUS
<1>3. /\ \A x \in K : <<x, x>> \notin First
      /\ \A x, y, z \in K : <<x, y>> \in First /\ <<y, z>> \in First => <<x, z>> \in First
      /\ \A x, y \in K : x # y => <<x, y>> \in First \/ <<y, x>> \in First
  BY DEF LinearlyOrders
<1>4. /\ \A x \in L : <<x, x>> \notin Second
      /\ \A x, y, z \in L : <<x, y>> \in Second /\ <<y, z>> \in Second => <<x, z>> \in Second
      /\ \A x, y \in L : x # y => <<x, y>> \in Second \/ <<y, x>> \in Second
  BY DEF LinearlyOrders
<1> HIDE DEF P
<1>5. \A x \in R : <<x, x>> \notin P
  <2> SUFFICES ASSUME NEW a \in K, NEW b \in L PROVE <<(<<a, b>>), (<<a, b>>)>> \notin P
    BY <1>2
  <2>1. <<a, a>> \notin First /\ <<b, b>> \notin Second
    BY <1>3, <1>4
  <2> QED
    BY <1>1, <2>1
<1>6. \A x, y, z \in R : <<x, y>> \in P /\ <<y, z>> \in P => <<x, z>> \in P
  <2> SUFFICES ASSUME NEW a \in K, NEW b \in L, NEW c \in K, NEW d \in L, NEW e \in K, NEW f \in L,
                      <<(<<a, b>>), (<<c, d>>)>> \in P, <<(<<c, d>>), (<<e, f>>)>> \in P
               PROVE  <<(<<a, b>>), (<<e, f>>)>> \in P
    BY <1>2
  <2>1. <<a, c>> \in First \/ (a = c /\ <<b, d>> \in Second)
    BY <1>1
  <2>2. <<c, e>> \in First \/ (c = e /\ <<d, f>> \in Second)
    BY <1>1
  <2>3. <<a, e>> \in First \/ (a = e /\ <<b, f>> \in Second)
    BY <1>3, <1>4, <2>1, <2>2
  <2> QED
    BY <1>1, <2>3
<1>7. \A x, y \in R : x # y => <<x, y>> \in P \/ <<y, x>> \in P
  <2> SUFFICES ASSUME NEW a \in K, NEW b \in L, NEW c \in K, NEW d \in L, <<a, b>> # <<c, d>>
               PROVE  <<(<<a, b>>), (<<c, d>>)>> \in P \/ <<(<<c, d>>), (<<a, b>>)>> \in P
    BY <1>2
  <2>1. a # c \/ b # d
    OBVIOUS
  <2>2. CASE a # c
    BY <1>1, <1>3, <2>2
  <2>3. CASE a = c
    BY <1>1, <1>4, <2>1, <2>3
  <2> QED
    BY <2>2, <2>3
<1> QED
  BY <1>5, <1>6, <1>7 DEF LinearlyOrders, P

\* The order of the recommendations: the keys, then the ids.
RankKeys == [1..7 -> Int] \X SUBSET Nat
RankOrder == PairsBefore(KeysBefore(7), IdsOrder, [1..7 -> Int], SUBSET Nat)

\* The key of the ranking with the ids for ties is a strict linear order.
LEMMA RanksAreOrdered ==
  /\ LinearlyOrders(RankOrder, RankKeys)
  /\ \A x, y \in RankKeys :
       <<x, y>> \in RankOrder <=> KeyLess(x[1], y[1]) \/ (x[1] = y[1] /\ IdsBefore(x[2], y[2]))
<1>1. LinearlyOrders(KeysBefore(7), [1..7 -> Int])
  BY KeysAreOrdered
<1>2. LinearlyOrders(RankOrder, RankKeys)
  BY <1>1, IdsAreOrdered, PairsAreOrdered DEF RankOrder, RankKeys
<1> DEFINE K == [1..7 -> Int]
<1>3. \A a, c \in K : <<a, c>> \in KeysBefore(7) <=> KeyLess(a, c)
  BY DEF KeysBefore
<1>4. \A b, d \in SUBSET Nat : <<b, d>> \in IdsOrder <=> IdsBefore(b, d)
  BY DEF IdsOrder
<1>5. ASSUME NEW x \in RankKeys, NEW y \in RankKeys
      PROVE  <<x, y>> \in RankOrder <=> KeyLess(x[1], y[1]) \/ (x[1] = y[1] /\ IdsBefore(x[2], y[2]))
  <2>1. x[1] \in K /\ y[1] \in K /\ x[2] \in SUBSET Nat /\ y[2] \in SUBSET Nat
    BY DEF RankKeys
  <2>2. <<x, y>> \in RankOrder <=> <<x[1], y[1]>> \in KeysBefore(7) \/ (x[1] = y[1] /\ <<x[2], y[2]>> \in IdsOrder)
    BY DEF RankOrder, PairsBefore, RankKeys
  <2> HIDE DEF K
  <2> QED
    BY <1>3, <1>4, <2>1, <2>2
<1> QED
  BY <1>2, <1>5

-----------------------------------------------------------------------------
(* The order of the recommendations *)

KeptFor(list) == {i \in DOMAIN list : ~ViolatesHardConditions(list[i], order.hard)}

\* The ranking lists the candidates it keeps by its key, then by their ids.
LEMMA BestForWishesComeFirst ==
  ASSUME order \in Orders, template \in DOMAIN Profiles, wish \in Wishes,
         NEW list \in Seq((SUBSET Sections) \ {{}})
  PROVE  LET key == [i \in KeptFor(list) |-> <<LegacyKey(list[i]), list[i]>>] IN
         KeepsSorted(SortedForWishes(list), list, KeptFor(list), key, RankOrder)
<1> DEFINE I == KeptFor(list)
           key == [i \in I |-> <<LegacyKey(list[i]), list[i]>>]
           K == RankKeys
           Less == RankOrder
           less(k, l) == KeyLess(k[1], l[1]) \/ (k[1] = l[1] /\ IdsBefore(k[2], l[2]))
           keyed == {<<(<<LegacyKey(list[i]), list[i]>>), i>> : i \in I}
           before(a, b) == less(a[1], b[1]) \/ (~less(b[1], a[1]) /\ a[2] < b[2])
           at == [k \in 1..Cardinality(keyed) |->
                    CHOOSE x \in keyed : Cardinality({y \in keyed : before(y, x)}) = k - 1]
<1>1. I \in SUBSET Nat /\ IsFiniteSet(I) /\ I \in SUBSET (1..Len(list))
  <2>1. IsFiniteSet(1..Len(list)) /\ Len(list) \in Nat
    BY FS_Interval
  <2>2. I \in SUBSET (1..Len(list))
    <3>1. DOMAIN list = 1..Len(list)
      OBVIOUS
    <3> QED
      BY <3>1 DEF KeptFor
  <2> QED
    BY <2>1, <2>2, FS_Subset
<1>2. key \in [I -> K]
  <2>1. ASSUME NEW i \in I PROVE <<LegacyKey(list[i]), list[i]>> \in K
    <3>0. i \in 1..Len(list)
      BY <1>1
    <3>1. list[i] \in SUBSET Sections /\ list[i] # {} /\ list[i] \in SUBSET Nat
      <4> HIDE DEF I
      <4>1. list[i] \in (SUBSET Sections) \ {{}}
        BY <3>0
      <4> QED
        BY <4>1, CatalogIsTyped
    <3>2. LegacyKey(list[i]) \in [1..7 -> Int]
      BY <3>1, LegacyKeysAreTyped
    <3> QED
      BY <3>1, <3>2 DEF RankKeys
  <2> QED
    BY <2>1
<1>3. LinearlyOrders(Less, K) /\ \A x, y \in K : <<x, y>> \in Less <=> less(x, y)
  BY RanksAreOrdered
<1>4. keyed = Keyed(key, I)
  BY DEF Keyed
<1>5. \A x \in keyed : x[1] \in K
  BY <1>2, <1>4 DEF Keyed
<1> HIDE DEF key, K, Less, keyed, I
<1>6. ASSUME NEW x \in keyed, NEW y \in keyed
      PROVE  <<x, y>> \in KeyedBefore(key, I, Less) <=> before(x, y)
  <2>1. <<x[1], y[1]>> \in Less <=> less(x[1], y[1])
    BY <1>3, <1>5, Zenon
  <2>2. <<y[1], x[1]>> \in Less <=> less(y[1], x[1])
    BY <1>3, <1>5, Zenon
  <2>3. <<x, y>> \in KeyedBefore(key, I, Less)
          <=> <<x[1], y[1]>> \in Less \/ (<<y[1], x[1]>> \notin Less /\ x[2] < y[2])
    BY <1>4 DEF KeyedBefore
  <2> QED
    BY <2>1, <2>2, <2>3
<1>7. /\ Cardinality(keyed) = Cardinality(I) /\ IsFiniteSet(keyed)
      /\ LinearlyOrders(KeyedBefore(key, I, Less), keyed)
  BY <1>1, <1>2, <1>3, <1>4, KeyedAreOrdered
<1>8. ASSUME NEW k \in 1..Cardinality(keyed)
      PROVE  \E x \in keyed : Cardinality({y \in keyed : before(y, x)}) = k - 1
  <2>1. TakesPositions(keyed, KeyedBefore(key, I, Less))
    <3>1. LinearlyOrders(Less, K)
      BY <1>3
    <3>2. I \in SUBSET Nat /\ IsFiniteSet(I)
      BY <1>1
    <3>3. TakesPositions(Keyed(key, I), KeyedBefore(key, I, Less))
      BY <1>2, <3>1, <3>2, KeyedPositionsAreTaken
    <3> QED
      BY <1>4, <3>3
  <2>2. PICK x \in keyed : Cardinality({y \in keyed : <<y, x>> \in KeyedBefore(key, I, Less)}) = k - 1
    BY <2>1 DEF TakesPositions, PlaceOf
  <2> HIDE DEF before
  <2>3. {y \in keyed : <<y, x>> \in KeyedBefore(key, I, Less)} = {y \in keyed : before(y, x)}
    BY <1>6
  <2> QED
    BY <2>2, <2>3
<1>9. ASSUME NEW k \in 1..Cardinality(keyed)
      PROVE  at[k] \in keyed /\ Cardinality({y \in keyed : before(y, at[k])}) = k - 1
  <2> HIDE DEF before
  <2> QED
    BY <1>8
<1> HIDE DEF at
<1>10. ASSUME NEW k \in 1..Cardinality(I)
       PROVE  /\ at[k] \in Keyed(key, I)
              /\ Cardinality({y \in Keyed(key, I) : <<y, at[k]>> \in KeyedBefore(key, I, Less)}) = k - 1
  <2>1. k \in 1..Cardinality(keyed)
    BY <1>7
  <2>2. at[k] \in keyed /\ Cardinality({y \in keyed : before(y, at[k])}) = k - 1
    BY <1>9, <2>1
  <2> HIDE DEF before
  <2>3. {y \in keyed : <<y, at[k]>> \in KeyedBefore(key, I, Less)} = {y \in keyed : before(y, at[k])}
    BY <1>6, <2>2
  <2> QED
    BY <1>4, <2>2, <2>3
<1>11. KeepsSorted([k \in 1..Cardinality(I) |-> list[at[k][2]]], list, I, key, Less)
  BY <1>1, <1>2, <1>3, <1>10, SortedItems
<1>12. SortedForWishes(list) = [k \in 1..Cardinality(I) |-> list[at[k][2]]]
  BY DEF SortedForWishes, SortedPart, Ordered, at, keyed, I, KeptFor
<1> QED
  BY <1>11, <1>12 DEF I, key, Less

-----------------------------------------------------------------------------
(* What the ranking holds *)

WishIsTyped == wish \in Wishes /\ template \in Templates

\* The inductive invariant.
LegacyRanks ==
  /\ wish # None => WishIsTyped
  /\ ranked # None => ToSet(ranked) \subseteq ToSet(found) /\ TargetsComeFirst

\* Nothing is ranked before the first request.
LEMMA LegacyRanksInit == LegacyRankInit => LegacyRanks
BY DEF LegacyRankInit, LegacyRanks

\* A recommended timetable has the confirmed majors.
LEMMA FoundAreTimetables ==
  ASSUME LegacySound
  PROVE  found \in Seq((SUBSET Sections) \ {{}}) /\ KeptFor(found) = 1..Len(found)
<1>1. found \in Seq(SUBSET Sections) /\ order \in Orders
  BY DEF LegacySound, Accepted
<1>2. \A i \in 1..Len(found) : Recommendable(order, found[i]) /\ ~ViolatesHardConditions(found[i], order.hard)
  BY DEF LegacySound, Accepted
<1>3. \A i \in 1..Len(found) : found[i] \in (SUBSET Sections) \ {{}}
  <2> SUFFICES ASSUME NEW i \in 1..Len(found) PROVE found[i] # {}
    BY <1>1
  <2>1. order.fixed # {} /\ order.fixed \subseteq found[i]
    BY <1>1, <1>2, OrdersAreTyped DEF Recommendable
  <2> QED
    BY <2>1
<1>4. DOMAIN found = 1..Len(found)
  BY <1>1
<1>5. KeptFor(found) = 1..Len(found)
  BY <1>2, <1>4 DEF KeptFor
<1> QED
  BY <1>1, <1>3, <1>5

\* What is ranked later has no more required courses and, with as many, is no nearer to
\* the wanted electives.
LEMMA FirstKeyDecides ==
  ASSUME order \in Orders, template \in DOMAIN Profiles, wish \in Wishes,
         NEW S \in (SUBSET Sections) \ {{}}, NEW T \in (SUBSET Sections) \ {{}},
         <<(<<LegacyKey(S), S>>), (<<LegacyKey(T), T>>)>> \notin RankOrder
  PROVE  /\ Cardinality(RequiredIn(S, order)) <= Cardinality(RequiredIn(T, order))
         /\ Cardinality(RequiredIn(S, order)) = Cardinality(RequiredIn(T, order))
              => ElectiveGap(S, order) >= ElectiveGap(T, order)
<1> DEFINE a == Cardinality(RequiredIn(S, order))
           b == Cardinality(RequiredIn(T, order))
           c == ElectiveGap(S, order)
           d == ElectiveGap(T, order)
           k == LegacyKey(S)
           l == LegacyKey(T)
<1>1. a \in Nat /\ b \in Nat /\ c \in Nat /\ d \in Nat
  BY ObjectiveKeysAreTyped
<1>2. k \in [1..7 -> Int] /\ l \in [1..7 -> Int]
  BY LegacyKeysAreTyped
<1>3. k[1] = -a /\ k[2] = c /\ l[1] = -b /\ l[2] = d
  BY DEF LegacyKey
<1> HIDE DEF a, b, c, d, k, l
<1>4. ~KeyLess(k, l)
  <2>1. <<k, S>> \in RankKeys /\ <<l, T>> \in RankKeys
    BY <1>2, CatalogIsTyped DEF RankKeys
  <2>2. <<(<<k, S>>), (<<l, T>>)>> \notin RankOrder
    BY DEF k, l
  <2>3. KeyLess(k, l) => <<(<<k, S>>), (<<l, T>>)>> \in RankOrder
    BY <2>1, RanksAreOrdered
  <2> QED
    BY <2>2, <2>3
<1>5. \A i \in 1..7 : ~(k[i] < l[i] /\ \A j \in 1..(i - 1) : k[j] = l[j])
  <2>1. DOMAIN k = 1..7
    BY <1>2
  <2> QED
    BY <1>4, <2>1 DEF KeyLess
<1>6. ~(k[1] < l[1])
  BY <1>5
<1>7. ~(k[2] < l[2] /\ k[1] = l[1])
  <2>1. ~(k[2] < l[2] /\ \A j \in 1..(2 - 1) : k[j] = l[j])
    BY <1>5
  <2>2. \A j \in 1..(2 - 1) : j = 1
    OBVIOUS
  <2> QED
    BY <2>1, <2>2
<1>8. a <= b /\ (a = b => c >= d)
  BY <1>1, <1>3, <1>6, <1>7
<1> QED
  BY <1>8 DEF a, b, c, d

\* A ranking of the candidates puts one that meets the targets best first.
LEMMA RankingKeepsTargets ==
  ASSUME LegacySound, LegacyRanks, LegacyRank
  PROVE  ToSet(ranked') \subseteq ToSet(found) /\ TargetsComeFirst'
<1>1. wish \in Wishes /\ template \in DOMAIN Profiles /\ order \in Orders
  BY WishesAreTyped DEF LegacyRank, LegacyRanks, WishIsTyped, LegacySound
<1>2. found \in Seq((SUBSET Sections) \ {{}}) /\ KeptFor(found) = 1..Len(found)
  BY FoundAreTimetables
<1> DEFINE I == KeptFor(found)
           key == [i \in I |-> <<LegacyKey(found[i]), found[i]>>]
           sorted == SortedForWishes(found)
           TT == (SUBSET Sections) \ {{}}
<1>3. KeepsSorted(sorted, found, I, key, RankOrder)
  BY <1>1, <1>2, BestForWishesComeFirst
<1>4. PICK n \in {1, Len(found)} : ranked' = SubSeq(sorted, 1, Min({n, Len(sorted)}))
  BY DEF LegacyRank
<1>5. I \in SUBSET (1..Len(found)) /\ Len(found) \in Nat /\ Cardinality(I) = Len(found)
  <2>1. Len(found) \in Nat /\ I = 1..Len(found)
    BY <1>2
  <2>2. Cardinality(1..Len(found)) = Len(found)
    <3>1. \A c \in Nat : Cardinality(1..c) = c
      BY FS_Interval
    <3> QED
      BY <2>1, <3>1
  <2> HIDE DEF I
  <2> QED
    BY <2>1, <2>2
<1>7. \A i \in I : key[i] = <<LegacyKey(found[i]), found[i]>> /\ i \in 1..Len(found)
  BY <1>5
<1> HIDE DEF sorted, key, I
<1>8. sorted \in Seq(TT) /\ Len(sorted) = Len(found) /\ ToSet(sorted) = {found[i] : i \in I}
  <2> HIDE DEF TT
  <2>1. found \in Seq(TT)
    BY <1>2 DEF TT
  <2> QED
    BY <1>3, <1>5, <2>1, SortedListIs
<1> DEFINE m == Min({n, Len(sorted)})
<1>9. m \in Nat /\ m <= Len(sorted)
  <2>1. n \in Nat /\ Len(sorted) \in Nat
    BY <1>5, <1>8
  <2> QED
    <3>1. \A a, b \in Nat : Min({a, b}) \in Nat /\ Min({a, b}) <= b
      BY MinOfTwo
    <3> QED
      BY <2>1, <3>1
<1>s. ranked' = SubSeq(sorted, 1, m)
  BY <1>4
<1> HIDE DEF m
<1>10. Len(ranked') = m /\ \A k \in 1..m : ranked'[k] = sorted[k] /\ k \in 1..Len(sorted)
  BY <1>s, <1>8, <1>9
<1>11. ranked' \in Seq(TT)
  BY <1>s, <1>8, <1>9
<1>12. ToSet(found) = {found[i] : i \in I}
  <2>1. DOMAIN found = I
    BY <1>2 DEF I
  <2> QED
    BY <2>1 DEF ToSet
<1>13. ToSet(ranked') \subseteq ToSet(found)
  <2>1. DOMAIN ranked' = 1..m /\ DOMAIN sorted = 1..Len(sorted)
    BY <1>8, <1>10, <1>11
  <2>2. ToSet(ranked') \subseteq ToSet(sorted)
    BY <1>10, <2>1 DEF ToSet
  <2> QED
    BY <1>8, <1>12, <2>2
<1>14. ASSUME ranked' # <<>>, NEW S \in ToSet(found)
       PROVE  /\ Cardinality(RequiredIn(S, order)) <= Cardinality(RequiredIn(ranked'[1], order))
              /\ Cardinality(RequiredIn(S, order)) = Cardinality(RequiredIn(ranked'[1], order))
                   => ElectiveGap(S, order) >= ElectiveGap(ranked'[1], order)
  <2>1. 1 \in 1..m
    BY <1>9, <1>10, <1>11, <1>14
  <2> DEFINE c == Len(found)
  <2>2. PICK p \in [1..c -> I] :
          /\ \A k \in 1..c : sorted[k] = found[p[k]]
          /\ \A i \in I : \E k \in 1..c : p[k] = i
          /\ \A k, l \in 1..c : k < l => <<key[p[l]], key[p[k]]>> \notin RankOrder
    BY <1>3, <1>5 DEF KeepsSorted
  <2>3. 1 \in 1..c /\ c \in Nat
    BY <1>5, <1>8, <1>10, <2>1
  <2> HIDE DEF c
  <2>4. ranked'[1] = found[p[1]] /\ p[1] \in I
    BY <1>10, <2>1, <2>2, <2>3
  <2>5. PICK i \in I : S = found[i]
    BY <1>12
  <2>6. PICK k \in 1..c : p[k] = i
    BY <2>2
  <2>7. CASE k = 1
    <3>1. S = ranked'[1]
      BY <2>4, <2>5, <2>6, <2>7
    <3>2. Cardinality(RequiredIn(S, order)) \in Nat /\ ElectiveGap(S, order) \in Nat
      <4>1. S \in SUBSET Sections
        BY <1>2, <1>7, <2>5
      <4> QED
        BY <1>1, <4>1, ObjectiveKeysAreTyped
    <3> QED
      BY <3>1, <3>2
  <2>8. CASE k # 1
    <3>1. 1 < k
      BY <2>3, <2>8
    <3>2. <<key[i], key[p[1]]>> \notin RankOrder
      BY <2>2, <2>3, <2>6, <3>1
    <3>3. key[i] = <<LegacyKey(S), S>> /\ key[p[1]] = <<LegacyKey(ranked'[1]), ranked'[1]>>
      BY <1>7, <2>4, <2>5
    <3>4. S \in (SUBSET Sections) \ {{}} /\ ranked'[1] \in (SUBSET Sections) \ {{}}
      BY <1>2, <1>7, <2>4, <2>5
    <3> QED
      BY <1>1, <3>2, <3>3, <3>4, FirstKeyDecides
  <2> QED
    BY <2>7, <2>8
<1>15. order' = order /\ found' = found
  BY DEF LegacyRank, legacyVars
<1> QED
  BY <1>13, <1>14, <1>15 DEF TargetsComeFirst

\* A step that leaves the ranking alone keeps what is said of it.
LEMMA RanksStay ==
  ASSUME LegacySound, LegacyRanks, [LegacyRankNext]_legacyRankVars, UNCHANGED ranked,
         wish' # None => WishIsTyped'
  PROVE  LegacyRanks'
<1>1. CASE ranked = None
  BY <1>1 DEF LegacyRanks
<1>2. CASE ranked # None
  <2>1. phase = "done"
    BY <1>2 DEF LegacySound
  <2>2. UNCHANGED legacyVars
    BY <2>1 DEF LegacyRankNext, LegacyNext, LegacyStart, NextRequired, NextElectives, NoElectivesLeft,
                LegacyFinish, ChooseRanking, LegacyRank, legacyRankVars
  <2>3. UNCHANGED <<order, found, ranked>>
    BY <2>2 DEF legacyVars
  <2>4. ToSet(ranked) \subseteq ToSet(found) /\ TargetsComeFirst
    BY <1>2 DEF LegacyRanks
  <2>5. ToSet(ranked') \subseteq ToSet(found') /\ TargetsComeFirst'
    BY <2>3, <2>4 DEF TargetsComeFirst
  <2> QED
    BY <2>5 DEF LegacyRanks
<1> QED
  BY <1>1, <1>2

\* No step loses what is said of the ranking.
LEMMA LegacyRanksNext ==
  LegacySound /\ LegacyRanks /\ [LegacyRankNext]_legacyRankVars => LegacyRanks'
<1> SUFFICES ASSUME LegacySound, LegacyRanks, [LegacyRankNext]_legacyRankVars PROVE LegacyRanks'
  OBVIOUS
<1>1. CASE UNCHANGED <<wish, template, ranked>>
  <2>1. wish' # None => WishIsTyped'
    BY <1>1 DEF LegacyRanks, WishIsTyped
  <2> QED
    BY <1>1, <2>1, RanksStay
<1>2. CASE ChooseRanking
  <2>1. WishIsTyped' /\ UNCHANGED ranked
    BY <1>2 DEF ChooseRanking, WishIsTyped
  <2> QED
    BY <2>1, RanksStay
<1>3. CASE LegacyRank
  <2>1. ToSet(ranked') \subseteq ToSet(found) /\ TargetsComeFirst'
    BY <1>3, RankingKeepsTargets
  <2>2. found' = found /\ UNCHANGED <<wish, template>>
    BY <1>3 DEF LegacyRank, legacyVars
  <2> QED
    BY <2>1, <2>2 DEF LegacyRanks, WishIsTyped
<1> QED
  BY <1>1, <1>2, <1>3 DEF LegacyRankNext, legacyRankVars

(* The variables of the generator and its ranking have their types, a      *)
(* truncated generation has as many candidates as were asked for, and only *)
(* candidates are ranked.                                                  *)
THEOREM LegacyTypesHold == LegacyRankSpec => []LegacyTypeOK
<1>1. LegacySound /\ LegacyRanks => LegacyTypeOK
  <2> SUFFICES ASSUME LegacySound, LegacyRanks PROVE LegacyTypeOK
    OBVIOUS
  <2>1. order.required \subseteq Sections /\ ElectivesOf(order) \subseteq Sections /\ order.limit \in Nat
    BY OrdersAreTyped DEF LegacySound, ElectivesOf
  <2>2. choices \in Seq(SUBSET Sections) /\ groups \in Seq(SUBSET Sections) /\ chosen \subseteq Sections
    BY <2>1 DEF LegacySound
  <2>3. found \in Seq(SUBSET Sections) /\ Len(found) \in Nat
    BY DEF LegacySound, Accepted
  <2>4. truncated => Len(found) = order.limit
    BY <2>1, <2>3 DEF LegacySound, LimitReached
  <2>5. order \in Orders /\ phase \in {"start", "required", "electives", "done"} /\ truncated \in BOOLEAN
    BY DEF LegacySound
  <2> QED
    BY <2>2, <2>3, <2>4, <2>5 DEF LegacyRanks, LegacyTypeOK
<1> QED
  BY <1>1, LegacySoundInit, LegacySoundNext, LegacyRanksInit, LegacyRanksNext, PTL DEF LegacyRankSpec

(* The first recommendation has as many required courses as any candidate, *)
(* and comes as close to the wanted electives as any with as many.         *)
THEOREM TargetsRankFirst == LegacyRankSpec => []TargetsComeFirst
<1>1. LegacyRanks => TargetsComeFirst
  BY DEF LegacyRanks, TargetsComeFirst
<1> QED
  BY <1>1, LegacySoundInit, LegacySoundNext, LegacyRanksInit, LegacyRanksNext, PTL DEF LegacyRankSpec

-----------------------------------------------------------------------------
(* A wish that is met costs nothing *)

\* Points for what is met, less points for what is not, are at most points for all.
LEMMA ProductsClimb ==
  ASSUME NEW a \in Nat, NEW b \in Int, b <= 0, NEW x \in Nat, NEW y \in Nat, NEW n \in Nat, x <= n
  PROVE  a * x + b * y <= a * n
<1>1. PICK d \in Nat : n = x + d
  <2>1. n - x \in Nat /\ n = x + (n - x)
    OBVIOUS
  <2> QED
    BY <2>1
<1>2. PICK c \in Nat : b = 0 - c
  <2>1. 0 - b \in Nat /\ b = 0 - (0 - b)
    OBVIOUS
  <2> QED
    BY <2>1
<1>3. a * d \in Nat /\ c * y \in Nat /\ a * x \in Int
  OBVIOUS
<1>4. a * n = a * x + a * d
  BY <1>1
<1>5. b * y = 0 - c * y
  BY <1>2
<1> QED
  BY <1>3, <1>4, <1>5

Wished == {"freeDay", "freeRange", "preferred", "avoided", "area"}

\* A list of wishes scores the most when every wish of it is met.
LEMMA AllMetIsMost ==
  ASSUME template \in DOMAIN Profiles, NEW kind \in Wished,
         NEW all, IsFiniteSet(all), NEW U, IsFiniteSet(U), NEW met \in SUBSET U, NEW unmet \in SUBSET U,
         Cardinality(met) <= Cardinality(all)
  PROVE  MetAndUnmet(kind, all, {}) >= MetAndUnmet(kind, met, unmet)
<1>1. Cardinality(met) \in Nat /\ Cardinality(unmet) \in Nat /\ Cardinality(all) \in Nat
  BY FS_Subset, FS_CardinalityType
<1>2. Weight(kind, 1) \in Nat /\ Weight(kind, 2) \in Int /\ Weight(kind, 2) <= 0
  BY WeightsAreTyped DEF Wished
<1>3. Weight(kind, 1) * Cardinality(met) + Weight(kind, 2) * Cardinality(unmet)
        <= Weight(kind, 1) * Cardinality(all)
  BY <1>1, <1>2, ProductsClimb
<1>4. MetAndUnmet(kind, all, {}) = Weight(kind, 1) * Cardinality(all)
  <2>1. Cardinality({}) = 0
    BY FS_EmptySet
  <2>2. \A a, b, c \in Int : a * c + b * 0 = a * c
    OBVIOUS
  <2> QED
    BY <1>1, <1>2, <2>1, <2>2 DEF MetAndUnmet
<1>5. MetAndUnmet(kind, met, unmet) \in Int /\ MetAndUnmet(kind, all, {}) \in Int
  BY <1>1, <1>2, <1>4, ProductsAreIntegers DEF MetAndUnmet
<1> QED
  BY <1>3, <1>4, <1>5 DEF MetAndUnmet

\* A timetable that keeps the wished days free scores no less for them than any other.
LEMMA FreeDaysCostNothing ==
  ASSUME template \in DOMAIN Profiles, wish \in Wishes, NEW S, NEW T,
         wish.freeDays \cap AttendanceDays(S) = {}
  PROVE  FreeDayValue(S) >= FreeDayValue(T)
<1> DEFINE all == wish.freeDays
           met == wish.freeDays \ AttendanceDays(T)
           unmet == wish.freeDays \cap AttendanceDays(T)
<1>1. IsFiniteSet(all)
  BY WishesAreTyped
<1>2. met \in SUBSET all /\ unmet \in SUBSET all
  OBVIOUS
<1>3. wish.freeDays \ AttendanceDays(S) = all
  OBVIOUS
<1>4. FreeDayValue(S) = MetAndUnmet("freeDay", all, {}) /\ FreeDayValue(T) = MetAndUnmet("freeDay", met, unmet)
  BY <1>3 DEF FreeDayValue
<1> HIDE DEF all, met, unmet
<1>5. Cardinality(met) <= Cardinality(all)
  BY <1>1, <1>2, FS_Subset
<1>6. "freeDay" \in Wished
  BY DEF Wished
<1> QED
  BY <1>1, <1>2, <1>4, <1>5, <1>6, AllMetIsMost

\* A name that is found somewhere stands for a course there.
LEMMA FoundNames ==
  ASSUME NEW S \in SUBSET Sections, NEW ids, ids \subseteq S \cup CoursesOf(S)
  PROVE  /\ Normalized(ids, S) \subseteq CoursesOf(S)
         /\ \A T \in SUBSET Sections : Normalized(ids, T) \cap CoursesOf(T) \subseteq Normalized(ids, S)
<1>1. \A id \in ids : \E s \in S : id \in {s, CourseOf(s)}
  BY DEF CoursesOf
<1>2. Normalized(ids, S) \subseteq CoursesOf(S)
  <2> SUFFICES ASSUME NEW c \in Normalized(ids, S) PROVE c \in CoursesOf(S)
    OBVIOUS
  <2>1. \E s \in S : c = CourseOf(s)
    BY <1>1, NameStandsFor
  <2> QED
    BY <2>1 DEF CoursesOf
<1>3. ASSUME NEW T \in SUBSET Sections, NEW c \in Normalized(ids, T), c \in CoursesOf(T)
      PROVE  c \in Normalized(ids, S)
  <2>1. PICK id \in ids : \E t \in T : id \in {t, CourseOf(t)} /\ c = CourseOf(t)
    <3>1. \E t \in T : c = CourseOf(t)
      BY <1>3 DEF CoursesOf
    <3> QED
      BY <3>1, NameStandsFor
  <2>2. PICK t \in T : id \in {t, CourseOf(t)} /\ c = CourseOf(t)
    BY <2>1
  <2>3. PICK s \in S : id \in {s, CourseOf(s)}
    BY <1>1
  <2>4. CourseOf(s) \in Normalized(ids, S)
    BY <2>3, NameFound
  <2>5. CourseOf(s) = CourseOf(t)
    BY <2>2, <2>3, OneCourseByName
  <2> QED
    BY <2>2, <2>4, <2>5
<1> QED
  BY <1>2, <1>3

\* A timetable with every preferred course scores no less for them than any other.
LEMMA PreferredCostsNothing ==
  ASSUME template \in DOMAIN Profiles, wish \in Wishes, NEW S \in SUBSET Sections, NEW T \in SUBSET Sections,
         wish.preferred \subseteq S \cup CoursesOf(S)
  PROVE  PreferredValue(S) >= PreferredValue(T)
<1> DEFINE all == Normalized(wish.preferred, S)
           U == Normalized(wish.preferred, T)
           met == U \cap CoursesOf(T)
           unmet == U \ CoursesOf(T)
<1>1. IsFiniteSet(all) /\ IsFiniteSet(U)
  BY WishesAreTyped, NamesAreFinite
<1>2. met \in SUBSET U /\ unmet \in SUBSET U
  OBVIOUS
<1>3. met \in SUBSET all /\ all \subseteq CoursesOf(S)
  BY FoundNames
<1>4. all \cap CoursesOf(S) = all /\ all \ CoursesOf(S) = {}
  BY <1>3
<1>5. PreferredValue(S) = MetAndUnmet("preferred", all, {}) /\ PreferredValue(T) = MetAndUnmet("preferred", met, unmet)
  BY <1>4 DEF PreferredValue
<1> HIDE DEF all, met, unmet, U
<1>6. Cardinality(met) <= Cardinality(all)
  BY <1>1, <1>3, FS_Subset
<1>7. "preferred" \in Wished
  BY DEF Wished
<1> QED
  BY <1>1, <1>2, <1>5, <1>6, <1>7, AllMetIsMost

\* A timetable without an avoided course scores no less for them than any other.
LEMMA AvoidedCostsNothing ==
  ASSUME template \in DOMAIN Profiles, wish \in Wishes, NEW S \in SUBSET Sections, NEW T \in SUBSET Sections,
         wish.avoided \cap (S \cup CoursesOf(S)) = {}
  PROVE  AvoidedValue(S) >= AvoidedValue(T)
<1> DEFINE all == wish.avoided
           U == Normalized(wish.avoided, T)
           met == U \ CoursesOf(T)
           unmet == U \cap CoursesOf(T)
<1>1. IsFiniteSet(all) /\ IsFiniteSet(U) /\ Cardinality(U) \in Nat /\ Cardinality(U) <= Cardinality(all)
  BY WishesAreTyped, NamesAreFinite
<1>2. met \in SUBSET U /\ unmet \in SUBSET U
  OBVIOUS
<1>3. Normalized(wish.avoided, S) = all
  <2>1. \A id \in all : ~\E s \in S : id \in {s, CourseOf(s)}
    BY DEF CoursesOf
  <2> QED
    BY <2>1 DEF Normalized
<1>4. all \ CoursesOf(S) = all /\ all \cap CoursesOf(S) = {}
  OBVIOUS
<1>5. AvoidedValue(S) = MetAndUnmet("avoided", all, {}) /\ AvoidedValue(T) = MetAndUnmet("avoided", met, unmet)
  BY <1>3, <1>4 DEF AvoidedValue
<1> HIDE DEF all, met, unmet, U
<1>6. Cardinality(met) <= Cardinality(all)
  <2>1. Cardinality(met) <= Cardinality(U) /\ IsFiniteSet(met)
    BY <1>1, <1>2, FS_Subset
  <2>2. Cardinality(met) \in Nat /\ Cardinality(all) \in Nat
    BY <1>1, <2>1, FS_CardinalityType
  <2> QED
    BY <1>1, <2>1, <2>2
<1>7. "avoided" \in Wished
  BY DEF Wished
<1> QED
  BY <1>1, <1>2, <1>5, <1>6, <1>7, AllMetIsMost

\* A first class at the wished minute or later scores no less than an earlier one.
LEMMA FirstClassCostsNothing ==
  ASSUME template \in DOMAIN Profiles, wish \in Wishes, wish.firstClass # None, wish.firstClass >= 540,
         NEW S \in SUBSET Sections, NEW T \in SUBSET Sections, S # {}, T # {},
         ~(FirstMinute(Meets(S)) < wish.firstClass), FirstMinute(Meets(T)) < wish.firstClass
  PROVE  FirstClassValue(S) >= FirstClassValue(T)
<1> DEFINE a == FirstMinute(Meets(S))
           b == FirstMinute(Meets(T))
           f == wish.firstClass
           w1 == Weight("start", 1)
           w2 == Weight("start", 2)
           w3 == Weight("start", 3)
<1>1. a \in Nat /\ b \in Nat
  BY MeasuresAreFinite, MeetsAreNumbered
<1>2. f \in Nat
  BY WishesAreTyped
<1>3. w1 \in Int /\ w2 \in Int /\ w3 \in Int /\ w3 <= 0 /\ 0 <= w2 /\ w2 <= w1
  BY WeightsAreTyped
<1>4. \A x : LateStartValue(x) = IF x >= 660 THEN w1 ELSE IF x >= 600 THEN w2 ELSE IF x < 540 THEN w3 ELSE 0
  BY DEF LateStartValue, MorningEnd
<1>5. FirstClassValue(S) = (IF a >= f THEN LateStartValue(a) ELSE LateStartValue(a) - LateStartValue(f))
  BY DEF FirstClassValue
<1>6. FirstClassValue(T) = (IF b >= f THEN LateStartValue(b) ELSE LateStartValue(b) - LateStartValue(f))
  BY DEF FirstClassValue
<1>7. ~(a < f) /\ b < f /\ f >= 540
  OBVIOUS
<1> HIDE DEF a, b, f, w1, w2, w3
<1>8. FirstClassValue(S) = LateStartValue(a) /\ FirstClassValue(T) = LateStartValue(b) - LateStartValue(f)
  BY <1>1, <1>2, <1>5, <1>6, <1>7
<1>9. LateStartValue(a) \in Int /\ LateStartValue(b) \in Int /\ LateStartValue(f) \in Int
  BY StartsAreIntegers
<1>10. LateStartValue(a) >= 0
  BY <1>1, <1>2, <1>3, <1>4, <1>7
<1>11. LateStartValue(b) <= LateStartValue(f)
  BY <1>1, <1>2, <1>3, <1>4, <1>7
<1> QED
  BY <1>8, <1>9, <1>10, <1>11

\* An end at the wished minute or earlier scores no less than a later one.
LEMMA LatestEndCostsNothing ==
  ASSUME template \in DOMAIN Profiles, wish \in Wishes, wish.latestEnd # None,
         NEW S \in SUBSET Sections, NEW T \in SUBSET Sections, S # {}, T # {},
         ~\E m \in Meets(S) : m.end > wish.latestEnd, \E m \in Meets(T) : m.end > wish.latestEnd
  PROVE  LatestEndValue(S) >= LatestEndValue(T)
<1> DEFINE a == Max({m.end : m \in Meets(S)})
           b == Max({m.end : m \in Meets(T)})
           e == wish.latestEnd
           w1 == Weight("idle", 1)
           w3 == Weight("idle", 3)
<1>1. /\ a \in {m.end : m \in Meets(S)} /\ b \in {m.end : m \in Meets(T)}
      /\ \A m \in Meets(T) : m.end <= b
  BY MeasuresAreFinite
<1>2. \A m \in Meets(S) \cup Meets(T) : m.end \in Nat
  BY MeetsAreNumbered
<1>3. e \in Nat
  BY WishesAreTyped
<1>4. w1 \in Nat /\ w3 \in Int /\ w3 <= 0
  BY WeightsAreTyped
<1>5. LatestEndValue(S) = (IF a - e <= 0 THEN w1 ELSE IF a - e <= 60 THEN 0 ELSE IF a - e <= 180 THEN w3 ELSE 2 * w3)
  BY DEF LatestEndValue
<1>6. LatestEndValue(T) = (IF b - e <= 0 THEN w1 ELSE IF b - e <= 60 THEN 0 ELSE IF b - e <= 180 THEN w3 ELSE 2 * w3)
  BY DEF LatestEndValue
<1>7. (\A m \in Meets(S) : ~(m.end > e)) /\ \E m \in Meets(T) : m.end > e
  OBVIOUS
<1> HIDE DEF a, b, e, w1, w3
<1>8. a \in Nat /\ b \in Nat /\ ~(a > e)
  BY <1>1, <1>2, <1>7
<1>9. b > e
  <2>1. PICK m \in Meets(T) : m.end > e
    BY <1>7
  <2>2. m.end \in Nat /\ m.end <= b
    BY <1>1, <1>2
  <2> QED
    BY <1>3, <1>8, <2>1, <2>2
<1>10. LatestEndValue(S) = w1
  BY <1>3, <1>5, <1>8
<1>11. LatestEndValue(T) \in {0, w3, 2 * w3}
  BY <1>3, <1>6, <1>8, <1>9
<1>12. \A x \in {0, w3, 2 * w3} : w1 >= x
  BY <1>4
<1> QED
  BY <1>10, <1>11, <1>12

(* A wish that is met never scores less than the same wish unmet, for any  *)
(* two of the candidates, whatever the template.                           *)
THEOREM MetWishesCostNothing == LegacyRankSpec => []MetWishScoresNoLess
<1>1. LegacySound /\ LegacyRanks => MetWishScoresNoLess
  <2> SUFFICES ASSUME LegacySound, LegacyRanks, wish # None PROVE MetWishScoresNoLess
    BY DEF MetWishScoresNoLess
  <2>1. template \in DOMAIN Profiles /\ wish \in Wishes
    BY WishesAreTyped DEF LegacyRanks, WishIsTyped
  <2>2. \A S \in ToSet(found) : S \in SUBSET Sections /\ S # {}
    <3>1. found \in Seq((SUBSET Sections) \ {{}})
      BY FoundAreTimetables
    <3>2. \A i \in DOMAIN found : found[i] \in (SUBSET Sections) \ {{}}
      BY <3>1
    <3> QED
      BY <3>2 DEF ToSet
  <2>3. \A S, T \in ToSet(found) : wish.freeDays \cap AttendanceDays(S) = {} => FreeDayValue(S) >= FreeDayValue(T)
    BY <2>1, FreeDaysCostNothing
  <2>4. \A S, T \in ToSet(found) :
          wish.preferred \subseteq S \cup CoursesOf(S) => PreferredValue(S) >= PreferredValue(T)
    BY <2>1, <2>2, PreferredCostsNothing
  <2>5. \A S, T \in ToSet(found) :
          wish.avoided \cap (S \cup CoursesOf(S)) = {} => AvoidedValue(S) >= AvoidedValue(T)
    BY <2>1, <2>2, AvoidedCostsNothing
  <2>6. wish.firstClass # None /\ wish.firstClass >= 540 =>
          \A S, T \in ToSet(found) :
            ~(FirstMinute(Meets(S)) < wish.firstClass) /\ FirstMinute(Meets(T)) < wish.firstClass
              => FirstClassValue(S) >= FirstClassValue(T)
    BY <2>1, <2>2, FirstClassCostsNothing
  <2>7. wish.latestEnd # None =>
          \A S, T \in ToSet(found) :
            (~\E m \in Meets(S) : m.end > wish.latestEnd) /\ (\E m \in Meets(T) : m.end > wish.latestEnd)
              => LatestEndValue(S) >= LatestEndValue(T)
    BY <2>1, <2>2, LatestEndCostsNothing
  <2> QED
    BY <2>3, <2>4, <2>5, <2>6, <2>7 DEF MetWishScoresNoLess
<1> QED
  BY <1>1, LegacySoundInit, LegacySoundNext, LegacyRanksInit, LegacyRanksNext, PTL DEF LegacyRankSpec

-----------------------------------------------------------------------------
(* How many electives are worth trying *)

\* What division rounded down and rounded up say of multiples.
LEMMA Dividing ==
  ASSUME NEW a \in Nat, NEW b \in Nat \ {0}
  PROVE  /\ RoundedDown(a, b) \in Nat /\ \A n \in Nat : n * b <= a => n <= RoundedDown(a, b)
         /\ RoundedUp(a, b) \in Nat /\ a <= RoundedUp(a, b) * b
<1> DEFINE q == a \div b
           u == (a + b - 1) \div b
<1>1. q \in Nat /\ b * q <= a /\ a < b * q + b
  OBVIOUS
<1>2. u \in Nat /\ b * u <= a + b - 1 /\ a + b - 1 < b * u + b
  OBVIOUS
<1> HIDE DEF q, u
<1>3. ASSUME NEW n \in Nat, n * b <= a PROVE n <= q
  <2> SUFFICES ASSUME q + 1 <= n PROVE FALSE
    BY <1>1
  <2>1. PICK d \in Nat : n = (q + 1) + d
    <3>1. n - (q + 1) \in Nat /\ n = (q + 1) + (n - (q + 1))
      BY <1>1
    <3> QED
      BY <3>1
  <2>2. n * b = b * q + b + d * b /\ d * b \in Nat /\ b * q \in Nat
    BY <1>1, <2>1
  <2> QED
    BY <1>1, <1>3, <2>2
<1>4. u * b = b * u /\ b * u \in Nat
  BY <1>2
<1> QED
  BY <1>1, <1>2, <1>3, <1>4 DEF RoundedDown, RoundedUp, q, u

\* The cheapest elective has at least one credit, and no elective has fewer.
LEMMA CheapestIsLeast ==
  ASSUME NEW r \in Orders, ElectivesOf(r) # {}
  PROVE  LET least == Min({CreditOf(s) : s \in ElectivesOf(r)})
         IN  least \in Nat \ {0} /\ \A s \in ElectivesOf(r) : least <= Catalog[s].credit
<1> DEFINE credits == {CreditOf(s) : s \in ElectivesOf(r)}
<1>1. ElectivesOf(r) \in SUBSET Sections
  BY OrdersAreTyped DEF ElectivesOf
<1>2. credits \in SUBSET (Nat \ {0}) /\ credits # {}
  BY <1>1, CatalogIsTyped DEF CreditOf
<1>3. \A s \in ElectivesOf(r) : Catalog[s].credit \in credits
  BY DEF CreditOf
<1> HIDE DEF credits
<1>4. credits \in SUBSET Nat
  BY <1>2
<1>5. Min(credits) \in credits /\ \A k \in credits : Min(credits) <= k
  BY <1>2, <1>4, MinIsLeast
<1>6. Min(credits) \in Nat \ {0} /\ \A s \in ElectivesOf(r) : Min(credits) <= Catalog[s].credit
  BY <1>2, <1>3, <1>5
<1> QED
  BY <1>6 DEF credits

\* Either all electives of an admissible timetable are few enough to be tried, or
\* no credits are aimed at and the number that is tried reaches what is asked for.
LEMMA MostIsEnough ==
  ASSUME NEW r \in Orders, ~TargetAsLimit(r), ~ElectivesUpToMinimum(r),
         NEW base \in Nat, NEW G \in SUBSET ElectivesOf(r), NEW credits \in Nat,
         credits = base + Credits(G),
         r.max # None => credits < r.max \/ (r.maxInclusive /\ credits = r.max),
         r.target # None => credits <= r.target
  PROVE  \/ Cardinality(G) <= MostElectives(r, base)
         \/ /\ MostElectives(r, base) < Cardinality(G) /\ r.target = None
            /\ (IF r.count = None THEN 0 ELSE r.count) <= MostElectives(r, base)
            /\ \A T \in SUBSET ElectivesOf(r) :
                 Cardinality(T) = MostElectives(r, base) /\ r.min # None
                   => r.minInclusive /\ r.min <= base + Credits(T)
<1> DEFINE least == Min({CreditOf(s) : s \in ElectivesOf(r)})
           asked == IF r.count = None THEN 0 ELSE r.count
           boundary == RoundedUp(r.min - base, least)
           wanted ==
             IF r.min # None /\ base < r.min
               THEN IF ~r.minInclusive /\ base + boundary * least = r.min THEN boundary + 1 ELSE boundary
             ELSE IF r.target # None THEN RoundedDown(PositivePart(r.target - base), least)
             ELSE 0
           ceiling == CreditCeiling(r)
           room == RoundedDown(PositivePart(ceiling - base), least)
           allowed == IF ~r.maxInclusive /\ base + room * least = ceiling THEN PositivePart(room - 1) ELSE room
           most == Max({asked, wanted})
           upTo == IF ceiling = None THEN most ELSE Min({most, allowed})
           n == Cardinality(G)
           all == Cardinality(ElectivesOf(r))
           k == MostElectives(r, base)
<1>0. ElectivesOf(r) \in SUBSET Sections /\ G \in SUBSET Sections
  BY OrdersAreTyped DEF ElectivesOf
<1>1. /\ n \in Nat /\ all \in Nat /\ n <= all /\ k \in Nat
  <2>1. IsFiniteSet(ElectivesOf(r))
    BY <1>0, PartsAreFinite
  <2> QED
    BY <1>0, <2>1, PartsAreFinite, FS_Subset, MostIsNumber
<1>2. CASE ElectivesOf(r) = {}
  <2>1. n = 0
    BY <1>2, FS_EmptySet
  <2> QED
    BY <1>1, <2>1
<1>3. CASE ElectivesOf(r) # {}
  <2>1. least \in Nat \ {0} /\ \A s \in ElectivesOf(r) : least <= Catalog[s].credit
    BY <1>3, CheapestIsLeast
  <2>2. k = Min({upTo, all})
    BY <1>3 DEF MostElectives
  <2> HIDE DEF least, k
  <2>3. \A T \in SUBSET ElectivesOf(r) : Cardinality(T) \in Nat /\ Cardinality(T) * least <= Credits(T)
                                            /\ Credits(T) \in Nat
    <3> SUFFICES ASSUME NEW T \in SUBSET ElectivesOf(r)
                 PROVE  Cardinality(T) \in Nat /\ Cardinality(T) * least <= Credits(T) /\ Credits(T) \in Nat
      OBVIOUS
    <3>1. T \in SUBSET Sections /\ (\A s \in T : least <= Catalog[s].credit) /\ least \in Nat
      BY <1>0, <2>1
    <3> QED
      BY <3>1, CreditsAtLeast, CreditsAreNumbers
  <2>4. n * least <= Credits(G) /\ Credits(G) \in Nat /\ n * least \in Nat
    BY <1>1, <2>1, <2>3
  <2>5. asked \in Nat /\ (r.min # None => r.min \in Nat) /\ (r.target # None => r.target \in Nat)
    BY OrdersAreTyped
  <2>6. ASSUME ceiling # None PROVE allowed \in Nat /\ n <= allowed
    <3>1. ceiling \in Nat /\ ceiling \in {r.target, r.max}
      BY <2>6, CeilingIsLeast
    <3>2. credits <= ceiling
      <4>1. CASE ceiling = r.target
        BY <3>1, <4>1, <2>6
      <4>2. CASE ceiling = r.max
        BY <3>1, <4>2, <2>6
      <4> QED
        BY <3>1, <4>1, <4>2
    <3> DEFINE rest == PositivePart(ceiling - base)
    <3>3. rest \in Nat /\ rest = ceiling - base /\ n * least <= rest
      BY <2>4, <3>1, <3>2 DEF PositivePart
    <3> HIDE DEF rest
    <3>4. room \in Nat /\ n <= room
      <4>1. room = RoundedDown(rest, least)
        BY DEF rest
      <4> QED
        BY <1>1, <2>1, <3>3, <4>1, Dividing
    <3>5. ASSUME ~r.maxInclusive, base + room * least = ceiling PROVE n < room
      <4>1. r.max # None /\ r.max \in Nat /\ ceiling <= r.max
        BY <3>5, OrdersAreTyped, CeilingIsLeast
      <4>2. ceiling = r.max
        <5>1. CASE ceiling = r.target
          <6>1. r.target # None /\ ~(r.target < r.max)
            BY <2>6, <3>5, <5>1 DEF TargetAsLimit
          <6> QED
            BY <3>1, <4>1, <5>1, <6>1
        <5> QED
          BY <3>1, <5>1
      <4>3. credits < ceiling
        BY <3>5, <4>1, <4>2
      <4> HIDE DEF room, ceiling, n
      <4>4. n # room
        BY <2>4, <3>1, <3>5, <4>3
      <4> QED
        BY <1>1, <3>4, <4>4
    <3> HIDE DEF room, ceiling
    <3>6. CASE ~r.maxInclusive /\ base + room * least = ceiling
      <4>1. n < room
        BY <3>5, <3>6
      <4>2. PositivePart(room - 1) = room - 1
        BY <1>1, <3>4, <4>1 DEF PositivePart
      <4>3. allowed = room - 1
        BY <3>6, <4>2
      <4> QED
        BY <1>1, <3>4, <4>1, <4>3
    <3>7. CASE ~(~r.maxInclusive /\ base + room * least = ceiling)
      <4>1. allowed = room
        BY <3>7
      <4> QED
        BY <3>4, <4>1
    <3> QED
      BY <3>6, <3>7
  <2>7. CASE r.target # None
    <3>1. r.min = None
      BY <2>7 DEF ElectivesUpToMinimum
    <3>2. wanted = RoundedDown(PositivePart(r.target - base), least)
      BY <2>7, <3>1
    <3> DEFINE rest == PositivePart(r.target - base)
    <3>3. rest \in Nat /\ n * least <= rest
      BY <2>4, <2>5, <2>7 DEF PositivePart
    <3> HIDE DEF rest
    <3>4. wanted \in Nat /\ n <= wanted
      <4>1. wanted = RoundedDown(rest, least)
        BY <3>2 DEF rest
      <4> QED
        BY <1>1, <2>1, <3>3, <4>1, Dividing
    <3> HIDE DEF wanted, allowed, ceiling, asked, all, n
    <3>5. most \in Nat /\ n <= most
      <4>1. most \in Nat /\ wanted <= most
        BY <2>5, <3>4, MaxOfTwo
      <4> HIDE DEF most
      <4> QED
        BY <1>1, <3>4, <4>1
    <3> HIDE DEF most
    <3>6. upTo \in Nat /\ n <= upTo
      <4>1. ASSUME ceiling # None PROVE Min({most, allowed}) \in Nat /\ n <= Min({most, allowed})
        <5>1. most \in Int /\ allowed \in Int /\ {most, allowed} \subseteq Nat
          BY <2>6, <3>5, <4>1
        <5>2. Min({most, allowed}) \in {most, allowed}
          BY <5>1, MinOfTwo
        <5> QED
          BY <2>6, <3>5, <4>1, <5>1, <5>2
      <4> QED
        BY <3>5, <4>1
    <3> HIDE DEF upTo
    <3>7. n <= k
      <4>1. upTo \in Int /\ all \in Int
        BY <1>1, <3>6
      <4>2. k \in {upTo, all}
        BY <2>2, <4>1, MinOfTwo
      <4> QED
        BY <1>1, <3>6, <4>2
    <3> QED
      BY <3>7 DEF k, n
  <2>8. CASE r.target = None
    <3>1. r.min # None => r.minInclusive
      BY <2>8 DEF ElectivesUpToMinimum
    <3>2. ASSUME r.min # None, base < r.min
          PROVE  wanted = boundary /\ boundary \in Nat /\ r.min <= base + boundary * least
      <4>1. wanted = boundary
        BY <3>1, <3>2
      <4> DEFINE gap == r.min - base
      <4>2. gap \in Nat /\ r.min = base + gap
        BY <2>5, <3>2
      <4> HIDE DEF gap
      <4>3. boundary = RoundedUp(gap, least)
        BY DEF gap
      <4> HIDE DEF boundary
      <4>4. boundary \in Nat /\ gap <= boundary * least
        BY <2>1, <4>2, <4>3, Dividing
      <4>5. boundary * least \in Nat
        BY <2>1, <4>4
      <4> QED
        BY <4>1, <4>2, <4>4, <4>5
    <3>3. ~(r.min # None /\ base < r.min) => wanted = 0
      BY <2>8
    <3>4. wanted \in Nat
      BY <3>2, <3>3
    <3> HIDE DEF wanted, allowed, ceiling, boundary, asked, all, n
    <3>5. most \in Nat /\ asked <= most /\ wanted <= most
      BY <2>5, <3>4, MaxOfTwo
    <3> HIDE DEF most
    <3>6. upTo \in Nat /\ (upTo = most \/ n <= upTo)
      <4>1. ASSUME ceiling # None
            PROVE  Min({most, allowed}) \in Nat /\ Min({most, allowed}) \in {most, allowed}
        <5>1. most \in Int /\ allowed \in Int /\ {most, allowed} \subseteq Nat
          BY <2>6, <3>5, <4>1
        <5>2. Min({most, allowed}) \in {most, allowed}
          BY <5>1, MinOfTwo
        <5> QED
          BY <5>1, <5>2
      <4> QED
        BY <2>6, <3>5, <4>1
    <3> HIDE DEF upTo
    <3>7. n <= k \/ k = most
      <4>1. upTo \in Int /\ all \in Int
        BY <1>1, <3>6
      <4>2. k \in {upTo, all}
        BY <2>2, <4>1, MinOfTwo
      <4> QED
        BY <1>1, <3>6, <4>2
    <3>8. ASSUME k = most, NEW T \in SUBSET ElectivesOf(r), Cardinality(T) = k, r.min # None
          PROVE  r.min <= base + Credits(T)
      <4>1. k * least <= Credits(T) /\ Credits(T) \in Nat
        BY <2>3, <3>8
      <4>2. CASE base < r.min
        <5>1. wanted = boundary /\ boundary \in Nat /\ r.min <= base + boundary * least
          BY <3>2, <3>8, <4>2
        <5>2. PICK d \in Nat : k = boundary + d
          <6>1. k - boundary \in Nat /\ k = boundary + (k - boundary)
            BY <1>1, <3>5, <3>8, <5>1
          <6> QED
            BY <6>1
        <5>3. k * least = boundary * least + d * least /\ d * least \in Nat /\ boundary * least \in Nat
          BY <2>1, <5>1, <5>2
        <5> QED
          BY <2>5, <3>8, <4>1, <5>1, <5>3
      <4>3. CASE ~(base < r.min)
        BY <2>5, <3>8, <4>1, <4>3
      <4> QED
        BY <4>2, <4>3
    <3>9. CASE n <= k
      BY <3>9 DEF k, n
    <3>10. CASE ~(n <= k)
      <4>1. k = most /\ asked <= k /\ k < n
        BY <1>1, <3>5, <3>7, <3>10
      <4>2. \A T \in SUBSET ElectivesOf(r) :
              Cardinality(T) = k /\ r.min # None => r.minInclusive /\ r.min <= base + Credits(T)
        BY <3>1, <3>8, <4>1
      <4> QED
        BY <2>8, <4>1, <4>2 DEF k, n, asked
    <3> QED
      BY <3>9, <3>10
  <2> QED
    BY <2>7, <2>8
<1> QED
  BY <1>2, <1>3

-----------------------------------------------------------------------------
(* A chain that is counted is a row of classes *)

\* One of two classes of a day comes first.
Listed(M) == \A a, b \in M : a # b /\ a.day = b.day => Precedes(a, b) \/ Precedes(b, a)

\* A class that starts and ends at sensible times, with a place in its section's list.
Timed(M) ==
  \A m \in M : m.day \in Nat /\ m.start \in Nat /\ m.end \in Nat /\ m.no \in Nat /\ m.start < m.end

\* No two sections meet at the same time.
SectionsAreApart(S) ==
  \A s, t \in S : s # t => \A a \in Catalog[s].meets, b \in Catalog[t].meets :
    a.day # b.day \/ a.end <= b.start \/ b.end <= a.start

\* The last k + 1 classes of the row that leads to m.
Leads(row, k, M, m) ==
  /\ row \in [0..k -> M] /\ row[k] = m
  /\ \A i \in 1..k : Neighbour(row[i - 1], row[i], M) /\ row[i].start = row[i - 1].end
  /\ row[0] \in RowUpTo(M, m)
  /\ \A c \in RowUpTo(M, m) : ~Precedes(c, row[0]) => \E i \in 0..k : row[i] = c

\* A class meeting is a row of one meeting that ends with it.
LEMMA RowEndsThere ==
  ASSUME NEW M, Timed(M), Listed(M), NEW m \in M
  PROVE  m \in RowUpTo(M, m) /\ \E row : Leads(row, 0, M, m)
<1>1. m \in RowUpTo(M, m)
  <2>1. ~Precedes(m, m)
    BY PrecedesOrders DEF Timed
  <2> QED
    BY <2>1 DEF RowUpTo
<1> DEFINE row == [i \in 0..0 |-> m]
<1>2. row \in [0..0 -> M] /\ row[0] = m /\ 0 \in 0..0 /\ \A i \in 1..0 : FALSE
  OBVIOUS
<1> HIDE DEF row
<1>3. ASSUME NEW c \in RowUpTo(M, m), ~Precedes(c, m) PROVE c = m
  <2>1. c \in M /\ c.day = m.day /\ ~Precedes(m, c)
    BY DEF RowUpTo
  <2> QED
    BY <1>3, <2>1 DEF Listed
<1>4. Leads(row, 0, M, m)
  BY <1>1, <1>2, <1>3 DEF Leads
<1> QED
  BY <1>1, <1>4

\* A row shorter than the row of meetings up to its last one can be made longer.
LEMMA RowGrows ==
  ASSUME NEW M, IsFiniteSet(M), Timed(M), Listed(M), NEW m \in M, NEW k \in Nat,
         k + 1 < Cardinality(RowUpTo(M, m)), NEW row, Leads(row, k, M, m)
  PROVE  \E longer : Leads(longer, k + 1, M, m)
<1> DEFINE R == RowUpTo(M, m)
           first == row[0]
           taken == {row[i] : i \in 0..k}
<1>1. /\ row \in [0..k -> M] /\ row[k] = m
      /\ \A i \in 1..k : Neighbour(row[i - 1], row[i], M) /\ row[i].start = row[i - 1].end
      /\ first \in R
      /\ \A c \in R : ~Precedes(c, first) => c \in taken
  BY DEF Leads
<1>2. IsFiniteSet(taken) /\ Cardinality(taken) <= k + 1
  <2>1. IsFiniteSet(0..k) /\ Cardinality(0..k) = k + 1
    BY FS_Interval
  <2>2. row \in Surjection(0..k, taken)
    BY <1>1 DEF Surjection
  <2> HIDE DEF taken
  <2>3. IsFiniteSet(taken) /\ Cardinality(taken) <= Cardinality(0..k)
    BY <2>1, <2>2, FS_Surjection
  <2> QED
    BY <2>1, <2>3
<1>3. R \in SUBSET M /\ \A c \in R : c.day = m.day /\ ~Precedes(m, c)
  BY DEF RowUpTo
<1> HIDE DEF R, taken, first
<1>4. PICK c \in R : c \notin taken
  <2> SUFFICES ASSUME R \subseteq taken PROVE FALSE
    OBVIOUS
  <2>1. IsFiniteSet(R) /\ Cardinality(R) \in Nat /\ Cardinality(taken) \in Nat
    BY <1>2, <1>3, FS_Subset, FS_CardinalityType
  <2>2. Cardinality(R) <= Cardinality(taken)
    BY <1>2, FS_Subset
  <2>3. k + 1 < Cardinality(R)
    BY DEF R
  <2> QED
    BY <1>2, <2>1, <2>2, <2>3
<1>5. /\ first \in M /\ first.day = m.day /\ ~Precedes(m, first)
      /\ c \in M /\ c.day = m.day /\ Precedes(c, first)
  BY <1>1, <1>3, <1>4
<1>6. PICK e \in M : Neighbour(e, first, M) /\ e.end = first.start
  BY <1>4, <1>5 DEF R, RowUpTo
<1>n. \A x \in M : x.start \in Nat /\ x.no \in Nat
  BY DEF Timed
<1>7. /\ e.day = m.day /\ Precedes(e, first) /\ ~Precedes(e, c)
      /\ \A x \in M : ~(x.day = m.day /\ Precedes(e, x) /\ Precedes(x, first))
  <2>1. e.day = first.day /\ Precedes(e, first)
        /\ \A x \in M : ~(x.day = e.day /\ Precedes(e, x) /\ Precedes(x, first))
    BY <1>6 DEF Neighbour
  <2> QED
    BY <1>5, <2>1
<1>8. e \in R
  <2>1. ~Precedes(m, e)
    BY <1>5, <1>7, <1>n, PrecedesOrders
  <2>2. ASSUME NEW d \in M, d.day = m.day, Precedes(e, d), ~Precedes(m, d)
        PROVE  \E x \in M : Neighbour(x, d, M) /\ x.end = d.start
    <3>1. Precedes(c, d)
      BY <1>5, <1>7, <1>n, <2>2, PrecedesOrders
    <3> QED
      BY <1>4, <2>2, <3>1 DEF R, RowUpTo
  <2> QED
    BY <1>7, <2>1, <2>2 DEF R, RowUpTo
<1>9. ASSUME NEW x \in R, ~Precedes(x, e) PROVE x = e \/ x \in taken
  <2>1. x \in M /\ x.day = m.day
    BY <1>3
  <2>2. CASE ~Precedes(x, first)
    BY <1>1, <2>2
  <2>3. CASE Precedes(x, first)
    <3>1. x # e => Precedes(e, x)
      BY <1>7, <1>9, <2>1 DEF Listed
    <3> QED
      BY <1>7, <2>1, <2>3, <3>1
  <2> QED
    BY <2>2, <2>3
<1> DEFINE longer == [i \in 0..(k + 1) |-> IF i = 0 THEN e ELSE row[i - 1]]
<1>10. /\ longer \in [0..(k + 1) -> M] /\ longer[0] = e /\ 0 \in 0..(k + 1)
       /\ \A i \in 1..(k + 1) : i - 1 \in 0..k /\ longer[i] = row[i - 1]
  <2>1. \A i \in 1..(k + 1) : i - 1 \in 0..k /\ i # 0 /\ i \in 0..(k + 1)
    OBVIOUS
  <2>2. \A i \in 0..(k + 1) : i = 0 \/ i - 1 \in 0..k
    OBVIOUS
  <2> QED
    BY <1>1, <2>1, <2>2
<1> HIDE DEF longer
<1>11. longer[k + 1] = m
  <2>1. k + 1 \in 1..(k + 1) /\ (k + 1) - 1 = k
    OBVIOUS
  <2> QED
    BY <1>1, <1>10, <2>1
<1>12. ASSUME NEW i \in 1..(k + 1)
       PROVE  Neighbour(longer[i - 1], longer[i], M) /\ longer[i].start = longer[i - 1].end
  <2>1. CASE i = 1
    <3>1. longer[i - 1] = e /\ longer[i] = first
      BY <1>10, <2>1 DEF first
    <3> QED
      BY <1>6, <3>1
  <2>2. CASE i # 1
    <3>1. i - 1 \in 1..k /\ i - 1 \in 1..(k + 1)
      BY <2>2
    <3>2. longer[i - 1] = row[(i - 1) - 1] /\ longer[i] = row[i - 1]
      BY <1>10, <3>1
    <3> QED
      BY <1>1, <3>1, <3>2
  <2> QED
    BY <2>1, <2>2
<1>13. ASSUME NEW x \in R, ~Precedes(x, longer[0]) PROVE \E i \in 0..(k + 1) : longer[i] = x
  <2>1. x = e \/ x \in taken
    BY <1>9, <1>10, <1>13
  <2>2. CASE x \in taken
    <3>1. PICK j \in 0..k : row[j] = x
      BY <2>2 DEF taken
    <3>2. j + 1 \in 1..(k + 1) /\ (j + 1) - 1 = j /\ j + 1 \in 0..(k + 1)
      OBVIOUS
    <3>3. longer[j + 1] = x
      BY <1>10, <3>1, <3>2
    <3> QED
      BY <3>2, <3>3
  <2> QED
    BY <1>10, <2>1, <2>2
<1>14. Leads(longer, k + 1, M, m)
  BY <1>8, <1>10, <1>11, <1>12, <1>13 DEF Leads, R
<1> QED
  BY <1>14

\* Without a row longer than n, the longest run of classes is at most n.
LEMMA ChainsAreRows ==
  ASSUME NEW S \in SUBSET Sections, Timed(Meets(S)), Listed(Meets(S)), Meets(S) # {},
         NEW n \in Nat, ~RowLongerThan(S, n)
  PROVE  LongestChain(S) <= n
<1> DEFINE M == Meets(S)
           R(m) == RowUpTo(M, m)
           counts == {1} \cup {Cardinality(R(m)) : m \in M}
<1>1. IsFiniteSet(M)
  BY MeetsAreNumbered
<1>2. \A m \in M : ~\E row : Leads(row, n, M, m)
  BY DEF RowLongerThan, Leads
<1> HIDE DEF M
<1>t. Timed(M) /\ Listed(M) /\ M # {}
  BY DEF M
<1>3. ASSUME NEW m \in M PROVE IsFiniteSet(R(m)) /\ Cardinality(R(m)) \in Nat /\ m \in R(m)
  <2>1. R(m) \in SUBSET M
    BY DEF RowUpTo
  <2> QED
    BY <1>1, <1>t, <2>1, FS_Subset, FS_CardinalityType, RowEndsThere
<1>4. ASSUME NEW m \in M PROVE Cardinality(R(m)) <= n
  <2> SUFFICES ASSUME n < Cardinality(R(m)) PROVE FALSE
    BY <1>3
  <2> DEFINE P == {k \in Nat : k < Cardinality(R(m)) => \E row : Leads(row, k, M, m)}
  <2>1. 0 \in P
    BY <1>t, RowEndsThere
  <2>2. ASSUME NEW k \in P PROVE k + 1 \in P
    <3> SUFFICES ASSUME k + 1 < Cardinality(R(m)) PROVE \E row : Leads(row, k + 1, M, m)
      OBVIOUS
    <3>1. k < Cardinality(R(m))
      BY <1>3
    <3>2. PICK row : Leads(row, k, M, m)
      BY <3>1
    <3> QED
      BY <1>1, <1>t, <3>2, RowGrows
  <2> HIDE DEF P
  <2>3. P \in SUBSET Nat
    BY DEF P
  <2>4. n \in P
    BY <2>1, <2>2, <2>3, Climbing
  <2>5. \E row : Leads(row, n, M, m)
    BY <2>4 DEF P
  <2> QED
    BY <1>2, <2>5
<1>5. 1 <= n
  <2>1. PICK m \in M : TRUE
    BY <1>t
  <2>2. Cardinality(R(m)) # 0
    BY <1>3, FS_EmptySet
  <2> QED
    BY <1>3, <1>4, <2>2
<1>6. counts \in SUBSET Nat /\ counts # {} /\ \A c \in counts : c <= n
  <2> HIDE DEF R
  <2> QED
    BY <1>3, <1>4, <1>5
<1>7. LongestChain(S) = Max(counts)
  BY DEF LongestChain, M
<1> HIDE DEF counts
<1> QED
  BY <1>6, <1>7, MaxIsGreatest

\* A row of a part is a row of the whole.
LEMMA RowsOfParts ==
  ASSUME NEW S, NEW U \in SUBSET S, Timed(Meets(S)), SectionsAreApart(S), NEW n \in Nat, RowLongerThan(U, n)
  PROVE  RowLongerThan(S, n)
<1> DEFINE M == Meets(S)
           N == Meets(U)
<1>1. N \in SUBSET M
  BY DEF Meets
<1>2. PICK row \in [0..n -> N] :
        \A i \in 1..n : Neighbour(row[i - 1], row[i], N) /\ row[i].start = row[i - 1].end
  BY DEF RowLongerThan
<1>t. Timed(M) /\ SectionsAreApart(S)
  OBVIOUS
<1> HIDE DEF M, N
<1>3. row \in [0..n -> M]
  BY <1>1
<1>4. ASSUME NEW i \in 1..n PROVE Neighbour(row[i - 1], row[i], M)
  <2> DEFINE a == row[i - 1]
             b == row[i]
  <2>1. a \in N /\ b \in N
    <3>1. i - 1 \in 0..n /\ i \in 0..n
      OBVIOUS
    <3> QED
      BY <1>2, <3>1
  <2>2. /\ a.day = b.day /\ Precedes(a, b) /\ b.start = a.end
        /\ ~\E c \in N : c.day = a.day /\ Precedes(a, c) /\ Precedes(c, b)
    BY <1>2 DEF Neighbour
  <2> HIDE DEF a, b
  <2>3. ASSUME NEW c \in M, c.day = a.day, Precedes(a, c), Precedes(c, b) PROVE FALSE
    <3>1. PICK s \in S : c \in Catalog[s].meets
      BY DEF M, Meets
    <3>2. s \notin U
      <4>1. c \notin N
        BY <2>2, <2>3
      <4> QED
        BY <3>1, <4>1 DEF N, Meets
    <3>3. PICK t \in U : a \in Catalog[t].meets
      BY <2>1 DEF N, Meets
    <3>4. PICK u \in U : b \in Catalog[u].meets
      BY <2>1 DEF N, Meets
    <3>5. s # t /\ s # u /\ t \in S /\ u \in S
      BY <3>2
    <3>6. a.end <= c.start \/ c.end <= a.start
      BY <1>t, <2>3, <3>1, <3>3, <3>5 DEF SectionsAreApart
    <3>7. b.end <= c.start \/ c.end <= b.start
      BY <1>t, <2>2, <2>3, <3>1, <3>4, <3>5 DEF SectionsAreApart
    <3>8. /\ a.start \in Nat /\ a.end \in Nat /\ b.start \in Nat /\ b.end \in Nat
          /\ c.start \in Nat /\ c.end \in Nat
          /\ a.start < a.end /\ b.start < b.end /\ c.start < c.end
      BY <1>1, <1>t, <2>1 DEF Timed
    <3>9. a.start <= c.start /\ c.start <= b.start
      BY <2>3, <3>8 DEF Precedes
    <3> QED
      BY <2>2, <3>6, <3>7, <3>8, <3>9
  <2>4. Neighbour(a, b, M)
    BY <2>2, <2>3 DEF Neighbour
  <2> QED
    BY <2>4 DEF a, b
<1>5. \A i \in 1..n : Neighbour(row[i - 1], row[i], M) /\ row[i].start = row[i - 1].end
  BY <1>2, <1>4
<1> QED
  BY <1>3, <1>5 DEF RowLongerThan, M

-----------------------------------------------------------------------------
(* What the checks of the loops let through *)

\* The class times of a timetable without conflicts come one after the other.
LEMMA ClassesAreListed ==
  ASSUME NEW S \in SUBSET Sections, SectionsAreApart(S)
  PROVE  Timed(Meets(S)) /\ Listed(Meets(S))
<1>1. Timed(Meets(S))
  BY CatalogIsTyped DEF Timed, Meets
<1>2. ASSUME NEW a \in Meets(S), NEW b \in Meets(S), a # b, a.day = b.day
      PROVE  Precedes(a, b) \/ Precedes(b, a)
  <2>1. PICK s \in S : a \in Catalog[s].meets
    BY DEF Meets
  <2>2. PICK t \in S : b \in Catalog[t].meets
    BY DEF Meets
  <2>3. /\ a.start \in Nat /\ a.end \in Nat /\ a.no \in Nat /\ a.start < a.end
        /\ b.start \in Nat /\ b.end \in Nat /\ b.no \in Nat /\ b.start < b.end
    BY <1>1 DEF Timed
  <2>4. CASE s = t
    <3>1. a.no # b.no
      BY <1>2, <2>1, <2>2, <2>4, MeetingsAreListed
    <3> QED
      BY <2>3, <3>1, PrecedesOrders
  <2>5. CASE s # t
    <3>1. a.end <= b.start \/ b.end <= a.start
      BY <1>2, <2>1, <2>2, <2>5 DEF SectionsAreApart
    <3> QED
      BY <2>3, <3>1 DEF Precedes
  <2> QED
    BY <2>4, <2>5
<1>3. Listed(Meets(S))
  BY <1>2 DEF Listed
<1> QED
  BY <1>1, <1>3

\* A timetable that meets the hard conditions passes _violates_hard_constraints.
LEMMA HardConditionsAreEnough ==
  ASSUME NEW r \in Orders, NEW S \in SUBSET Sections, S # {}, Timed(Meets(S)), Listed(Meets(S)),
         HardConditionsHold(S, r.hard)
  PROVE  ~ViolatesHardConditions(S, r.hard)
<1> DEFINE hard == r.hard
<1>0. hard.maxChain # None => hard.maxChain \in Nat
  BY OrdersAreTyped
<1>n. /\ hard.earliest # None => hard.earliest \in Nat
      /\ hard.latest # None => hard.latest \in Nat
      /\ \A g \in hard.excludedRanges : g.start \in Nat /\ g.end \in Nat
  BY OrdersAreTyped
<1> HIDE DEF hard
<1>1. HardConditionsHold(S, hard)
  BY DEF hard
<1>2. ASSUME NEW m \in Meets(S)
      PROVE  ~(\/ m.day \in hard.excludedDays \cup hard.freeDays
               \/ hard.earliest # None /\ m.start < hard.earliest
               \/ hard.latest # None /\ m.end > hard.latest
               \/ \E range \in hard.excludedRanges : InRange(m, range))
  <2>1. WithinHours(m, hard)
    BY <1>1 DEF HardConditionsHold
  <2>2. m.start \in Nat /\ m.end \in Nat
    BY DEF Timed
  <2>3. \A range \in hard.excludedRanges : ~InRange(m, range)
    BY <1>n, <2>1, <2>2 DEF WithinHours, InRange
  <2> QED
    BY <1>n, <2>1, <2>2, <2>3 DEF WithinHours
<1>3. Normalized(hard.required, S) \subseteq CoursesOf(S)
  <2> SUFFICES ASSUME NEW c \in Normalized(hard.required, S) PROVE c \in CoursesOf(S)
    OBVIOUS
  <2>1. CASE \E id \in hard.required : \E s \in S : id \in {s, CourseOf(s)} /\ c = CourseOf(s)
    BY <2>1 DEF CoursesOf
  <2>2. CASE c \in hard.required /\ ~\E s \in S : c \in {s, CourseOf(s)}
    BY <1>1, <2>2 DEF HardConditionsHold
  <2> QED
    BY <2>1, <2>2, NameStandsFor
<1>4. Normalized(hard.excluded, S) \cap CoursesOf(S) = {}
  <2> SUFFICES ASSUME NEW c \in Normalized(hard.excluded, S), c \in CoursesOf(S) PROVE FALSE
    OBVIOUS
  <2>1. PICK t \in S : c = CourseOf(t)
    BY DEF CoursesOf
  <2>2. \A s \in S : s \notin hard.excluded /\ CourseOf(s) \notin hard.excluded
    BY <1>1 DEF HardConditionsHold
  <2>3. CASE \E id \in hard.excluded : \E s \in S : id \in {s, CourseOf(s)} /\ c = CourseOf(s)
    BY <2>2, <2>3
  <2>4. CASE c \in hard.excluded /\ ~\E s \in S : c \in {s, CourseOf(s)}
    BY <2>1, <2>4
  <2> QED
    BY <2>3, <2>4, NameStandsFor
<1>5. ~\E s \in S : Catalog[s].professor \in hard.excludedProfessors
  BY <1>1 DEF HardConditionsHold
<1>6. ASSUME hard.maxChain # None PROVE ~(LongestChain(S) > hard.maxChain)
  <2>1. hard.maxChain \in Nat /\ ~RowLongerThan(S, hard.maxChain)
    BY <1>0, <1>1, <1>6 DEF HardConditionsHold
  <2>2. LongestChain(S) <= hard.maxChain
    BY <2>1, MeetsAreNumbered, ChainsAreRows
  <2>3. LongestChain(S) \in Nat
    BY LongestIsNumber
  <2> QED
    BY <2>1, <2>2, <2>3
<1>7. ~ViolatesHardConditions(S, hard)
  BY <1>2, <1>3, <1>4, <1>5, <1>6 DEF ViolatesHardConditions
<1> QED
  BY <1>7 DEF hard

\* A part keeps the hard conditions if it has the required courses.
LEMMA HardConditionsOfParts ==
  ASSUME NEW r \in Orders, NEW S \in SUBSET Sections, NEW U \in SUBSET S,
         Timed(Meets(S)), SectionsAreApart(S), HardConditionsHold(S, r.hard),
         \A id \in r.hard.required : \E s \in U : id \in {s, CourseOf(s)}
  PROVE  HardConditionsHold(U, r.hard)
<1> DEFINE hard == r.hard
<1>1. hard.maxChain # None => hard.maxChain \in Nat
  BY OrdersAreTyped
<1>2. HardConditionsHold(S, hard) /\ \A id \in hard.required : \E s \in U : id \in {s, CourseOf(s)}
  OBVIOUS
<1> HIDE DEF hard
<1>3. \A m \in Meets(U) : WithinHours(m, hard)
  <2>1. Meets(U) \subseteq Meets(S)
    BY DEF Meets
  <2> QED
    BY <1>2, <2>1 DEF HardConditionsHold
<1>4. \A s \in U : {s, CourseOf(s)} \cap hard.excluded = {} /\ Catalog[s].professor \notin hard.excludedProfessors
  BY <1>2 DEF HardConditionsHold
<1>5. hard.maxChain # None => ~RowLongerThan(U, hard.maxChain)
  BY <1>1, <1>2, RowsOfParts DEF HardConditionsHold
<1>6. HardConditionsHold(U, hard)
  BY <1>2, <1>3, <1>4, <1>5 DEF HardConditionsHold
<1> QED
  BY <1>6 DEF hard

\* Part of a timetable has at most its credits.
LEMMA PartsCostNoMore ==
  ASSUME NEW S \in SUBSET Sections, NEW Q \in SUBSET S
  PROVE  Credits(Q) \in Nat /\ Credits(S) \in Nat /\ Credits(Q) <= Credits(S)
<1> DEFINE D == S \ Q
<1>1. /\ Q \in SUBSET Sections /\ D \in SUBSET Sections /\ Q \cap D = {} /\ Q \cup D = S
  OBVIOUS
<1> HIDE DEF D
<1>2. Credits(S) = Credits(Q) + Credits(D)
  BY <1>1, CreditsAdd
<1>3. Credits(Q) \in Nat /\ Credits(D) \in Nat /\ Credits(S) \in Nat
  BY <1>1, CreditsAreNumbers
<1> QED
  BY <1>2, <1>3

\* A part of an admissible timetable is not rejected for what it has too much of.
LEMMA PartIsPossible ==
  ASSUME order \in Orders, ~TargetAsLimit(order), NEW S \in SUBSET Sections, Recommendable(order, S),
         NEW Q \in SUBSET S, ~TravelIssue(Q, None)
  PROVE  /\ ~DuplicateCourse(Q) /\ ~ExceedsTarget(Credits(Q), order)
         /\ ~AboveMaximum(Credits(Q), order.max, order.maxInclusive)
         /\ CreditCeiling(order) # None => Credits(Q) <= CreditCeiling(order)
         /\ \A s, t \in Q : s # t => ~ConflictsWith(s, t)
         /\ RejectionOf(Q, None) = {}
         /\ ~BelowMinimum(Credits(Q), order.min, order.minInclusive) => RejectionOf(Q, order.min) = {}
<1>0. Credits(Q) \in Nat /\ Credits(S) \in Nat /\ Credits(Q) <= Credits(S)
  BY PartsCostNoMore
<1>1. /\ order.max # None => Credits(S) < order.max \/ (order.maxInclusive /\ Credits(S) = order.max)
      /\ order.target # None => Credits(S) <= order.target
  BY DEF Recommendable, CreditsAllowed
<1>2. /\ order.max # None => order.max \in Nat
      /\ order.target # None => order.target \in Nat
      /\ order.maxInclusive \in BOOLEAN
      /\ order.max = None => order.maxInclusive
  BY OrdersAreTyped
<1>3. ~DuplicateCourse(Q)
  BY DEF Recommendable, DuplicateCourse
<1>4. ~ExceedsTarget(Credits(Q), order)
  BY <1>0, <1>1, <1>2 DEF ExceedsTarget
<1>5. ~AboveMaximum(Credits(Q), order.max, order.maxInclusive)
  BY <1>0, <1>1, <1>2 DEF AboveMaximum
<1>6. CreditCeiling(order) # None =>
        /\ CreditCeiling(order) \in Nat /\ Credits(Q) <= CreditCeiling(order)
        /\ ~order.maxInclusive => Credits(Q) < CreditCeiling(order)
  <2> SUFFICES ASSUME CreditCeiling(order) # None
               PROVE  /\ CreditCeiling(order) \in Nat /\ Credits(Q) <= CreditCeiling(order)
                      /\ ~order.maxInclusive => Credits(Q) < CreditCeiling(order)
    OBVIOUS
  <2>1. CreditCeiling(order) \in Nat /\ CreditCeiling(order) \in {order.target, order.max}
    BY CeilingIsLeast
  <2>2. Credits(Q) <= CreditCeiling(order)
    <3>1. CASE CreditCeiling(order) = order.target
      BY <1>0, <1>1, <1>2, <2>1, <3>1
    <3>2. CASE CreditCeiling(order) = order.max
      BY <1>0, <1>1, <1>2, <2>1, <3>2
    <3> QED
      BY <2>1, <3>1, <3>2
  <2>3. ASSUME ~order.maxInclusive PROVE Credits(Q) < CreditCeiling(order)
    <3>1. order.max # None /\ order.max \in Nat /\ Credits(Q) < order.max
      BY <1>0, <1>1, <1>2, <2>3
    <3>2. CASE CreditCeiling(order) = order.target
      <4>1. order.target # None /\ ~(order.target < order.max)
        BY <2>1, <2>3, <3>2 DEF TargetAsLimit
      <4> QED
        BY <1>0, <1>2, <3>1, <3>2, <4>1
    <3>3. CASE CreditCeiling(order) = order.max
      BY <3>1, <3>3
    <3> QED
      BY <2>1, <3>2, <3>3
  <2> QED
    BY <2>1, <2>2, <2>3
<1>7. ~AboveMaximum(Credits(Q), CreditCeiling(order), order.maxInclusive)
  BY <1>0, <1>2, <1>6 DEF AboveMaximum
<1>8. ASSUME NEW s \in Q, NEW t \in Q, s # t PROVE ~ConflictsWith(s, t)
  <2>1. \A a \in Catalog[s].meets, b \in Catalog[t].meets :
          a.day # b.day \/ a.end <= b.start \/ b.end <= a.start
    BY <1>8 DEF Recommendable
  <2>2. \A a \in Catalog[s].meets, b \in Catalog[t].meets :
          a.start \in Nat /\ a.end \in Nat /\ b.start \in Nat /\ b.end \in Nat
    BY CatalogIsTyped
  <2> QED
    BY <2>1, <2>2 DEF ConflictsWith, Overlaps
<1>9. ASSUME NEW min, ~BelowMinimum(Credits(Q), min, order.minInclusive)
      PROVE  RejectionOf(Q, min) = {}
  <2>1. IssueCodes(Q, min) = {}
    BY <1>7, <1>8, <1>9 DEF IssueCodes
  <2> QED
    BY <1>3, <1>4, <2>1 DEF RejectionOf
<1>10. RejectionOf(Q, None) = {}
  BY <1>9 DEF BelowMinimum
<1> QED
  BY <1>3, <1>4, <1>5, <1>6, <1>8, <1>9, <1>10

\* No chosen class of a required course has fewer credits than the course's cheapest.
LEMMA CheapestCostsNoMore ==
  ASSUME NEW r, r.required \subseteq Sections, NEW R \in SUBSET r.required
  PROVE  \A c \in CoursesOf(R) : /\ Cheapest(r, c) \in Nat
                                 /\ \A s \in R : CourseOf(s) = c => Cheapest(r, c) <= Catalog[s].credit
<1> SUFFICES ASSUME NEW c \in CoursesOf(R)
             PROVE  /\ Cheapest(r, c) \in Nat
                    /\ \A s \in R : CourseOf(s) = c => Cheapest(r, c) <= Catalog[s].credit
  OBVIOUS
<1> DEFINE credits == {CreditOf(s) : s \in {t \in r.required : CourseOf(t) = c}}
<1>1. credits \in SUBSET Nat
  BY CatalogIsTyped DEF CreditOf
<1>2. \A s \in R : CourseOf(s) = c => Catalog[s].credit \in credits
  BY DEF CreditOf
<1>3. credits # {}
  BY <1>2 DEF CoursesOf
<1>4. Cheapest(r, c) = Min(credits)
  BY DEF Cheapest
<1> HIDE DEF credits
<1>5. Min(credits) \in Nat /\ \A k \in credits : Min(credits) <= k
  BY <1>1, <1>3, MinIsLeast
<1>6. ASSUME NEW s \in R, CourseOf(s) = c PROVE Cheapest(r, c) <= Catalog[s].credit
  <2>1. Catalog[s].credit \in credits
    BY <1>2, <1>6
  <2> QED
    BY <1>4, <1>5, <2>1
<1> QED
  BY <1>4, <1>5, <1>6

\* The cheapest classes of the chosen required courses have at most the chosen classes'
\* credits.
LEMMA CoursesAreAffordable ==
  ASSUME NEW r, r.required \subseteq Sections, NEW R \in SUBSET r.required, ~DuplicateCourse(R)
  PROVE  /\ SumFunction([c \in CoursesOf(R) |-> Cheapest(r, c)]) \in Nat
         /\ SumFunction([c \in CoursesOf(R) |-> Cheapest(r, c)]) <= Credits(R)
<1> DEFINE C == CoursesOf(R)
           w == [c \in C |-> Cheapest(r, c)]
           v == [s \in R |-> Catalog[s].credit]
           kind == [c \in C |-> CHOOSE s \in R : CourseOf(s) = c]
<1>0. R \in SUBSET Sections /\ IsFiniteSet(R) /\ IsFiniteSet(C)
  BY PartsAreFinite
<1>1. w \in [C -> Nat] /\ \A c \in C : w[c] = Cheapest(r, c)
  BY CheapestCostsNoMore
<1>2. \A c \in C : kind[c] \in R /\ CourseOf(kind[c]) = c
  BY DEF CoursesOf
<1>3. kind \in [C -> R] /\ \A c, d \in C : c # d => kind[c] # kind[d]
  BY <1>2
<1>4. v \in [R -> Nat] /\ \A s \in R : v[s] = CreditWeights[s] /\ v[s] = Catalog[s].credit
  BY <1>0, CatalogIsTyped DEF CreditWeights
<1> HIDE DEF kind
<1>5. \A c \in C : w[c] <= v[kind[c]]
  <2>1. ASSUME NEW c \in C PROVE w[c] <= v[kind[c]]
    <3>1. Cheapest(r, c) <= Catalog[kind[c]].credit
      BY <1>2, CheapestCostsNoMore
    <3>2. w[c] = Cheapest(r, c) /\ v[kind[c]] = Catalog[kind[c]].credit
      BY <1>1, <1>2, <1>4
    <3> QED
      BY <3>1, <3>2
  <2> QED
    BY <2>1
<1> HIDE DEF w, v, C
<1>6. w \in [C -> Int]
  BY <1>1
<1>7. PICK g : IsSum(w, g, C) /\ SumFunction(w) = g[C]
  BY <1>0, <1>6, FunctionsAreSummed
<1>8. PICK h : IsSum(v, h, R)
  BY <1>0, <1>4, SumExists
<1>9. PICK f : IsSum(CreditWeights, f, Sections)
  BY WeightsAreNumbers, SumExists
<1>10. h[R] = f[R]
  <2>1. \A T \in SUBSET R : h[T] = f[T]
    BY <1>0, <1>4, <1>8, <1>9, WeightsAreNumbers, SumsAgree
  <2> QED
    BY <2>1
<1>11. Credits(R) = f[R]
  BY <1>0, <1>9, CreditsAreSums
<1>12. g[C] <= h[R]
  <2>1. IsSum(w, g, C)
    BY <1>7
  <2> QED
    BY <1>0, <1>1, <1>3, <1>4, <1>5, <1>8, <2>1, SumIsBounded
<1>13. g[C] \in Nat
  <2>1. IsSum(w, g, C)
    BY <1>7
  <2>2. \A T \in SUBSET C : g[T] \in Nat
    BY <1>0, <1>1, <2>1, SumsAreNumbers
  <2> QED
    BY <2>2
<1>14. SumFunction(w) \in Nat /\ SumFunction(w) <= Credits(R)
  BY <1>7, <1>10, <1>11, <1>12, <1>13
<1> QED
  BY <1>14 DEF w, C

-----------------------------------------------------------------------------
(* A timetable as good as any admissible one is among what is tried *)

\* The choices of the two loops that end as a candidate.
Sought(R, G) ==
  /\ R \in RequiredParts(order)
  /\ G \in ElectiveParts(order, MostElectives(order, Credits(order.fixed \cup R)))
  /\ RejectionOf(order.fixed \cup R, None) = {}
  /\ RejectionOf(order.fixed \cup R \cup G, order.min) = {}
  /\ ~ViolatesHardConditions(order.fixed \cup R \cup G, order.hard)

StartsWell ==
  Valid(order.fixed, None, None, TRUE, order.max, order.maxInclusive) /\ ~ExceedsTarget(FixedCredits, order)

\* Every id is the name of a section of S, or of its course.
AllNamed(ids, S) == \A id \in ids : \E s \in S : id \in {s, CourseOf(s)}

\* So many electives, among them one for each name, are as good.
LEMMA NamedAreKept ==
  ASSUME order \in Orders, order.target = None, ~MoreNamedThanAsked(order),
         NEW F \in SUBSET Sections, NEW G \in SUBSET ElectivesOf(order), NEW k \in Nat,
         (IF order.count = None THEN 0 ELSE order.count) <= k, k < Cardinality(G),
         AllNamed(order.hard.required, F \cup G)
  PROVE  \E T \in SUBSET G : Cardinality(T) = k /\ AllNamed(order.hard.required, F \cup T)
<1> DEFINE ids == ElectivesByName(order)
           Names(s, id) == id \in {s, CourseOf(s)}
           D == {id \in ids : \E s \in G : Names(s, id)}
           pick == [id \in D |-> CHOOSE s \in G : Names(s, id)]
           W == {pick[id] : id \in D}
<1>1. IsFiniteSet(ids) /\ Cardinality(ids) \in Nat
  <2>1. ids \in SUBSET order.hard.required /\ IsFiniteSet(order.hard.required)
    BY OrdersAreTyped DEF ElectivesByName
  <2> QED
    BY <2>1, FS_Subset, FS_CardinalityType
<1>2. Cardinality(ids) <= k
  <2>1. Cardinality(ids) <= (IF order.count = None THEN 0 ELSE order.count)
    <3>1. (IF order.count = None THEN 0 ELSE order.count) \in Nat
      BY OrdersAreTyped
    <3> QED
      BY <1>1, <3>1 DEF MoreNamedThanAsked
  <2>2. (IF order.count = None THEN 0 ELSE order.count) \in Nat
    BY OrdersAreTyped
  <2> QED
    BY <1>1, <2>1, <2>2
<1>3. \A id \in D : pick[id] \in G /\ Names(pick[id], id)
  OBVIOUS
<1>4. D \in SUBSET ids
  OBVIOUS
<1>5. W \in SUBSET G /\ pick \in Surjection(D, W)
  <2>1. DOMAIN pick = D /\ pick = [id \in D |-> pick[id]]
    OBVIOUS
  <2> HIDE DEF pick, D
  <2>2. W \in SUBSET G
    BY <1>3
  <2> QED
    BY <2>1, <2>2 DEF Surjection
<1>6. \A id \in order.hard.required : (\E s \in G : Names(s, id)) => id \in D
  BY DEF ElectivesByName
<1> HIDE DEF ids, D, pick
<1>7. IsFiniteSet(D) /\ Cardinality(D) \in Nat /\ Cardinality(D) <= k
  <2>1. IsFiniteSet(D) /\ Cardinality(D) <= Cardinality(ids)
    BY <1>1, <1>4, FS_Subset
  <2>2. Cardinality(D) \in Nat
    BY <2>1, FS_CardinalityType
  <2> QED
    BY <1>1, <1>2, <2>1, <2>2
<1>8. \A id \in D : pick[id] \in W
  OBVIOUS
<1> HIDE DEF W
<1>9. Cardinality(W) \in Nat /\ Cardinality(W) <= k
  <2>1. IsFiniteSet(W) /\ Cardinality(W) <= Cardinality(D)
    BY <1>5, <1>7, FS_Surjection
  <2>2. Cardinality(W) \in Nat
    BY <2>1, FS_CardinalityType
  <2> QED
    BY <1>7, <2>1, <2>2
<1>10. IsFiniteSet(G) /\ Cardinality(G) \in Nat
  <2>1. G \in SUBSET Sections
    BY OrdersAreTyped DEF ElectivesOf
  <2> QED
    BY <2>1, PartsAreFinite
<1>11. PICK T \in SUBSET G : W \subseteq T /\ Cardinality(T) = k
  <2>1. k <= Cardinality(G)
    BY <1>10
  <2> QED
    BY <1>5, <1>9, <1>10, <2>1, SizesBetween
<1>12. ASSUME NEW id \in order.hard.required PROVE \E s \in F \cup T : Names(s, id)
  <2>1. CASE \E s \in F : Names(s, id)
    BY <2>1
  <2>2. CASE \E s \in G : Names(s, id)
    <3>1. id \in D
      BY <1>6, <2>2
    <3>2. pick[id] \in T /\ Names(pick[id], id)
      BY <1>3, <1>8, <1>11, <3>1
    <3> QED
      BY <3>2
  <2>3. \E s \in F \cup G : Names(s, id)
    BY DEF AllNamed
  <2> QED
    BY <2>1, <2>2, <2>3
<1>13. AllNamed(order.hard.required, F \cup T)
  BY <1>12 DEF AllNamed
<1> QED
  BY <1>11, <1>13

\* Without a target of credits, enough of the electives rank no worse than all of them.
LEMMA KeyOfPart ==
  ASSUME NEW r \in Orders, r.target = None, NEW F \in SUBSET Sections,
         NEW G \in SUBSET ElectivesOf(r), G \cap r.required = {}, NEW T \in SUBSET G,
         (IF r.count = None THEN 0 ELSE r.count) <= Cardinality(T)
  PROVE  ~KeyLess(ObjectiveKey(F \cup T, r), ObjectiveKey(F \cup G, r))
<1> DEFINE U == F \cup T
           S == F \cup G
           gap == ElectiveGap(S, r)
           a == Cardinality(RequiredIn(U, r))
           b == Credits(RequiredIn(U, r))
<1>0. G \in SUBSET Sections /\ G \subseteq r.electives
  BY OrdersAreTyped DEF ElectivesOf
<1>1. U \in SUBSET Sections /\ S \in SUBSET Sections /\ RequiredIn(U, r) \in SUBSET Sections
  BY <1>0 DEF RequiredIn
<1>2. RequiredIn(S, r) = RequiredIn(U, r)
  BY DEF RequiredIn
<1>3. a \in Nat /\ b \in Nat /\ gap \in Nat
  BY <1>1, PartsAreFinite, CreditsAreNumbers, ObjectiveKeysAreTyped
<1>4. ElectiveGap(U, r) = 0
  <2>1. CASE r.count = None
    BY <2>1 DEF ElectiveGap
  <2>2. CASE r.count # None
    <3>1. ElectivesIn(U, r) \in SUBSET Sections /\ T \subseteq ElectivesIn(U, r)
      BY <1>0, <1>1 DEF ElectivesIn
    <3>2. IsFiniteSet(ElectivesIn(U, r)) /\ Cardinality(ElectivesIn(U, r)) \in Nat
      BY <3>1, PartsAreFinite
    <3>3. Cardinality(T) <= Cardinality(ElectivesIn(U, r)) /\ Cardinality(T) \in Nat
      BY <3>1, <3>2, FS_Subset, FS_CardinalityType
    <3>4. r.count \in Nat /\ r.count <= Cardinality(T)
      BY <2>2, OrdersAreTyped
    <3>5. r.count - Cardinality(ElectivesIn(U, r)) <= 0 /\ r.count - Cardinality(ElectivesIn(U, r)) \in Int
      BY <3>2, <3>3, <3>4
    <3>6. PositivePart(r.count - Cardinality(ElectivesIn(U, r))) = 0
      BY <3>5 DEF PositivePart
    <3> QED
      BY <2>2, <3>6 DEF ElectiveGap
  <2> QED
    BY <2>1, <2>2
<1>5. CreditGap(U, r) = 0 /\ CreditGap(S, r) = 0
  BY DEF CreditGap
<1>6. ObjectiveKey(U, r) = <<a, b, -0, -0>>
  BY <1>4, <1>5 DEF ObjectiveKey
<1>7. ObjectiveKey(S, r) = <<a, b, -gap, -0>>
  BY <1>2, <1>5 DEF ObjectiveKey
<1> HIDE DEF a, b, gap, U, S
<1>8. ~KeyLess(<<a, b, -0, -0>>, <<a, b, -gap, -0>>)
  <2> DEFINE x == <<a, b, -0, -0>>
             y == <<a, b, -gap, -0>>
  <2>1. x[1] = y[1] /\ x[2] = y[2] /\ ~(x[3] < y[3]) /\ x[4] = y[4] /\ DOMAIN x = 1..4
    BY <1>3
  <2>2. x[1] \in Int /\ x[2] \in Int /\ x[3] \in Int /\ x[4] \in Int
    BY <1>3
  <2> HIDE DEF x, y
  <2>3. ~\E i \in DOMAIN x : x[i] < y[i]
    <3>1. \A i \in 1..4 : i = 1 \/ i = 2 \/ i = 3 \/ i = 4
      OBVIOUS
    <3> QED
      BY <2>1, <2>2, <3>1
  <2>4. ~KeyLess(x, y)
    BY <2>3 DEF KeyLess
  <2> QED
    BY <2>4 DEF x, y
<1>9. ~KeyLess(ObjectiveKey(U, r), ObjectiveKey(S, r))
  BY <1>6, <1>7, <1>8
<1> QED
  BY <1>9 DEF U, S

\* No key comes before itself.
LEMMA KeysAreIrreflexive ==
  ASSUME NEW r \in Orders, NEW S \in SUBSET Sections
  PROVE  ~KeyLess(ObjectiveKey(S, r), ObjectiveKey(S, r))
<1> DEFINE K == [1..4 -> Int]
           key == ObjectiveKey(S, r)
<1>1. key \in K /\ LinearlyOrders(KeysBefore(4), K)
  BY ObjectiveKeysAreTyped, KeysAreOrdered
<1>2. \A k \in K : <<k, k>> \in KeysBefore(4) <=> KeyLess(k, k)
  BY DEF KeysBefore
<1> HIDE DEF K, key
<1>3. <<key, key>> \notin KeysBefore(4)
  BY <1>1 DEF LinearlyOrders
<1>4. ~KeyLess(key, key)
  BY <1>1, <1>2, <1>3
<1> QED
  BY <1>4 DEF key

\* For every admissible timetable one that is sought ranks no worse.
LEMMA AsGoodIsSought ==
  ASSUME order \in Orders,
         ~TargetAsLimit(order), ~ElectivesUpToMinimum(order), ~MoreNamedThanAsked(order),
         NEW E \in SUBSET (order.required \cup ElectivesOf(order)),
         Recommendable(order, order.fixed \cup E),
         \A T \in SUBSET E : ~TravelIssue(order.fixed \cup T, None)
  PROVE  /\ StartsWell
         /\ \E R, G : /\ Sought(R, G)
                      /\ ~KeyLess(ObjectiveKey(order.fixed \cup R \cup G, order),
                                  ObjectiveKey(order.fixed \cup E, order))
<1> DEFINE fixed == order.fixed
           S == fixed \cup E
           R == (E \ fixed) \cap order.required
           G == (E \ fixed) \ order.required
           F == fixed \cup R
           base == Credits(F)
           most == MostElectives(order, base)
<1>0. /\ fixed \in SUBSET Sections /\ fixed # {} /\ order.required \subseteq Sections
      /\ ElectivesOf(order) \in SUBSET Sections
  BY OrdersAreTyped DEF ElectivesOf
<1>1. /\ S \in SUBSET Sections /\ R \in SUBSET order.required /\ R \in SUBSET Sections
      /\ G \in SUBSET ElectivesOf(order) /\ G \in SUBSET Sections /\ F \in SUBSET Sections
      /\ F \cup G = S /\ F \cap G = {} /\ fixed \cap R = {} /\ G \cap order.required = {}
      /\ R \in SUBSET E /\ G \in SUBSET E
  BY <1>0
<1>2. Timed(Meets(S)) /\ Listed(Meets(S)) /\ SectionsAreApart(S)
  <2>1. SectionsAreApart(S)
    BY DEF Recommendable, SectionsAreApart
  <2> QED
    BY <1>1, <2>1, ClassesAreListed
<1>3. \A T \in SUBSET G : ~TravelIssue(F \cup T, None)
  <2> SUFFICES ASSUME NEW T \in SUBSET G PROVE ~TravelIssue(F \cup T, None)
    OBVIOUS
  <2>1. R \cup T \in SUBSET E /\ F \cup T = fixed \cup (R \cup T)
    BY <1>1
  <2> QED
    BY <2>1
<1>4. ~TravelIssue(F, None) /\ ~TravelIssue(fixed, None)
  <2>1. R \in SUBSET E /\ {} \in SUBSET E /\ fixed \cup {} = fixed
    BY <1>1
  <2> QED
    BY <2>1
<1> HIDE DEF S, R, G, F
<1>5. Recommendable(order, S)
  BY DEF S
<1>6. StartsWell
  <2>1. fixed \in SUBSET S
    BY DEF S
  <2>2. /\ ~ExceedsTarget(Credits(fixed), order)
        /\ ~AboveMaximum(Credits(fixed), order.max, order.maxInclusive)
        /\ \A s, t \in fixed : s # t => ~ConflictsWith(s, t)
    BY <1>1, <1>4, <1>5, <2>1, PartIsPossible
  <2>3. ~BelowMinimum(Credits(fixed), None, TRUE)
    BY DEF BelowMinimum
  <2> QED
    BY <1>4, <2>2, <2>3 DEF StartsWell, Valid, FixedCredits
<1>7. F \in SUBSET S /\ R \in SUBSET S
  BY <1>1 DEF F
<1>8. RejectionOf(F, None) = {} /\ ~DuplicateCourse(R)
  <2>1. RejectionOf(F, None) = {} /\ ~DuplicateCourse(F)
    BY <1>1, <1>4, <1>5, <1>7, PartIsPossible
  <2> QED
    BY <2>1 DEF DuplicateCourse, F
<1>9. R \in RequiredParts(order)
  <2> DEFINE sum == SumFunction([c \in CoursesOf(R) |-> Cheapest(order, c)])
  <2>1. sum \in Nat /\ sum <= Credits(R)
    BY <1>0, <1>1, <1>8, CoursesAreAffordable
  <2>2. Credits(F) = Credits(fixed) + Credits(R)
    BY <1>0, <1>1, CreditsAdd DEF F
  <2>3. Credits(fixed) \in Nat /\ Credits(R) \in Nat
    BY <1>0, <1>1, CreditsAreNumbers
  <2>4. CreditCeiling(order) # None => CreditCeiling(order) \in Nat /\ Credits(F) <= CreditCeiling(order)
    BY <1>1, <1>4, <1>5, <1>7, PartIsPossible, CeilingIsLeast
  <2> HIDE DEF sum
  <2>5. CreditCeiling(order) # None => Credits(fixed) + sum <= CreditCeiling(order)
    BY <2>1, <2>2, <2>3, <2>4
  <2>6. Affordable(order, R)
    BY <2>5 DEF Affordable, sum
  <2> QED
    BY <1>1, <1>8, <2>6 DEF RequiredParts
<1>10. base \in Nat /\ most \in Nat /\ Cardinality(G) \in Nat /\ Credits(S) = base + Credits(G) /\ Credits(S) \in Nat
  <2>1. base \in Nat /\ Cardinality(G) \in Nat /\ Credits(S) \in Nat
    BY <1>1, CreditsAreNumbers, PartsAreFinite
  <2>2. Credits(F \cup G) = base + Credits(G)
    BY <1>1, CreditsAdd
  <2> QED
    BY <1>1, <2>1, <2>2, MostIsNumber
<1>11. /\ order.max # None => Credits(S) < order.max \/ (order.maxInclusive /\ Credits(S) = order.max)
       /\ order.target # None => Credits(S) <= order.target
       /\ ~BelowMinimum(Credits(S), order.min, order.minInclusive)
  <2>1. order.min # None => order.min \in Nat
    BY OrdersAreTyped
  <2> QED
    BY <1>5, <1>10, <2>1 DEF Recommendable, CreditsAllowed, BelowMinimum
<1>12. HardConditionsHold(S, order.hard)
  BY <1>5 DEF Recommendable
<1> HIDE DEF base, most, fixed
<1>13. ASSUME NEW T \in SUBSET G, Cardinality(T) \in Nat, Cardinality(T) <= most,
              ~BelowMinimum(Credits(F \cup T), order.min, order.minInclusive),
              AllNamed(order.hard.required, F \cup T)
       PROVE  Sought(R, T)
  <2> DEFINE U == F \cup T
  <2>1. U \in SUBSET S /\ U \in SUBSET Sections /\ U # {} /\ T \in SUBSET ElectivesOf(order)
    BY <1>0, <1>1 DEF F
  <2>2. ~TravelIssue(U, None)
    BY <1>3
  <2> HIDE DEF U
  <2>3. ~BelowMinimum(Credits(U), order.min, order.minInclusive)
    BY <1>13 DEF U
  <2>4. RejectionOf(U, order.min) = {}
    BY <1>1, <1>5, <2>1, <2>2, <2>3, PartIsPossible
  <2>5. HardConditionsHold(U, order.hard)
    <3>1. \A id \in order.hard.required : \E s \in U : id \in {s, CourseOf(s)}
      BY <1>13 DEF U, AllNamed
    <3> QED
      BY <1>1, <1>2, <1>12, <2>1, <3>1, HardConditionsOfParts
  <2>6. Timed(Meets(U)) /\ Listed(Meets(U))
    <3>1. Meets(U) \subseteq Meets(S)
      BY <2>1 DEF Meets
    <3> QED
      BY <1>2, <3>1 DEF Timed, Listed
  <2>7. ~ViolatesHardConditions(U, order.hard)
    BY <2>1, <2>5, <2>6, HardConditionsAreEnough
  <2>8. T \in ElectiveParts(order, MostElectives(order, Credits(order.fixed \cup R)))
    BY <1>13, <2>1 DEF ElectiveParts, most, base, F, fixed
  <2>9. order.fixed \cup R = F /\ order.fixed \cup R \cup T = U
    BY DEF F, U, fixed
  <2> QED
    BY <1>8, <1>9, <2>4, <2>7, <2>8, <2>9 DEF Sought
<1>14. CASE Cardinality(G) <= most
  <2>1. AllNamed(order.hard.required, F \cup G)
    BY <1>1, <1>12 DEF HardConditionsHold, AllNamed
  <2>2. Sought(R, G)
    BY <1>1, <1>10, <1>11, <1>13, <1>14, <2>1
  <2>3. ~KeyLess(ObjectiveKey(S, order), ObjectiveKey(S, order))
    BY <1>1, KeysAreIrreflexive
  <2>4. order.fixed \cup R \cup G = S /\ order.fixed \cup E = S
    BY <1>1 DEF F, fixed, S
  <2> QED
    BY <1>6, <2>2, <2>3, <2>4
<1>15. CASE ~(Cardinality(G) <= most)
  <2>1. /\ most < Cardinality(G) /\ order.target = None
        /\ (IF order.count = None THEN 0 ELSE order.count) <= most
        /\ \A T \in SUBSET ElectivesOf(order) :
             Cardinality(T) = most /\ order.min # None
               => order.minInclusive /\ order.min <= base + Credits(T)
    BY <1>1, <1>10, <1>11, <1>15, MostIsEnough DEF most
  <2>2. AllNamed(order.hard.required, F \cup G)
    BY <1>1, <1>12 DEF HardConditionsHold, AllNamed
  <2>3. PICK T \in SUBSET G : Cardinality(T) = most /\ AllNamed(order.hard.required, F \cup T)
    <3>1. F \in SUBSET Sections /\ G \in SUBSET ElectivesOf(order) /\ most \in Nat
      BY <1>1, <1>10
    <3>2. (IF order.count = None THEN 0 ELSE order.count) <= most /\ most < Cardinality(G) /\ order.target = None
      BY <2>1
    <3> QED
      BY <2>2, <3>1, <3>2, NamedAreKept
  <2>4. T \in SUBSET ElectivesOf(order) /\ T \in SUBSET Sections /\ F \cap T = {}
    BY <1>1
  <2>5. Credits(F \cup T) = base + Credits(T) /\ Credits(T) \in Nat
    BY <1>1, <2>4, CreditsAdd, CreditsAreNumbers DEF base
  <2>6. ~BelowMinimum(Credits(F \cup T), order.min, order.minInclusive)
    <3>1. order.min # None => order.min \in Nat
      BY OrdersAreTyped
    <3> QED
      BY <1>10, <2>1, <2>3, <2>4, <2>5, <3>1 DEF BelowMinimum
  <2>7. Sought(R, T)
    BY <1>10, <1>13, <2>3, <2>6
  <2>8. ~KeyLess(ObjectiveKey(F \cup T, order), ObjectiveKey(F \cup G, order))
    BY <1>1, <2>1, <2>3, KeyOfPart
  <2>9. order.fixed \cup R \cup T = F \cup T /\ order.fixed \cup E = F \cup G
    BY <1>1 DEF F, fixed, S
  <2> QED
    BY <1>6, <2>7, <2>8, <2>9
<1> QED
  BY <1>14, <1>15

-----------------------------------------------------------------------------
(* Nothing that is sought is passed over *)

\* What is found, or will be tried.
Covered(R, G) ==
  \/ order.fixed \cup R \cup G \in ToSet(found)
  \/ phase \in {"required", "electives"} /\ R \in ToSet(choices)
  \/ phase = "electives" /\ R = chosen /\ G \in ToSet(groups)

\* The inductive invariant.
LegacyCovers ==
  /\ phase = "start" => found = <<>>
  /\ phase # "start" /\ StartsWell /\ ~truncated => \A R, G : Sought(R, G) => Covered(R, G)
  /\ phase = "done" =>
       \A S \in ToSet(found) : ~KeyLess(ObjectiveKey(found[1], order), ObjectiveKey(S, order))

\* Before the first request nothing is sought.
LEMMA LegacyCoversInit == LegacyRankInit => LegacyCovers
BY DEF LegacyRankInit, LegacyInit, LegacyCovers

\* What is sought depends on the request alone.
LEMMA SoughtStays ==
  ASSUME order' = order
  PROVE  (StartsWell' <=> StartsWell) /\ \A R, G : Sought(R, G)' <=> Sought(R, G)
<1>1. StartsWell' <=> StartsWell
  BY DEF StartsWell, FixedCredits
<1>2. ASSUME NEW R, NEW G PROVE Sought(R, G)' <=> Sought(R, G)
  <2>1. \A S, min : RejectionOf(S, min)' = RejectionOf(S, min)
    BY DEF RejectionOf, IssueCodes
  <2> QED
    BY <2>1 DEF Sought
<1> QED
  BY <1>1, <1>2

\* A member of a sequence is its head or in its tail.
LEMMA FirstOrLater ==
  ASSUME NEW T, NEW list \in Seq(T), list # <<>>, NEW x \in ToSet(list)
  PROVE  x = Head(list) \/ x \in ToSet(Tail(list))
<1>1. PICK i \in 1..Len(list) : list[i] = x
  BY DEF ToSet
<1>2. CASE i = 1
  BY <1>1, <1>2
<1>3. CASE i # 1
  <2>1. i - 1 \in 1..Len(Tail(list)) /\ Tail(list)[i - 1] = x
    BY <1>1, <1>3
  <2>2. DOMAIN Tail(list) = 1..Len(Tail(list))
    OBVIOUS
  <2> QED
    BY <2>1, <2>2 DEF ToSet
<1> QED
  BY <1>2, <1>3

\* What is covered by what was found stays so.
LEMMA FoundCovers ==
  ASSUME NEW R, NEW G, order.fixed \cup R \cup G \in ToSet(found), order' = order,
         ToSet(found) \subseteq ToSet(found')
  PROVE  Covered(R, G)'
BY DEF Covered

\* Starting a generation leaves every sought timetable to come.
LEMMA StartCovers ==
  ASSUME LegacySound, LegacyCovers, LegacyStart
  PROVE  LegacyCovers'
<1>1. phase = "start" /\ UNCHANGED <<order, chosen, groups, found, stats, truncated>> /\ order \in Orders
  BY DEF LegacyStart, LegacySound
<1>2. found' = <<>> /\ ToSet(found') = {}
  BY <1>1 DEF LegacyCovers, ToSet
<1>3. StartsWell' <=> StartsWell
  BY <1>1, SoughtStays
<1>4. CASE ~StartsWell
  <2>1. phase' # "start"
    BY DEF LegacyStart, LegacyRefuse
  <2> QED
    BY <1>2, <1>3, <1>4, <2>1 DEF LegacyCovers
<1>5. CASE StartsWell
  <2>1. phase' = "required" /\ choices' = RequiredChoices(order)
    BY <1>5 DEF LegacyStart, StartsWell
  <2>2. ToSet(choices') = RequiredParts(order)
    BY <1>1, <2>1, OrdersAreTyped, RequiredAreListed, ListedIs
  <2>3. ASSUME NEW R, NEW G, Sought(R, G)' PROVE Covered(R, G)'
    <3>1. Sought(R, G)
      BY <1>1, <2>3, SoughtStays
    <3>2. R \in ToSet(choices')
      BY <2>2, <3>1 DEF Sought
    <3> QED
      BY <2>1, <3>2 DEF Covered
  <2> QED
    BY <2>1, <2>3 DEF LegacyCovers
<1> QED
  BY <1>4, <1>5

\* Taking the next choice of required courses leaves its sought timetables to come.
LEMMA RequiredCovers ==
  ASSUME LegacySound, LegacyCovers, NextRequired
  PROVE  LegacyCovers'
<1>1. /\ phase = "required" /\ choices # <<>> /\ choices' = Tail(choices) /\ phase' \in {"required", "electives"}
      /\ UNCHANGED <<order, found, truncated, diagnostics>>
      /\ choices \in Seq(SUBSET order.required) /\ order \in Orders
  BY DEF NextRequired, LegacySound
<1>2. ASSUME StartsWell', ~truncated', NEW R, NEW G, Sought(R, G)' PROVE Covered(R, G)'
  <2>1. Sought(R, G) /\ StartsWell
    BY <1>1, <1>2, SoughtStays
  <2>2. Covered(R, G)
    BY <1>1, <1>2, <2>1 DEF LegacyCovers
  <2>3. CASE order.fixed \cup R \cup G \in ToSet(found)
    BY <1>1, <2>3, FoundCovers
  <2>4. CASE R \in ToSet(choices)
    <3>1. R = Head(choices) \/ R \in ToSet(Tail(choices))
      BY <1>1, <2>4, FirstOrLater
    <3>2. CASE R \in ToSet(Tail(choices))
      BY <1>1, <3>2 DEF Covered
    <3>3. CASE R = Head(choices)
      <4>1. RejectionOf(order.fixed \cup Head(choices), None) = {}
        BY <2>1, <3>3 DEF Sought
      <4>2. /\ phase' = "electives" /\ chosen' = R
            /\ groups' = ElectiveChoices(order, MostElectives(order, Credits(order.fixed \cup R)))
        BY <3>3, <4>1 DEF NextRequired
      <4>3. ToSet(groups') = ElectiveParts(order, MostElectives(order, Credits(order.fixed \cup R)))
        <5>1. order.electives \subseteq Sections
          BY <1>1, OrdersAreTyped
        <5> QED
          BY <4>2, <5>1, ElectivesAreListed, ListedIs
      <4>4. G \in ToSet(groups')
        BY <2>1, <4>3 DEF Sought
      <4> QED
        BY <4>2, <4>4 DEF Covered
    <3> QED
      BY <3>1, <3>2, <3>3
  <2> QED
    BY <1>1, <2>2, <2>3, <2>4 DEF Covered
<1> QED
  BY <1>1, <1>2 DEF LegacyCovers

\* A sought timetable whose group is tried is found.
LEMMA ElectivesCover ==
  ASSUME LegacySound, LegacyCovers, NextElectives
  PROVE  LegacyCovers'
<1> DEFINE S == order.fixed \cup chosen \cup Head(groups)
<1>1. /\ phase = "electives" /\ groups # <<>> /\ ~truncated /\ groups' = Tail(groups)
      /\ UNCHANGED <<order, phase, choices, chosen, diagnostics>>
      /\ groups \in Seq(SUBSET ElectivesOf(order)) /\ found \in Seq(SUBSET Sections)
  BY DEF NextElectives, LegacySound, Accepted
<1>2. found' = found \/ found' = Append(found, S)
  BY DEF NextElectives
<1>3. /\ RejectionOf(S, order.min) = {} /\ ~ViolatesHardConditions(S, order.hard) /\ ~Contains(found, S)
           => found' = Append(found, S)
  BY DEF NextElectives
<1>4. S \in SUBSET Sections
  BY <1>1, OrdersAreTyped DEF LegacySound, ElectivesOf
<1> HIDE DEF S
<1>5. ToSet(found) \subseteq ToSet(found') /\ (found' = Append(found, S) => S \in ToSet(found'))
  <2>1. CASE found' = found
    <3>1. found' = Append(found, S) => FALSE
      BY <1>1, <1>4, <2>1
    <3> QED
      BY <2>1, <3>1
  <2>2. CASE found' = Append(found, S)
    <3>1. /\ found' \in Seq(SUBSET Sections) /\ Len(found) \in Nat /\ Len(found') = Len(found) + 1
          /\ found'[Len(found) + 1] = S /\ \A i \in 1..Len(found) : found'[i] = found[i]
      BY <1>1, <1>4, <2>2
    <3>2. DOMAIN found = 1..Len(found) /\ DOMAIN found' = 1..(Len(found) + 1)
      BY <1>1, <3>1
    <3>3. \A T \in ToSet(found) : T \in ToSet(found')
      <4>1. \A i \in 1..Len(found) : i \in 1..(Len(found) + 1)
        BY <3>1
      <4> QED
        BY <3>1, <3>2, <4>1 DEF ToSet
    <3>4. S \in ToSet(found')
      <4>1. Len(found) + 1 \in 1..(Len(found) + 1)
        BY <3>1
      <4> QED
        BY <3>1, <3>2, <4>1 DEF ToSet
    <3> QED
      BY <3>3, <3>4
  <2> QED
    BY <1>2, <2>1, <2>2
<1>6. Contains(found, S) => S \in ToSet(found)
  BY <1>1 DEF Contains, ToSet
<1>7. ASSUME StartsWell', NEW R, NEW G, Sought(R, G)' PROVE Covered(R, G)'
  <2>1. Sought(R, G) /\ StartsWell
    BY <1>1, <1>7, SoughtStays
  <2>2. Covered(R, G)
    BY <1>1, <2>1 DEF LegacyCovers
  <2>3. CASE order.fixed \cup R \cup G \in ToSet(found)
    BY <1>1, <1>5, <2>3, FoundCovers
  <2>4. CASE R \in ToSet(choices)
    BY <1>1, <2>4 DEF Covered
  <2>5. CASE R = chosen /\ G \in ToSet(groups)
    <3>1. G = Head(groups) \/ G \in ToSet(Tail(groups))
      BY <1>1, <2>5, FirstOrLater
    <3>2. CASE G \in ToSet(Tail(groups))
      BY <1>1, <2>5, <3>2 DEF Covered
    <3>3. CASE G = Head(groups)
      <4>1. order.fixed \cup R \cup G = S
        BY <2>5, <3>3 DEF S
      <4>2. RejectionOf(S, order.min) = {} /\ ~ViolatesHardConditions(S, order.hard)
        BY <2>1, <4>1 DEF Sought
      <4>3. S \in ToSet(found')
        BY <1>3, <1>5, <1>6, <4>2
      <4> QED
        BY <1>1, <4>1, <4>3 DEF Covered
    <3> QED
      BY <3>1, <3>2, <3>3
  <2> QED
    BY <2>2, <2>3, <2>4, <2>5 DEF Covered
<1> QED
  BY <1>1, <1>7 DEF LegacyCovers

\* No member of the sorted list has a greater key than the first.
LEMMA FirstIsBest ==
  ASSUME NEW r \in Orders, NEW list \in Seq(SUBSET Sections), NEW sorted,
         KeepsSorted(sorted, list, 1..Len(list), [i \in 1..Len(list) |-> ObjectiveKey(list[i], r)],
                     Backwards(KeysBefore(4)))
  PROVE  \A S \in ToSet(sorted) : ~KeyLess(ObjectiveKey(sorted[1], r), ObjectiveKey(S, r))
<1> DEFINE I == 1..Len(list)
           key == [i \in I |-> ObjectiveKey(list[i], r)]
           Less == Backwards(KeysBefore(4))
           c == Len(list)
           K == [1..4 -> Int]
<1>1. KeepsSorted(sorted, list, I, key, Less)
  OBVIOUS
<1>2. c \in Nat /\ Cardinality(I) = c
  <2>1. \A d \in Nat : Cardinality(1..d) = d
    BY FS_Interval
  <2> QED
    BY <2>1
<1>3. \A i \in I : key[i] = ObjectiveKey(list[i], r) /\ key[i] \in K
  BY ObjectiveKeysAreTyped
<1>4. \A x, y \in K : <<y, x>> \notin Less => ~KeyLess(x, y)
  <2>1. LinearlyOrders(KeysBefore(4), K) /\ KeysBefore(4) \in SUBSET (K \X K)
    BY KeysAreOrdered DEF KeysBefore
  <2>2. \A x, y \in K : <<x, y>> \in KeysBefore(4) <=> KeyLess(x, y)
    BY DEF KeysBefore
  <2> HIDE DEF K
  <2>3. \A x, y \in K : <<y, x>> \in Backwards(KeysBefore(4)) <=> <<x, y>> \in KeysBefore(4)
    BY <2>1, BackwardsOrders
  <2> QED
    BY <2>2, <2>3
<1>5. sorted \in Seq(SUBSET Sections) /\ Len(sorted) = c
  <2> HIDE DEF key, Less
  <2>1. I \in SUBSET (1..Len(list))
    OBVIOUS
  <2> HIDE DEF I
  <2> QED
    BY <1>1, <1>2, <2>1, SortedListIs
<1> HIDE DEF I, key, Less, c, K
<1>6. PICK p \in [1..c -> I] :
        /\ \A k \in 1..c : sorted[k] = list[p[k]]
        /\ \A k, l \in 1..c : k < l => <<key[p[l]], key[p[k]]>> \notin Less
  BY <1>1, <1>2 DEF KeepsSorted
<1> SUFFICES ASSUME NEW S \in ToSet(sorted)
             PROVE  ~KeyLess(ObjectiveKey(sorted[1], r), ObjectiveKey(S, r))
  OBVIOUS
<1>7. PICK l \in 1..c : S = sorted[l]
  BY <1>5 DEF ToSet
<1>8. S \in SUBSET Sections
  BY <1>5, <1>7
<1>9. CASE l = 1
  BY <1>7, <1>8, <1>9, KeysAreIrreflexive
<1>10. CASE l # 1
  <2>1. 1 \in 1..c /\ 1 < l
    BY <1>2, <1>10
  <2>2. <<key[p[l]], key[p[1]]>> \notin Less
    BY <1>6, <2>1
  <2>3. p[l] \in I /\ p[1] \in I
    BY <1>6, <2>1
  <2>4. /\ key[p[l]] = ObjectiveKey(S, r) /\ key[p[1]] = ObjectiveKey(sorted[1], r)
        /\ key[p[l]] \in K /\ key[p[1]] \in K
    BY <1>3, <1>6, <1>7, <2>1, <2>3
  <2> QED
    BY <1>4, <2>2, <2>4
<1> QED
  BY <1>9, <1>10

\* A generation that ends without being truncated has found all that is sought, best
\* first.
LEMMA FinishCovers ==
  ASSUME LegacySound, LegacyCovers, LegacyFinish, UNCHANGED <<wish, template, ranked>>
  PROVE  LegacyCovers'
<1>1. /\ phase # "start" /\ phase' = "done" /\ UNCHANGED <<order, choices, chosen, groups, stats, truncated>>
      /\ (~truncated => phase = "required" /\ choices = <<>>)
      /\ order \in Orders /\ found \in Seq(SUBSET Sections) /\ Len(found) \in Nat
  <2>1. /\ (phase = "required" /\ choices = <<>>) \/ (phase = "electives" /\ truncated)
        /\ phase' = "done" /\ UNCHANGED <<order, choices, chosen, groups, stats, truncated>>
        /\ found' = SortedBy(found, LAMBDA S : ObjectiveKey(S, order), LAMBDA k, l : KeyLess(l, k))
    BY DEF LegacyFinish
  <2>2. (phase = "required" /\ choices = <<>>) \/ (phase = "electives" /\ truncated)
    BY <2>1, Zenon
  <2>3. phase' = "done" /\ UNCHANGED <<order, choices, chosen, groups, stats, truncated>>
    BY <2>1, Zenon
  <2>4. order \in Orders /\ found \in Seq(SUBSET Sections) /\ Len(found) \in Nat
    BY DEF LegacySound, Accepted
  <2> QED
    BY <2>2, <2>3, <2>4
<1>2. ToSet(found') = ToSet(found)
  BY FinishIsSound
<1>3. ASSUME StartsWell', ~truncated', NEW R, NEW G, Sought(R, G)' PROVE Covered(R, G)'
  <2>1. Sought(R, G) /\ StartsWell
    BY <1>1, <1>3, SoughtStays
  <2>2. phase = "required" /\ choices = <<>>
    BY <1>1, <1>3
  <2>3. Covered(R, G)
    BY <1>1, <1>3, <2>1, <2>2 DEF LegacyCovers
  <2>4. order.fixed \cup R \cup G \in ToSet(found)
    BY <2>2, <2>3 DEF Covered, ToSet
  <2> QED
    BY <1>1, <1>2, <2>4, FoundCovers
<1>4. \A S \in ToSet(found') : ~KeyLess(ObjectiveKey(found'[1], order), ObjectiveKey(S, order))
  <2>1. /\ phase # "done" /\ phase' = "done" /\ UNCHANGED <<order, choices, chosen, groups, stats, truncated>>
        /\ found' = SortedBy(found, LAMBDA S : ObjectiveKey(S, order), LAMBDA k, l : KeyLess(l, k))
    BY DEF LegacyFinish
  <2> DEFINE I == 1..Len(found)
             key == [i \in I |-> ObjectiveKey(found[i], order)]
  <2>2. KeepsSorted(found', found, I, key, Backwards(KeysBefore(4)))
    BY <1>1, <2>1, BestComeFirst
  <2>3. KeepsSorted(found', found, 1..Len(found), [i \in 1..Len(found) |-> ObjectiveKey(found[i], order)],
                    Backwards(KeysBefore(4)))
          => \A S \in ToSet(found') : ~KeyLess(ObjectiveKey(found'[1], order), ObjectiveKey(S, order))
    BY <1>1, FirstIsBest
  <2> QED
    BY <2>2, <2>3, Zenon
<1>5. \A S \in ToSet(found') : ~KeyLess(ObjectiveKey(found'[1], order'), ObjectiveKey(S, order'))
  BY <1>1, <1>4
<1> QED
  BY <1>1, <1>3, <1>5 DEF LegacyCovers

\* A step that leaves the generator alone keeps what is covered.
LEMMA LegacyCoversStays ==
  ASSUME LegacyCovers, UNCHANGED <<order, phase, choices, chosen, groups, found, truncated>>
  PROVE  LegacyCovers'
<1>1. ASSUME NEW R, NEW G, Sought(R, G)', Covered(R, G) PROVE Covered(R, G)'
  BY <1>1 DEF Covered
<1>2. \A R, G : Sought(R, G)' <=> Sought(R, G)
  BY SoughtStays
<1>3. StartsWell' <=> StartsWell
  BY SoughtStays
<1> QED
  BY <1>1, <1>2, <1>3 DEF LegacyCovers

\* No step loses a sought timetable.
LEMMA LegacyCoversNext ==
  LegacySound /\ LegacyCovers /\ [LegacyRankNext]_legacyRankVars => LegacyCovers'
<1> SUFFICES ASSUME LegacySound, LegacyCovers, [LegacyRankNext]_legacyRankVars PROVE LegacyCovers'
  OBVIOUS
<1>1. CASE LegacyStart
  BY <1>1, StartCovers
<1>2. CASE NextRequired
  BY <1>2, RequiredCovers
<1>3. CASE NextElectives
  BY <1>3, ElectivesCover
<1>4. CASE NoElectivesLeft
  <2>1. /\ phase = "electives" /\ groups = <<>> /\ phase' = "required" /\ ~truncated
        /\ UNCHANGED <<order, choices, chosen, groups, found, truncated>>
    BY <1>4 DEF NoElectivesLeft
  <2>2. ASSUME StartsWell', NEW R, NEW G, Sought(R, G)' PROVE Covered(R, G)'
    <3>1. Sought(R, G) /\ StartsWell
      BY <2>1, <2>2, SoughtStays
    <3>2. Covered(R, G)
      BY <2>1, <3>1 DEF LegacyCovers
    <3> QED
      BY <2>1, <3>2 DEF Covered, ToSet
  <2> QED
    BY <2>1, <2>2 DEF LegacyCovers
<1>5. CASE LegacyFinish /\ UNCHANGED <<wish, template, ranked>>
  BY <1>5, FinishCovers
<1>6. CASE UNCHANGED legacyVars
  BY <1>6, LegacyCoversStays DEF legacyVars
<1>7. CASE ChooseRanking \/ LegacyRank \/ UNCHANGED legacyRankVars
  BY <1>6, <1>7 DEF ChooseRanking, LegacyRank, legacyRankVars
<1> QED
  BY <1>1, <1>2, <1>3, <1>4, <1>5, <1>7 DEF LegacyRankNext, LegacyNext

\* What is no better than what is no better is no better.
LEMMA KeysAreTransitive ==
  ASSUME NEW r \in Orders, NEW S \in SUBSET Sections, NEW T \in SUBSET Sections, NEW U \in SUBSET Sections,
         ~KeyLess(ObjectiveKey(S, r), ObjectiveKey(T, r)),
         ~KeyLess(ObjectiveKey(T, r), ObjectiveKey(U, r))
  PROVE  ~KeyLess(ObjectiveKey(S, r), ObjectiveKey(U, r))
<1> DEFINE K == [1..4 -> Int]
           Before == KeysBefore(4)
           s == ObjectiveKey(S, r)
           t == ObjectiveKey(T, r)
           u == ObjectiveKey(U, r)
<1>1. s \in K /\ t \in K /\ u \in K /\ LinearlyOrders(Before, K)
  BY ObjectiveKeysAreTyped, KeysAreOrdered
<1>2. \A k, l \in K : <<k, l>> \in Before <=> KeyLess(k, l)
  BY DEF KeysBefore
<1>3. ~KeyLess(s, t) /\ ~KeyLess(t, u)
  OBVIOUS
<1> HIDE DEF K, Before, s, t, u
<1>4. <<s, t>> \notin Before /\ <<t, u>> \notin Before
  BY <1>1, <1>2, <1>3
<1>5. (s # t => <<t, s>> \in Before) /\ (t # u => <<u, t>> \in Before)
  BY <1>1, <1>4 DEF LinearlyOrders
<1>6. ASSUME <<s, u>> \in Before PROVE FALSE
  <2>1. \A x, y, z \in K : <<x, y>> \in Before /\ <<y, z>> \in Before => <<x, z>> \in Before
    BY <1>1 DEF LinearlyOrders
  <2>2. t # u => <<s, t>> \in Before
    BY <1>1, <1>5, <1>6, <2>1
  <2> QED
    BY <1>4, <1>6, <2>2
<1>7. ~KeyLess(s, u)
  BY <1>1, <1>2, <1>6
<1> QED
  BY <1>7 DEF s, u

\* When all that is sought is found, nothing admissible is better than the first.
LEMMA CoveredIsBest == LegacySound /\ LegacyCovers => BestIsFound
<1> SUFFICES ASSUME LegacySound, LegacyCovers, phase = "done", ~truncated,
                    ~TargetAsLimit(order), ~ElectivesUpToMinimum(order), ~MoreNamedThanAsked(order),
                    NEW E \in SUBSET (order.required \cup ElectivesOf(order)),
                    Recommendable(order, order.fixed \cup E),
                    \A T \in SUBSET E : ~TravelIssue(order.fixed \cup T, None)
             PROVE  /\ found # <<>>
                    /\ ~KeyLess(ObjectiveKey(found[1], order), ObjectiveKey(order.fixed \cup E, order))
  BY DEF BestIsFound
<1>1. order \in Orders /\ found \in Seq(SUBSET Sections)
  BY DEF LegacySound, Accepted
<1>2. StartsWell
  BY <1>1, AsGoodIsSought
<1>3. PICK R, G : /\ Sought(R, G)
                  /\ ~KeyLess(ObjectiveKey(order.fixed \cup R \cup G, order),
                              ObjectiveKey(order.fixed \cup E, order))
  BY <1>1, AsGoodIsSought
<1> DEFINE T == order.fixed \cup R \cup G
           S == order.fixed \cup E
<1>4. T \in ToSet(found)
  BY <1>2, <1>3 DEF LegacyCovers, Covered
<1>5. ~KeyLess(ObjectiveKey(found[1], order), ObjectiveKey(T, order))
  BY <1>4 DEF LegacyCovers
<1>6. S \in SUBSET Sections
  BY <1>1, OrdersAreTyped DEF ElectivesOf
<1>7. ~KeyLess(ObjectiveKey(T, order), ObjectiveKey(S, order))
  BY <1>3
<1> HIDE DEF T, S
<1>8. T \in SUBSET Sections /\ found # <<>> /\ found[1] \in SUBSET Sections
  <2>1. PICK i \in 1..Len(found) : found[i] = T
    BY <1>1, <1>4 DEF ToSet
  <2>2. 1 \in 1..Len(found)
    BY <1>1, <2>1
  <2> QED
    BY <1>1, <2>1, <2>2
<1>9. ~KeyLess(ObjectiveKey(found[1], order), ObjectiveKey(S, order))
  BY <1>1, <1>5, <1>6, <1>7, <1>8, KeysAreTransitive
<1> QED
  BY <1>8, <1>9 DEF S

\* A generation that was not truncated puts first a timetable that no admissible one
\* is better than (_required_group_combinations, _elective_sizes and the sort of
\* generate_detailed), for any catalog and any request without the shortcomings the
\* property names.
THEOREM BestAreFound == LegacyRankSpec => []BestIsFound
<1>1. LegacyRankInit => LegacySound /\ LegacyCovers
  BY LegacySoundInit, LegacyCoversInit
<1>2. LegacySound /\ LegacyCovers /\ [LegacyRankNext]_legacyRankVars => (LegacySound /\ LegacyCovers)'
  BY LegacySoundNext, LegacyCoversNext
<1>3. LegacySound /\ LegacyCovers => BestIsFound
  BY CoveredIsBest
<1> QED
  BY <1>1, <1>2, <1>3, PTL DEF LegacyRankSpec
-----------------------------------------------------------------------------
(* The generator comes to an end *)

LegacyStage(p) == CASE p = "start" -> 2 [] p = "done" -> 0 [] OTHER -> 1
Inner(p) == IF p = "electives" THEN 1 ELSE 0

\* What is left to do: the stages, the choices of the outer loop, the groups of the
\* inner one, and the return from the inner to the outer.
LegacyLeft == <<LegacyStage(phase), Len(choices), Len(groups), Inner(phase)>>

\* Each step of the generator leaves less to do.
LegacyRunsDown == [][LegacyNext => KeyLess(LegacyLeft', LegacyLeft)]_legacyRankVars

\* What is left to do is counted by natural numbers.
LEMMA LegacyLeftIsTyped ==
  LegacySound => /\ LegacyLeft \in [1..4 -> Nat]
                 /\ LegacyStage(phase) \in Int /\ Inner(phase) \in Int
                 /\ Len(choices) \in Nat /\ Len(groups) \in Nat
<1> SUFFICES ASSUME LegacySound
             PROVE  /\ LegacyLeft \in [1..4 -> Nat]
                    /\ LegacyStage(phase) \in Int /\ Inner(phase) \in Int
                    /\ Len(choices) \in Nat /\ Len(groups) \in Nat
  OBVIOUS
<1>1. Len(choices) \in Nat /\ Len(groups) \in Nat
  BY DEF LegacySound
<1>2. LegacyStage(phase) \in Nat /\ Inner(phase) \in Nat
  BY DEF LegacyStage, Inner
<1>3. \A a, b, c, d \in Nat : <<a, b, c, d>> \in [1..4 -> Nat]
  OBVIOUS
<1> QED
  BY <1>1, <1>2, <1>3 DEF LegacyLeft

\* What a step may do to leave less to do.
LEMMA LegacyFalls ==
  ASSUME LegacySound, LegacySound',
         \/ LegacyStage(phase') < LegacyStage(phase)
         \/ LegacyStage(phase') = LegacyStage(phase) /\ Len(choices') < Len(choices)
         \/ LegacyStage(phase') = LegacyStage(phase) /\ choices' = choices /\ Len(groups') < Len(groups)
         \/ /\ LegacyStage(phase') = LegacyStage(phase) /\ choices' = choices /\ groups' = groups
            /\ Inner(phase') < Inner(phase)
  PROVE  KeyLess(LegacyLeft', LegacyLeft)
<1>1. /\ LegacyStage(phase) \in Int /\ Inner(phase) \in Int
      /\ Len(choices) \in Int /\ Len(groups) \in Int
  BY LegacyLeftIsTyped
<1>2. Len(choices') \in Int /\ Len(groups') \in Int
  BY DEF LegacySound
<1>3. LegacyStage(phase') \in Int /\ Inner(phase') \in Int
  BY DEF LegacyStage, Inner
<1>4. KeyLess(<<LegacyStage(phase'), Len(choices'), Len(groups'), Inner(phase')>>,
              <<LegacyStage(phase), Len(choices), Len(groups), Inner(phase)>>)
  BY <1>1, <1>2, <1>3, KeyFalls
<1> QED
  BY <1>4 DEF LegacyLeft

\* The tail of a sequence is shorter.
LEMMA TailsAreShorter ==
  ASSUME NEW T, NEW q \in Seq(T), q # <<>>
  PROVE  Len(Tail(q)) < Len(q)
OBVIOUS

\* Each step of the generator leaves less to do.
LEMMA LegacyStepsFall ==
  ASSUME LegacySound, LegacySound', LegacyNext
  PROVE  KeyLess(LegacyLeft', LegacyLeft)
<1>1. CASE LegacyStart
  <2>1. phase = "start" /\ phase' \in {"required", "done"}
    BY <1>1 DEF LegacyStart, LegacyRefuse
  <2>2. LegacyStage(phase') < LegacyStage(phase)
    BY <2>1 DEF LegacyStage
  <2> QED
    BY <2>2, LegacyFalls
<1>2. CASE NextRequired
  <2>1. /\ phase = "required" /\ phase' \in {"required", "electives"}
        /\ choices # <<>> /\ choices' = Tail(choices)
    BY <1>2 DEF NextRequired
  <2>2. LegacyStage(phase') = LegacyStage(phase)
    BY <2>1 DEF LegacyStage
  <2>3. Len(choices') < Len(choices)
    BY <2>1, TailsAreShorter DEF LegacySound
  <2> QED
    BY <2>2, <2>3, LegacyFalls
<1>3. CASE NextElectives
  <2>1. phase' = phase /\ choices' = choices /\ groups # <<>> /\ groups' = Tail(groups)
    BY <1>3 DEF NextElectives
  <2>2. Len(groups') < Len(groups)
    BY <2>1, TailsAreShorter DEF LegacySound
  <2> QED
    BY <2>1, <2>2, LegacyFalls
<1>4. CASE NoElectivesLeft
  <2>1. /\ phase = "electives" /\ phase' = "required"
        /\ choices' = choices /\ groups' = groups
    BY <1>4 DEF NoElectivesLeft
  <2>2. LegacyStage(phase') = LegacyStage(phase) /\ Inner(phase') < Inner(phase)
    BY <2>1 DEF LegacyStage, Inner
  <2> QED
    BY <2>1, <2>2, LegacyFalls
<1>5. CASE LegacyFinish
  <2>1. phase \in {"required", "electives"} /\ phase' = "done"
    <3>1. /\ (phase = "required" /\ choices = <<>>) \/ (phase = "electives" /\ truncated)
          /\ phase' = "done"
          /\ found' = SortedBy(found, LAMBDA S : ObjectiveKey(S, order), LAMBDA k, l : KeyLess(l, k))
      BY <1>5 DEF LegacyFinish
    <3>2. (phase = "required" \/ phase = "electives") /\ phase' = "done"
      BY <3>1, Zenon
    <3> QED
      BY <3>2
  <2>2. LegacyStage(phase') < LegacyStage(phase)
    BY <2>1 DEF LegacyStage
  <2> QED
    BY <2>2, LegacyFalls
<1> QED
  BY <1>1, <1>2, <1>3, <1>4, <1>5 DEF LegacyNext

\* The legacy generator answers after finitely many steps: its two loops run over
\* finite lists, and each pass takes one item off (generate_detailed).
THEOREM LegacyComesToAnEnd == LegacyRankSpec => [](LegacyLeft \in [1..4 -> Nat]) /\ LegacyRunsDown
<1>1. LegacySound => LegacyLeft \in [1..4 -> Nat]
  BY LegacyLeftIsTyped
<1>2. LegacySound /\ LegacySound' /\ [LegacyRankNext]_legacyRankVars =>
        [LegacyNext => KeyLess(LegacyLeft', LegacyLeft)]_legacyRankVars
  BY LegacyStepsFall
<1> QED
  BY <1>1, <1>2, LegacySoundInit, LegacySoundNext, PTL DEF LegacyRankSpec, LegacyRunsDown

=============================================================================
