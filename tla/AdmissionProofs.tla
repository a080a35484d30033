--------------------------- MODULE AdmissionProofs ---------------------------
(***************************************************************************)
(* Proofs about the search for the companions of a wave, for every         *)
(* admission problem and every limit of the search, in the vocabulary of   *)
(* AdmissionInvariant.                                                     *)
(*                                                                         *)
(* First the operators: induction with the hypothesis as a set, sums over  *)
(* finite sets, lexicographic order, sorting.  Then partial waves (Sound), *)
(* bounds, the greedy wave, the invariant of the search (SearchInv) and    *)
(* what follows from it; the distribution of the tokens (TopUp) and the    *)
(* greedy walk, which the search can always follow (InStep).  Last that    *)
(* the bounds admit every completion (Honest, KeptInv) and that no wave    *)
(* that may run is lost on the way to the certificate (CoverInv).          *)
(***************************************************************************)
EXTENDS AdmissionInvariant, FiniteSetTheorems, SequenceTheorems, TLAPS

-----------------------------------------------------------------------------

(* Induction, with the hypothesis as a set *)

\* Induction over the naturals, the hypothesis given as a set.
LEMMA Induct ==
  ASSUME NEW X, 0 \in X, \A n \in Nat : n \in X => n + 1 \in X
  PROVE  \A n \in Nat : n \in X
<1> SUFFICES ASSUME NEW n \in Nat, n \notin X PROVE FALSE OBVIOUS
<1> DEFINE T == Nat \ X
<1>1. T \subseteq Nat /\ T # {} OBVIOUS
<1>2. PICK m \in T : \A k \in T : ~(<<k, m>> \in OpToRel(<, Nat))
  BY <1>1, NatLessThanWellFounded, WFMin
<1>3. m # 0 /\ m \in Nat OBVIOUS
<1>4. m - 1 \in Nat /\ <<m - 1, m>> \in OpToRel(<, Nat) BY <1>3 DEF OpToRel
<1>5. m - 1 \in X BY <1>2, <1>4
<1>6. (m - 1) + 1 = m BY <1>3
<1> QED BY <1>4, <1>5, <1>6

\* Finite sets, one element at a time.
LEMMA InductOnSets ==
  ASSUME NEW S, IsFiniteSet(S), NEW X, {} \in X,
         \A T \in SUBSET S : \A x \in S \ T : T \in X => T \cup {x} \in X
  PROVE  S \in X
<1> DEFINE N == {n \in Nat : \A T \in SUBSET S : Cardinality(T) = n => T \in X}
<1>1. \A T \in SUBSET S : IsFiniteSet(T) /\ Cardinality(T) \in Nat
  BY FS_Subset, FS_CardinalityType
<1>2. 0 \in N BY <1>1, FS_EmptySet
<1>3. ASSUME NEW n \in Nat, n \in N PROVE n + 1 \in N
  <2> SUFFICES ASSUME NEW T \in SUBSET S, Cardinality(T) = n + 1 PROVE T \in X OBVIOUS
  <2>1. T # {} BY FS_EmptySet
  <2>2. PICK x \in T : TRUE BY <2>1
  <2>3. IsFiniteSet(T) /\ Cardinality(T \ {x}) = n
    <3>1. IsFiniteSet(T) BY <1>1
    <3> QED
      <4>1. Cardinality(T \ {x}) = Cardinality(T) - 1 BY <3>1, <2>2, FS_RemoveElement
      <4> QED BY <3>1, <4>1
  <2>4. T \ {x} \in X BY <1>3, <2>3
  <2>5. T = (T \ {x}) \cup {x} OBVIOUS
  <2> QED BY <2>2, <2>4, <2>5
<1>4. \A n \in Nat : n \in N
  <2> HIDE DEF N
  <2> QED BY <1>2, <1>3, Induct
<1> QED BY <1>1, <1>4

-----------------------------------------------------------------------------

(* Sums *)

\* The library's sum is the last value of the recursive function Sums.
LEMMA SumOfSums ==
  ASSUME NEW f, NEW S
  PROVE  SumFunctionOnSet(f, S) = Sums(f, S)[S]
  BY DEF SumFunctionOnSet, FoldFunctionOnSet, MapThenFoldSet, Sums, Some

\* That function exists, and obeys its recursive equation.
LEMMA SumsExist ==
  ASSUME NEW S, IsFiniteSet(S), NEW f, \A x \in S : f[x] \in Int
  PROVE  /\ Sums(f, S) \in [SUBSET S -> Int]
         /\ \A s \in SUBSET S : Sums(f, S)[s] =
              IF s = {} THEN 0 ELSE f[Some(s)] + Sums(f, S)[s \ {Some(s)}]
<1> DEFINE D(n) == {s \in SUBSET S : Cardinality(s) <= n}
           Step(g, s) == IF s = {} THEN 0 ELSE f[Some(s)] + g[s \ {Some(s)}]
           N == {n \in Nat : \E g \in [D(n) -> Int] : \A s \in D(n) : g[s] = Step(g, s)}
<1>1. \A s \in SUBSET S : IsFiniteSet(s) /\ Cardinality(s) \in Nat
  BY FS_Subset, FS_CardinalityType
<1>2. \A s \in SUBSET S : s # {} => /\ Some(s) \in s
                                    /\ Cardinality(s \ {Some(s)}) = Cardinality(s) - 1
  BY <1>1, FS_RemoveElement DEF Some
<1>3. 0 \in N
  <2>1. \A s \in D(0) : s = {} BY <1>1, FS_EmptySet
  <2>2. [s \in D(0) |-> 0] \in [D(0) -> Int] OBVIOUS
  <2>3. \A s \in D(0) : [t \in D(0) |-> 0][s] = Step([t \in D(0) |-> 0], s) BY <2>1
  <2> QED BY <2>2, <2>3
<1>4. ASSUME NEW n \in Nat, n \in N PROVE n + 1 \in N
  <2>1. PICK g \in [D(n) -> Int] : \A s \in D(n) : g[s] = Step(g, s) BY <1>4
  <2> DEFINE h == [s \in D(n + 1) |-> Step(g, s)]
  <2>2. D(n) \subseteq D(n + 1) BY <1>1
  <2>3. \A s \in D(n + 1) : s # {} => s \ {Some(s)} \in D(n) /\ Some(s) \in S BY <1>1, <1>2
  <2>4. h \in [D(n + 1) -> Int] BY <2>1, <2>3
  <2>5. \A s \in D(n) : h[s] = g[s] BY <2>1, <2>2
  <2>6. \A s \in D(n + 1) : h[s] = Step(h, s) BY <2>3, <2>5
  <2>7. n + 1 \in Nat OBVIOUS
  <2> HIDE DEF h
  <2> QED BY <2>4, <2>6, <2>7
<1>5. Cardinality(S) \in N
  <2> HIDE DEF N
  <2> QED BY <1>1, <1>3, <1>4, Induct
<1>6. D(Cardinality(S)) = SUBSET S BY <1>1, FS_Subset
<1>7. PICK g \in [SUBSET S -> Int] : \A s \in SUBSET S : g[s] = Step(g, s) BY <1>5, <1>6
<1>8. g = [s \in SUBSET S |-> Step(g, s)] BY <1>7
<1> DEFINE k == Sums(f, S)
<1>9. k = [s \in SUBSET S |-> Step(k, s)] BY <1>8 DEF Sums
<1>10. \A s \in SUBSET S : k[s] = Step(k, s) BY <1>9
<1> DEFINE M == {n \in Nat : \A s \in SUBSET S : Cardinality(s) <= n => k[s] \in Int}
<1>11. 0 \in M
  <2> HIDE DEF k
  <2> SUFFICES ASSUME NEW s \in SUBSET S, Cardinality(s) <= 0 PROVE k[s] \in Int OBVIOUS
  <2>1. s = {} BY <1>1, FS_EmptySet
  <2>2. k[s] = IF s = {} THEN 0 ELSE f[Some(s)] + k[s \ {Some(s)}] BY <1>10, Zenon
  <2> QED BY <2>1, <2>2
<1>12. ASSUME NEW n \in Nat, n \in M PROVE n + 1 \in M
  <2> HIDE DEF k
  <2> SUFFICES ASSUME NEW s \in SUBSET S, Cardinality(s) <= n + 1, s # {}
               PROVE  k[s] \in Int
    <3>1. \A s \in SUBSET S : Cardinality(s) <= n + 1 /\ s # {} => k[s] \in Int OBVIOUS
    <3>2. {} \in SUBSET S /\ Cardinality({}) <= n BY FS_EmptySet
    <3>3. k[{}] \in Int BY <1>12, <3>2
    <3>4. \A s \in SUBSET S : Cardinality(s) <= n + 1 => k[s] \in Int BY <3>1, <3>3
    <3> QED BY <3>4
  <2>0. k[s] = f[Some(s)] + k[s \ {Some(s)}] BY <1>10
  <2>1. Some(s) \in S /\ s \ {Some(s)} \in SUBSET S /\ Cardinality(s \ {Some(s)}) <= n
    BY <1>1, <1>2
  <2> QED BY <1>12, <2>0, <2>1
<1>13. \A s \in SUBSET S : k[s] \in Int
  <2>1. Cardinality(S) \in M
    <3> HIDE DEF M
    <3> QED BY <1>1, <1>11, <1>12, Induct
  <2> HIDE DEF k
  <2> QED BY <2>1, <1>1, FS_Subset
<1> QED
  <2>1. k \in [SUBSET S -> Int]
    <3> HIDE DEF k
    <3> QED BY <1>9, <1>13
  <2> QED BY <1>10, <2>1

\* Any element may be taken first.
LEMMA SumsStep ==
  ASSUME NEW S, IsFiniteSet(S), NEW f, \A x \in S : f[x] \in Int,
         NEW s \in SUBSET S, NEW x \in s
  PROVE  Sums(f, S)[s] = f[x] + Sums(f, S)[s \ {x}]
<1> DEFINE G == Sums(f, S)
           N == {n \in Nat : \A t \in SUBSET S : Cardinality(t) = n =>
                               \A y \in t : G[t] = f[y] + G[t \ {y}]}
<1>1. \A t \in SUBSET S : IsFiniteSet(t) /\ Cardinality(t) \in Nat /\ G[t] \in Int
  BY SumsExist, FS_Subset, FS_CardinalityType
<1>2. ASSUME NEW t \in SUBSET S, t # {}
      PROVE  Some(t) \in t /\ G[t] = f[Some(t)] + G[t \ {Some(t)}]
  <2>1. G[t] = IF t = {} THEN 0 ELSE f[Some(t)] + G[t \ {Some(t)}] BY SumsExist, Zenon
  <2> HIDE DEF G
  <2> QED BY <1>2, <2>1 DEF Some
<1> HIDE DEF G
<1>3. 0 \in N BY <1>1, FS_EmptySet
<1>4. ASSUME NEW n \in Nat, n \in N PROVE n + 1 \in N
  <2> SUFFICES ASSUME NEW t \in SUBSET S, Cardinality(t) = n + 1, NEW y \in t
               PROVE  G[t] = f[y] + G[t \ {y}]
    OBVIOUS
  <2> DEFINE c == Some(t)
             both == (t \ {c}) \ {y}
  <2>1. c \in t /\ G[t] = f[c] + G[t \ {c}] BY <1>2
  <2>2. CASE c = y BY <2>1, <2>2
  <2>3. CASE c # y
    <3>1. ASSUME NEW z \in t PROVE Cardinality(t \ {z}) = n /\ t \ {z} \in SUBSET S
      <4>1. IsFiniteSet(t) BY <1>1
      <4>2. Cardinality(t \ {z}) = Cardinality(t) - 1 BY <4>1, FS_RemoveElement
      <4> QED BY <4>2
    <3> HIDE DEF c
    <3>2. G[t \ {c}] = f[y] + G[both] BY <1>4, <2>1, <2>3, <3>1
    <3>3. G[t \ {y}] = f[c] + G[(t \ {y}) \ {c}] BY <1>4, <2>1, <2>3, <3>1
    <3>4. (t \ {y}) \ {c} = both /\ both \in SUBSET S OBVIOUS
    <3>5. f[y] \in Int /\ f[c] \in Int /\ G[both] \in Int BY <1>1, <2>1, <3>4
    <3> HIDE DEF both
    <3>6. f[c] + (f[y] + G[both]) = f[y] + (f[c] + G[both]) BY <3>5
    <3>7. G[t \ {y}] = f[c] + G[both] BY <3>3, <3>4
    <3> QED BY <2>1, <3>2, <3>6, <3>7
  <2> QED BY <2>2, <2>3
<1>5. Cardinality(s) \in N
  <2> HIDE DEF N
  <2> QED BY <1>1, <1>3, <1>4, Induct
<1> QED BY <1>5 DEF G

\* The sum of a subset does not depend on the set it is taken from.
LEMMA SumsOfSubset ==
  ASSUME NEW S, IsFiniteSet(S), NEW f, \A x \in S : f[x] \in Int, NEW T \in SUBSET S
  PROVE  Sums(f, T)[T] = Sums(f, S)[T]
<1> DEFINE X == {s \in SUBSET T : Sums(f, T)[s] = Sums(f, S)[s]}
<1>0. IsFiniteSet(T) /\ \A x \in T : f[x] \in Int BY FS_Subset
<1>1. Sums(f, T)[{}] = 0 /\ Sums(f, S)[{}] = 0 BY SumsExist, <1>0
<1>2. ASSUME NEW s \in SUBSET T, NEW x \in T \ s, s \in X PROVE s \cup {x} \in X
  <2> DEFINE t == s \cup {x}
  <2>1. x \in t /\ t \in SUBSET T /\ t \in SUBSET S /\ t \ {x} = s OBVIOUS
  <2> HIDE DEF t
  <2>2. Sums(f, T)[t] = f[x] + Sums(f, T)[t \ {x}] BY <1>0, <2>1, SumsStep
  <2>3. Sums(f, S)[t] = f[x] + Sums(f, S)[t \ {x}] BY <2>1, SumsStep
  <2>4. t \in X BY <1>2, <2>1, <2>2, <2>3
  <2> QED BY <2>4 DEF t
<1>3. T \in X
  <2>1. {} \in X BY <1>1
  <2> HIDE DEF X
  <2> QED BY <1>0, <1>2, <2>1, InductOnSets
<1> QED BY <1>3

\* Nothing adds up to zero.
LEMMA SumEmpty == ASSUME NEW f PROVE SumFunctionOnSet(f, {}) = 0
<1>1. IsFiniteSet({}) BY FS_EmptySet
<1>2. Sums(f, {})[{}] = IF {} = {} THEN 0
                        ELSE f[Some({})] + Sums(f, {})[{} \ {Some({})}]
  BY <1>1, SumsExist
<1> QED BY <1>2, SumOfSums

\* A sum of integers is an integer.
LEMMA SumType ==
  ASSUME NEW S, IsFiniteSet(S), NEW f, \A x \in S : f[x] \in Int
  PROVE  SumFunctionOnSet(f, S) \in Int
<1>1. Sums(f, S) \in [SUBSET S -> Int] BY SumsExist
<1> QED BY <1>1, SumOfSums

\* A sum grows by what a new element adds.
LEMMA SumAdd ==
  ASSUME NEW S, IsFiniteSet(S), NEW f, NEW y, y \notin S, \A x \in S \cup {y} : f[x] \in Int
  PROVE  SumFunctionOnSet(f, S \cup {y}) = f[y] + SumFunctionOnSet(f, S)
<1> DEFINE T == S \cup {y}
<1>1. IsFiniteSet(T) BY FS_AddElement
<1>2. y \in T /\ T \in SUBSET T /\ T \ {y} = S /\ S \in SUBSET T /\ \A x \in T : f[x] \in Int
  OBVIOUS
<1> HIDE DEF T
<1>3. Sums(f, T)[T] = f[y] + Sums(f, T)[T \ {y}] BY <1>1, <1>2, SumsStep
<1>4. Sums(f, S)[S] = Sums(f, T)[S] BY <1>1, <1>2, SumsOfSubset
<1>5. SumFunctionOnSet(f, T) = f[y] + SumFunctionOnSet(f, S) BY <1>2, <1>3, <1>4, SumOfSums
<1> QED BY <1>5 DEF T

\* Equal summands have equal sums.
LEMMA SumAgree ==
  ASSUME NEW S, IsFiniteSet(S), NEW f, NEW g,
         \A x \in S : f[x] \in Int /\ g[x] = f[x]
  PROVE  SumFunctionOnSet(g, S) = SumFunctionOnSet(f, S)
<1> DEFINE X == {T \in SUBSET S : SumFunctionOnSet(g, T) = SumFunctionOnSet(f, T)}
<1>1. {} \in X BY SumEmpty
<1>2. ASSUME NEW T \in SUBSET S, NEW y \in S \ T, T \in X PROVE T \cup {y} \in X
  <2>1. IsFiniteSet(T) /\ T \cup {y} \in SUBSET S /\ y \notin T BY FS_Subset
  <2>2. \A x \in T \cup {y} : f[x] \in Int /\ g[x] \in Int OBVIOUS
  <2>3. /\ SumFunctionOnSet(f, T \cup {y}) = f[y] + SumFunctionOnSet(f, T)
        /\ SumFunctionOnSet(g, T \cup {y}) = g[y] + SumFunctionOnSet(g, T)
    BY <2>1, <2>2, SumAdd
  <2> QED BY <1>2, <2>1, <2>3
<1>3. S \in X
  <2> HIDE DEF X
  <2> QED BY <1>1, <1>2, InductOnSets
<1> QED BY <1>3

\* A sum of sums, element by element.
LEMMA SumPlus ==
  ASSUME NEW S, IsFiniteSet(S), NEW f, NEW g, NEW h,
         \A x \in S : f[x] \in Int /\ g[x] \in Int /\ h[x] = f[x] + g[x]
  PROVE  SumFunctionOnSet(h, S) = SumFunctionOnSet(f, S) + SumFunctionOnSet(g, S)
<1> DEFINE X == {T \in SUBSET S : SumFunctionOnSet(h, T) =
                   SumFunctionOnSet(f, T) + SumFunctionOnSet(g, T)}
<1>1. {} \in X BY SumEmpty
<1>2. ASSUME NEW T \in SUBSET S, NEW y \in S \ T, T \in X PROVE T \cup {y} \in X
  <2>1. IsFiniteSet(T) /\ T \cup {y} \in SUBSET S /\ y \notin T BY FS_Subset
  <2>2. \A x \in T \cup {y} : f[x] \in Int /\ g[x] \in Int /\ h[x] \in Int OBVIOUS
  <2>3. /\ SumFunctionOnSet(f, T \cup {y}) = f[y] + SumFunctionOnSet(f, T)
        /\ SumFunctionOnSet(g, T \cup {y}) = g[y] + SumFunctionOnSet(g, T)
        /\ SumFunctionOnSet(h, T \cup {y}) = h[y] + SumFunctionOnSet(h, T)
    BY <2>1, <2>2, SumAdd
  <2>4. SumFunctionOnSet(f, T) \in Int /\ SumFunctionOnSet(g, T) \in Int
    BY <2>1, <2>2, SumType
  <2> QED BY <1>2, <2>1, <2>2, <2>3, <2>4
<1>3. S \in X
  <2> HIDE DEF X
  <2> QED BY <1>1, <1>2, InductOnSets
<1> QED BY <1>3

\* Smaller summands have a smaller sum.
LEMMA SumAtMost ==
  ASSUME NEW S, IsFiniteSet(S), NEW f, NEW g,
         \A x \in S : f[x] \in Int /\ g[x] \in Int /\ f[x] <= g[x]
  PROVE  SumFunctionOnSet(f, S) <= SumFunctionOnSet(g, S)
<1> DEFINE X == {T \in SUBSET S : SumFunctionOnSet(f, T) <= SumFunctionOnSet(g, T)}
<1>1. {} \in X BY SumEmpty
<1>2. ASSUME NEW T \in SUBSET S, NEW y \in S \ T, T \in X PROVE T \cup {y} \in X
  <2>1. IsFiniteSet(T) /\ T \cup {y} \in SUBSET S /\ y \notin T BY FS_Subset
  <2>2. \A x \in T \cup {y} : f[x] \in Int /\ g[x] \in Int OBVIOUS
  <2>3. /\ SumFunctionOnSet(f, T \cup {y}) = f[y] + SumFunctionOnSet(f, T)
        /\ SumFunctionOnSet(g, T \cup {y}) = g[y] + SumFunctionOnSet(g, T)
    BY <2>1, <2>2, SumAdd
  <2>4. SumFunctionOnSet(f, T) \in Int /\ SumFunctionOnSet(g, T) \in Int
    BY <2>1, <2>2, SumType
  <2> QED BY <1>2, <2>1, <2>2, <2>3, <2>4
<1>3. S \in X
  <2> HIDE DEF X
  <2> QED BY <1>1, <1>2, InductOnSets
<1> QED BY <1>3

\* A constant is counted once per element.
LEMMA SumConstant ==
  ASSUME NEW S, IsFiniteSet(S), NEW f, NEW c \in Int, \A x \in S : f[x] = c
  PROVE  SumFunctionOnSet(f, S) = c * Cardinality(S)
<1> DEFINE X == {T \in SUBSET S : SumFunctionOnSet(f, T) = c * Cardinality(T)}
<1>1. {} \in X BY SumEmpty, FS_EmptySet
<1>2. ASSUME NEW T \in SUBSET S, NEW y \in S \ T, T \in X PROVE T \cup {y} \in X
  <2>1. IsFiniteSet(T) /\ T \cup {y} \in SUBSET S /\ y \notin T BY FS_Subset
  <2>2. \A x \in T \cup {y} : f[x] \in Int OBVIOUS
  <2>3. SumFunctionOnSet(f, T \cup {y}) = f[y] + SumFunctionOnSet(f, T)
    BY <2>1, <2>2, SumAdd
  <2>4. Cardinality(T) \in Nat /\ Cardinality(T \cup {y}) = Cardinality(T) + 1
    BY <2>1, FS_CardinalityType, FS_AddElement
  <2>5. c * (Cardinality(T) + 1) = c + c * Cardinality(T) BY <2>4
  <2> QED BY <1>2, <2>1, <2>3, <2>4, <2>5
<1>3. S \in X
  <2> HIDE DEF X
  <2> QED BY <1>1, <1>2, InductOnSets
<1> QED BY <1>3

\* Elements that count for nothing may be left out.
LEMMA SumSupport ==
  ASSUME NEW S, IsFiniteSet(S), NEW f, NEW A \in SUBSET S,
         \A x \in S : f[x] \in Int, \A x \in S \ A : f[x] = 0
  PROVE  SumFunctionOnSet(f, S) = SumFunctionOnSet(f, A)
<1> DEFINE B == S \ A
           X == {T \in SUBSET B : SumFunctionOnSet(f, A \cup T) = SumFunctionOnSet(f, A)}
<1>0. IsFiniteSet(B) BY FS_Subset
<1>1. {} \in X OBVIOUS
<1>2. ASSUME NEW T \in SUBSET B, NEW y \in B \ T, T \in X PROVE T \cup {y} \in X
  <2>1. IsFiniteSet(A \cup T) /\ y \notin A \cup T /\ A \cup (T \cup {y}) = (A \cup T) \cup {y}
    BY FS_Subset
  <2>2. \A x \in (A \cup T) \cup {y} : f[x] \in Int OBVIOUS
  <2>3. SumFunctionOnSet(f, (A \cup T) \cup {y}) = f[y] + SumFunctionOnSet(f, A \cup T)
    BY <2>1, <2>2, SumAdd
  <2>4. SumFunctionOnSet(f, A \cup T) \in Int BY <2>1, <2>2, SumType
  <2>5. f[y] = 0 /\ T \cup {y} \in SUBSET B OBVIOUS
  <2>6. SumFunctionOnSet(f, A \cup T) = SumFunctionOnSet(f, A) BY <1>2
  <2>7. SumFunctionOnSet(f, (A \cup T) \cup {y}) = SumFunctionOnSet(f, A \cup T)
    BY <2>3, <2>4, <2>5
  <2>8. SumFunctionOnSet(f, A \cup (T \cup {y})) = SumFunctionOnSet(f, A)
    BY <2>1, <2>6, <2>7, Zenon
  <2> QED BY <2>5, <2>8
<1>3. B \in X
  <2> HIDE DEF X, B
  <2> QED BY <1>0, <1>1, <1>2, InductOnSets
<1>4. A \cup B = S OBVIOUS
<1> QED BY <1>3, <1>4

-----------------------------------------------------------------------------

(* The lexicographic order on sequences of integers *)

\* Where the sequences first differ.
LEMMA FirstDifference ==
  ASSUME NEW a \in Seq(Int), NEW b \in Seq(Int), NEW n \in Nat,
         n <= Len(a), n <= Len(b), \E i \in 1..n : a[i] # b[i]
  PROVE  \E i \in 1..n : a[i] # b[i] /\ \A j \in 1..(i - 1) : a[j] = b[j]
<1> DEFINE T == {i \in 1..n : a[i] # b[i]}
<1>1. T \subseteq Nat /\ T # {} OBVIOUS
<1>2. PICK m \in T : \A k \in T : ~(<<k, m>> \in OpToRel(<, Nat))
  BY <1>1, NatLessThanWellFounded, WFMin
<1>3. ASSUME NEW j \in 1..(m - 1), a[j] # b[j] PROVE FALSE
  <2>1. j \in T /\ j \in Nat /\ m \in Nat /\ j < m BY <1>3
  <2>2. <<j, m>> \in OpToRel(<, Nat) BY <2>1 DEF OpToRel
  <2> QED BY <1>2, <2>1, <2>2
<1> QED BY <1>3

\* Two sequences are equal, or one comes first.
LEMMA LexTotal ==
  ASSUME NEW a \in Seq(Int), NEW b \in Seq(Int)
  PROVE  a = b \/ LexLess(a, b) \/ LexLess(b, a)
<1>0. /\ Len(a) \in Nat /\ Len(b) \in Nat
      /\ \A i \in 1..Len(a) : a[i] \in Int
      /\ \A i \in 1..Len(b) : b[i] \in Int
  OBVIOUS
<1> DEFINE n == IF Len(a) < Len(b) THEN Len(a) ELSE Len(b)
<1>1. n \in Nat /\ n <= Len(a) /\ n <= Len(b) BY <1>0
<1>2. CASE \E i \in 1..n : a[i] # b[i]
  <2>1. PICK i \in 1..n : a[i] # b[i] /\ \A j \in 1..(i - 1) : a[j] = b[j]
    <3> HIDE DEF n
    <3> QED BY <1>1, <1>2, FirstDifference, ZenonT(30)
  <2>2. i \in 1..Len(a) /\ i \in 1..Len(b) /\ a[i] \in Int /\ b[i] \in Int BY <1>0, <1>1
  <2>3. i - 1 <= Len(a) /\ i - 1 <= Len(b) /\ \A j \in 1..(i - 1) : b[j] = a[j]
    BY <2>1, <2>2
  <2>4. a[i] < b[i] \/ b[i] < a[i] BY <2>1, <2>2
  <2> QED BY <2>1, <2>2, <2>3, <2>4 DEF LexLess
<1>3. CASE \A i \in 1..n : a[i] = b[i]
  <2>1. CASE Len(a) < Len(b)
    <3>1. /\ Len(a) + 1 \in 1..Len(b) /\ Len(a) + 1 > Len(a)
          /\ (Len(a) + 1) - 1 = Len(a) /\ n = Len(a)
      BY <1>0, <2>1
    <3> QED BY <1>3, <3>1 DEF LexLess
  <2>2. CASE Len(b) < Len(a)
    <3>1. /\ Len(b) + 1 \in 1..Len(a) /\ Len(b) + 1 > Len(b)
          /\ (Len(b) + 1) - 1 = Len(b) /\ n = Len(b)
      BY <1>0, <2>2
    <3> QED BY <1>3, <3>1 DEF LexLess
  <2>3. CASE Len(a) = Len(b) BY <1>3, <2>3, SeqEqual
  <2> QED BY <1>0, <2>1, <2>2, <2>3
<1> QED BY <1>2, <1>3

\* No sequence comes before itself.
LEMMA LexIrreflexive == ASSUME NEW a \in Seq(Int) PROVE ~LexLess(a, a)
  BY DEF LexLess

\* The lexicographic order is transitive.
LEMMA LexTransitive ==
  ASSUME NEW a \in Seq(Int), NEW b \in Seq(Int), NEW c \in Seq(Int),
         LexLess(a, b), LexLess(b, c)
  PROVE  LexLess(a, c)
<1>0. Len(a) \in Nat /\ Len(b) \in Nat /\ Len(c) \in Nat
      /\ (\A i \in 1..Len(a) : a[i] \in Int) /\ (\A i \in 1..Len(b) : b[i] \in Int)
      /\ (\A i \in 1..Len(c) : c[i] \in Int)
  OBVIOUS
<1>1. PICK i \in 1..Len(b) : /\ i - 1 <= Len(a) /\ \A j \in 1..(i - 1) : a[j] = b[j]
                             /\ i > Len(a) \/ a[i] < b[i]
  BY DEF LexLess
<1>2. PICK k \in 1..Len(c) : /\ k - 1 <= Len(b) /\ \A j \in 1..(k - 1) : b[j] = c[j]
                             /\ k > Len(b) \/ b[k] < c[k]
  BY DEF LexLess
<1>3. i \in Nat /\ k \in Nat /\ i <= Len(b) /\ k <= Len(c) /\ i >= 1 /\ k >= 1 BY <1>0
<1>4. CASE i < k
  <2>1. i \in 1..Len(c) /\ i \in 1..(k - 1) /\ b[i] = c[i] BY <1>2, <1>3, <1>0, <1>4
  <2>2. \A j \in 1..(i - 1) : a[j] = c[j] BY <1>3, <1>4, <1>1, <1>2
  <2>3. i > Len(a) \/ a[i] < c[i] BY <1>1, <2>1
  <2> QED BY <1>1, <2>1, <2>2, <2>3 DEF LexLess
<1>5. CASE k <= i
  <2>1. k <= Len(b) /\ b[k] < c[k] /\ k - 1 <= Len(a)
    BY <1>0, <1>1, <1>2, <1>3, <1>5, SMTT(30)
  <2>2. \A j \in 1..(k - 1) : a[j] = c[j] BY <1>3, <1>5, <1>1, <1>2
  <2>3. k > Len(a) \/ a[k] < c[k]
    <3>1. CASE k = i
      <4>1. CASE i > Len(a) BY <3>1, <4>1
      <4>2. CASE a[i] < b[i] /\ i <= Len(a)
        <5>1. a[i] \in Int /\ b[i] \in Int /\ c[k] \in Int BY <1>0, <1>2, <1>3, <4>2
        <5> QED BY <2>1, <3>1, <4>2, <5>1
      <4> QED BY <1>0, <1>1, <1>3, <4>1, <4>2
    <3>2. CASE k < i BY <1>3, <3>2, <1>1, <2>1
    <3> QED BY <1>3, <1>5, <3>1, <3>2
  <2> QED BY <1>2, <2>1, <2>2, <2>3 DEF LexLess
<1> QED BY <1>3, <1>4, <1>5

\* A finite set of sequences has a greatest and a least member.
LEMMA LexBounds ==
  ASSUME NEW S, IsFiniteSet(S), S # {}, S \subseteq Seq(Int)
  PROVE  /\ LexMax(S) \in S /\ \A b \in S : LexAtMost(b, LexMax(S))
         /\ LexMin(S) \in S /\ \A b \in S : LexAtMost(LexMin(S), b)
<1> DEFINE X == {T \in SUBSET S : T # {} =>
                   /\ \E a \in T : \A b \in T : LexAtMost(b, a)
                   /\ \E a \in T : \A b \in T : LexAtMost(a, b)}
<1>1. {} \in X OBVIOUS
<1>2. ASSUME NEW T \in SUBSET S, NEW y \in S \ T, T \in X PROVE T \cup {y} \in X
  BY <1>2, LexTransitive, LexTotal DEF LexAtMost
<1>3. S \in X
  <2> HIDE DEF X
  <2> QED BY <1>1, <1>2, InductOnSets
<1> QED BY <1>3 DEF LexMax, LexMin

-----------------------------------------------------------------------------

(* Positions in an order. *)

(* In a finite set, strictly and totally ordered, the number of elements    *)
(* before an element is its position, and every position is taken.          *)
LEMMA Ranking ==
  ASSUME NEW S, IsFiniteSet(S), NEW D, Orders(S, D)
  PROVE  Ranked(S, D)
<1> DEFINE n == Cardinality(S)
           rank == [a \in S |-> Cardinality(D[a])]
<1>0. /\ D \in [S -> SUBSET S]
      /\ \A a \in S : a \notin D[a]
      /\ \A a, b \in S : a \in D[b] => D[a] \subseteq D[b]
      /\ \A a, b \in S : a = b \/ a \in D[b] \/ b \in D[a]
  BY DEF Orders
<1>1. n \in Nat BY FS_CardinalityType
<1>2. \A a \in S : IsFiniteSet(D[a]) /\ Cardinality(D[a]) \in 0..(n - 1)
  BY <1>0, FS_Subset, FS_CardinalityType, <1>1
<1>3. ASSUME NEW a \in S, NEW b \in S, a \in D[b]
      PROVE  Cardinality(D[a]) < Cardinality(D[b])
  BY <1>0, <1>3, <1>2, FS_Subset, <1>1
<1>4. \A k \in 0..(n - 1) : \E a \in S : Cardinality(D[a]) = k
  <2>1. rank \in [S -> 0..(n - 1)] BY <1>2
  <2>2. ASSUME NEW a \in S, NEW b \in S, rank[a] = rank[b] PROVE a = b
    BY <2>2, <1>1, <1>2, <1>3, <1>0
  <2>3. rank \in Injection(S, 0..(n - 1))
    <3> HIDE DEF rank
    <3> QED BY <2>1, <2>2 DEF Injection, IsInjective
  <2>4. IsFiniteSet(0..(n - 1)) /\ Cardinality(0..(n - 1)) = n
    <3> HIDE DEF n
    <3>1. 0 \in Int /\ n - 1 \in Int BY <1>1
    <3>2. /\ IsFiniteSet(0..(n - 1))
          /\ Cardinality(0..(n - 1)) = IF 0 > n - 1 THEN 0 ELSE (n - 1) - 0 + 1
      BY <3>1, FS_Interval
    <3> QED BY <1>1, <3>2
  <2>5. rank \in Surjection(S, 0..(n - 1))
    <3> HIDE DEF rank
    <3> QED BY <2>3, <2>4, FS_Injection
  <2>6. \A k \in 0..(n - 1) : \E a \in S : rank[a] = k
    <3> HIDE DEF rank
    <3> QED BY <2>5 DEF Surjection
  <2> QED BY <2>6
<1> QED BY <1>1, <1>2, <1>3, <1>4 DEF Ranked

(* The elements of S at their positions. *)
LEMMA Positions ==
  ASSUME NEW S, IsFiniteSet(S), NEW D, Orders(S, D), NEW q,
         q = [k \in 1..Cardinality(S) |-> q[k]],
         \A k \in 1..Cardinality(S) : q[k] \in S /\ Cardinality(D[q[k]]) = k - 1
  PROVE  Cardinality(S) \in Nat /\ Enumerates(q, S, D)
<1> DEFINE n == Cardinality(S)
           rank(a) == Cardinality(D[a])
<1>1. /\ n \in Nat
      /\ \A a \in S : rank(a) \in 0..(n - 1)
      /\ \A a, b \in S : a \in D[b] => rank(a) < rank(b)
  BY Ranking DEF Ranked
<1>0. \A a, b \in S : a = b \/ a \in D[b] \/ b \in D[a] BY DEF Orders
<1>2. q \in [1..n -> S] /\ \A k \in 1..n : q[k] \in S /\ rank(q[k]) = k - 1 OBVIOUS
<1> HIDE DEF rank, n
<1>3. q \in Seq(S) /\ Len(q) = n BY ONLY <1>1, <1>2
<1>4. \A a, b \in S : rank(a) = rank(b) => a = b BY <1>0, <1>1
<1>5. ASSUME NEW a \in S PROVE \E k \in 1..n : q[k] = a
  <2>1. rank(a) \in 0..(n - 1) BY <1>1
  <2>2. rank(a) + 1 \in 1..n /\ (rank(a) + 1) - 1 = rank(a) BY <1>1, <2>1
  <2>3. q[rank(a) + 1] \in S /\ rank(q[rank(a) + 1]) = rank(a) BY <1>2, <2>2
  <2> QED BY <1>4, <2>2, <2>3
<1>6. ASSUME NEW j \in 1..n, NEW k \in 1..n, j < k PROVE q[j] \in D[q[k]]
  <2>1. q[j] \in S /\ q[k] \in S /\ rank(q[j]) = j - 1 /\ rank(q[k]) = k - 1 BY <1>2
  <2>2. q[k] \notin D[q[j]] /\ q[j] # q[k] BY <1>1, <1>6, <2>1
  <2> QED BY <1>0, <2>1, <2>2
<1> QED BY <1>1, <1>3, <1>5, <1>6 DEF n, Enumerates

(* A finite set of integers, sorted. *)
LEMMA SmallerOrders ==
  ASSUME NEW S, IsFiniteSet(S), S \subseteq Int
  PROVE  Orders(S, Smaller(S)) /\ Enumerates(Sorted(S, <), S, Smaller(S))
<1> DEFINE D == Smaller(S)
           q == Sorted(S, <)
           n == Cardinality(S)
           rank(a) == Cardinality({b \in S : b < a})
<1>1. D \in [S -> SUBSET S] /\ \A a \in S : D[a] = {b \in S : b < a} /\ rank(a) = Cardinality(D[a])
  BY DEF Smaller
<1>2. q = [k \in 1..n |-> CHOOSE a \in S : rank(a) = k - 1] BY DEF Sorted
<1> HIDE DEF D, n, rank, q
<1>3. \A a, b, c \in Int : ~(a < a) /\ (c < a /\ a < b => c < b) /\ (a = b \/ a < b \/ b < a)
  OBVIOUS
<1>4. Orders(S, D) BY <1>1, <1>3 DEF Orders
<1>5. ASSUME NEW k \in 1..n PROVE q[k] \in S /\ Cardinality(D[q[k]]) = k - 1
  <2>1. (k - 1) \in 0..(n - 1) BY FS_CardinalityType DEF n
  <2>2. Ranked(S, D) BY <1>4, Ranking
  <2>3. \E a \in S : rank(a) = k - 1 BY <1>1, <2>1, <2>2 DEF Ranked, n
  <2> QED BY <1>1, <1>2, <2>3
<1>6. q = [k \in 1..n |-> q[k]] BY <1>2
<1>7. Enumerates(q, S, D) BY <1>4, <1>5, <1>6, Positions DEF n
<1> QED BY <1>4, <1>7 DEF D, q

\* What Sorted makes of a finite set of integers.
LEMMA SortedIntegers ==
  ASSUME NEW S, IsFiniteSet(S), S \subseteq Int
  PROVE  /\ Sorted(S, <) \in Seq(S) /\ Len(Sorted(S, <)) = Cardinality(S)
         /\ \A a \in S : \E k \in 1..Cardinality(S) : Sorted(S, <)[k] = a
         /\ \A j, k \in 1..Cardinality(S) : j < k => Sorted(S, <)[j] < Sorted(S, <)[k]
<1> DEFINE q == Sorted(S, <)
<1>1. Enumerates(q, S, Smaller(S)) BY SmallerOrders
<1> HIDE DEF q
<1>2. q \in Seq(S) /\ \A k \in 1..Len(q) : q[k] \in S BY <1>1 DEF Enumerates
<1> QED BY <1>1, <1>2 DEF Enumerates, Smaller, q

-----------------------------------------------------------------------------

(* Candidates in admission order. *)

\* What is computed from a row has its type.
LEMMA RowType ==
  ASSUME NEW r, IsRow(r)
  PROVE  /\ Priority(r) \in Nat /\ Weight(r) \in Nat
         /\ CapacityClass(r) \in Capacities
         /\ Protected(r) \in BOOLEAN /\ Exclusive(r) \in BOOLEAN
         /\ Charge(r) \in Nat
         /\ OrderKey(r) \in Seq(Int) /\ OrderKey(r)[5] = r.id
         /\ r.request \in Nat /\ r.id \in Int
<1>1. /\ r.class \in Classes /\ r.exact \in BOOLEAN
      /\ r.deferrals \in Nat /\ r.request \in Nat /\ r.rank \in Int /\ r.id \in Int
  BY DEF IsRow
<1>2. Priority(r) \in Nat BY <1>1 DEF Priority, Classes, Certification, Discovery
<1>3. Weight(r) \in Nat BY <1>1 DEF Weight
<1>4. CapacityClass(r) \in Capacities
  BY <1>1 DEF CapacityClass, Capacities, Classes, Certification, Discovery
<1>5. Charge(r) \in Nat BY PositiveSizes DEF Charge
<1>6. OrderKey(r) \in Seq(Int) /\ OrderKey(r)[5] = r.id
  <2> DEFINE x == IF Due(r) THEN -1 ELSE 0
             y == IF Due(r) THEN -r.deferrals ELSE 0
             z == -Priority(r)
  <2>1. x \in Int /\ y \in Int /\ z \in Int BY <1>1, <1>2
  <2>2. OrderKey(r) = <<x, y, z, r.rank, r.id>> BY DEF OrderKey
  <2> HIDE DEF x, y, z
  <2> QED BY <1>1, <2>1, <2>2
<1> QED BY <1>1, <1>2, <1>3, <1>4, <1>5, <1>6 DEF Protected, Exclusive

(* Rows with different identifiers are strictly ordered by their keys.      *)
LEMMA KeysOrder ==
  ASSUME NEW S, \A r \in S : IsRow(r), \A r, q \in S : r.id = q.id => r = q
  PROVE  Orders(S, Earlier(S))
<1> DEFINE D == Earlier(S)
<1>0. \A a \in S : OrderKey(a) \in Seq(Int) /\ OrderKey(a)[5] = a.id BY RowType
<1>1. /\ D \in [S -> SUBSET S]
      /\ \A a, b \in S : a \in D[b] <=> LexLess(OrderKey(a), OrderKey(b))
  BY DEF Earlier
<1> HIDE DEF D
<1>2. \A a \in S : a \notin D[a] BY <1>0, <1>1, LexIrreflexive
<1>3. ASSUME NEW a \in S, NEW b \in S, a \in D[b], NEW c \in D[a] PROVE c \in D[b]
  BY <1>1, <1>3, <1>0, LexTransitive
<1>4. ASSUME NEW a \in S, NEW b \in S PROVE a = b \/ a \in D[b] \/ b \in D[a]
  BY <1>0, LexTotal, <1>1
<1> QED BY <1>1, <1>2, <1>3, <1>4 DEF Orders, D

\* A finite set of such rows, in admission order.
LEMMA OrderedRows ==
  ASSUME NEW S, IsFiniteSet(S), \A r \in S : IsRow(r),
         \A r, q \in S : r.id = q.id => r = q
  PROVE  Lists(Ordered(S), S) /\ Enumerates(Ordered(S), S, Earlier(S))
<1> DEFINE D == Earlier(S)
           q == Ordered(S)
           n == Cardinality(S)
           rank(a) == Cardinality({b \in S : LexLess(OrderKey(b), OrderKey(a))})
<1>1. /\ D \in [S -> SUBSET S]
      /\ \A a \in S : /\ D[a] = {b \in S : LexLess(OrderKey(b), OrderKey(a))}
                      /\ rank(a) = Cardinality(D[a])
  BY DEF Earlier
<1>2. q = [k \in 1..n |-> CHOOSE a \in S : rank(a) = k - 1] BY DEF Ordered, Sorted
<1>3. Orders(S, D) BY KeysOrder
<1> HIDE DEF D, n, rank, q
<1>4. ASSUME NEW k \in 1..n PROVE q[k] \in S /\ Cardinality(D[q[k]]) = k - 1
  BY FS_CardinalityType, <1>1, <1>3, Ranking, <1>2 DEF n, Ranked
<1>5. q = [k \in 1..n |-> q[k]] BY <1>2
<1>6. Cardinality(S) \in Nat /\ Enumerates(q, S, D) BY <1>3, <1>4, <1>5, Positions DEF n
<1>7. q \in Seq(S) /\ Len(q) \in Nat /\ \A k \in 1..Len(q) : q[k] \in S
  BY <1>6 DEF Enumerates
<1>8. ASSUME NEW j \in 1..Len(q), NEW k \in 1..Len(q), j < k
      PROVE  LexLess(OrderKey(q[j]), OrderKey(q[k])) /\ q[j] # q[k]
  BY <1>6, <1>8, <1>1, <1>3, <1>7 DEF Enumerates, Orders
<1>9. \A j, k \in 1..Len(q) : q[j] = q[k] => j = k BY <1>7, <1>8
<1> QED BY <1>6, <1>7, <1>8, <1>9 DEF Enumerates, Lists, D, q

-----------------------------------------------------------------------------

(* Partial waves. *)

\* A placed problem has its type.
LEMMA ProblemTyped ==
  ASSUME Placed PROVE ProblemType
<1>1. /\ IsRow(wave.primary) /\ \A r \in wave.candidates : IsRow(r)
      /\ IsFiniteSet(wave.candidates)
      /\ \A r, q \in wave.candidates : r.id = q.id => r = q
      /\ wave.caps \in [Capacities -> Nat] /\ wave.enforced \in BOOLEAN
      /\ wave.total \in Nat /\ wave.remaining \in Nat /\ wave.reserve \in Nat
      /\ wave.enforced /\ wave.primary.request > 0 =>
           wave.primary.request + (IF Protected(wave.primary) THEN 0 ELSE wave.reserve)
             <= wave.remaining
  BY WavesAssumption DEF Placed
<1>2. MaxCompanions \in Nat BY <1>1 DEF MaxCompanions
<1>3. StartCounts \in [Capacities -> Nat] BY DEF StartCounts
<1>4. StartPools.prot \in Nat /\ StartPools.free \in Nat
  <2>1. wave.primary.request \in Nat BY <1>1 DEF IsRow
  <2> DEFINE request == wave.primary.request
             reserved == Least(wave.remaining, wave.reserve)
             left == NonNegative(wave.remaining - request)
             unspent == IF Protected(wave.primary)
                        THEN reserved - Least(request, reserved) ELSE reserved
             prot == Least(unspent, left)
  <2>2. reserved \in Nat /\ left \in Nat BY <1>1, <2>1 DEF NonNegative, Least
  <2>3. unspent \in Nat
    <3> HIDE DEF reserved
    <3> QED BY <1>1, <2>1, <2>2 DEF Least
  <2>4. prot \in Nat /\ left - prot \in Nat
    <3> HIDE DEF unspent, left
    <3> QED BY <2>2, <2>3 DEF Least
  <2>5. StartPools = IF wave.enforced THEN [prot |-> prot, free |-> left - prot]
                     ELSE [prot |-> 0, free |-> 0]
    BY DEF StartPools
  <2> HIDE DEF prot, left
  <2> QED BY <2>4, <2>5
<1>5. rows \in Seq(Searched) /\ \A j, k \in 1..Len(rows) : rows[j] = rows[k] => j = k
  BY DEF Placed, Lists
<1>6. /\ Len(rows) \in Nat /\ DOMAIN rows = 1..Len(rows)
      /\ \A p \in DOMAIN rows : rows[p] \in Searched
  BY <1>5
<1>7. IsFiniteSet(DOMAIN rows) BY <1>6, FS_Interval
<1>8. \A p \in DOMAIN rows : rows[p] \in wave.candidates /\ Searchable(rows[p])
  BY <1>6 DEF Searched
<1>9. \A p, q \in DOMAIN rows : rows[p].id = rows[q].id => p = q BY <1>1, <1>5, <1>6, <1>8
<1> QED BY <1>1, <1>2, <1>3, <1>4, <1>6, <1>7, <1>8, <1>9 DEF ProblemType

\* The range of a sequence is finite.
LEMMA RangeOf ==
  ASSUME NEW S, NEW q \in Seq(S)
  PROVE  Range(q) \subseteq S /\ IsFiniteSet(Range(q))
         /\ Range(q) = {q[k] : k \in 1..Len(q)}
<1>1. Range(q) = {q[k] : k \in 1..Len(q)} BY DEF Range
<1>2. Range(q) \subseteq S BY <1>1
<1>3. IsFiniteSet(1..Len(q)) BY FS_Interval
<1>4. q \in Surjection(1..Len(q), Range(q)) BY <1>1 DEF Surjection
<1> QED BY <1>1, <1>2, <1>3, <1>4, FS_Surjection

\* Appending adds one element to the range.
LEMMA RangeAppend ==
  ASSUME NEW S, NEW q \in Seq(S), NEW p \in S
  PROVE  Range(Append(q, p)) = Range(q) \cup {p}
<1>1. Append(q, p) \in Seq(S) OBVIOUS
<1>2. Range(q) = {q[k] : k \in 1..Len(q)}
      /\ Range(Append(q, p)) = {Append(q, p)[k] : k \in 1..Len(Append(q, p))}
  BY <1>1, RangeOf
<1>3. /\ Len(Append(q, p)) = Len(q) + 1 /\ Len(q) \in Nat
      /\ \A k \in 1..Len(q) : Append(q, p)[k] = q[k]
      /\ Append(q, p)[Len(q) + 1] = p
  OBVIOUS
<1>4. Range(Append(q, p)) \subseteq Range(q) \cup {p} BY <1>2, <1>3
<1>5. Range(q) \cup {p} \subseteq Range(Append(q, p)) BY <1>3, <1>2
<1> QED BY <1>4, <1>5

\* Excluding is mutual.
LEMMA ConflictSymmetric ==
  ASSUME NEW a, NEW b PROVE Conflict(a, b) <=> Conflict(b, a)
<1>1. {a.class, b.class} = {b.class, a.class} OBVIOUS
<1>2. SameRoute(a, b) <=> SameRoute(b, a) BY DEF SameRoute
<1>3. SameTarget(a, b) <=> SameTarget(b, a) BY DEF SameTarget
<1>4. Structural(a, b) <=> Structural(b, a) BY DEF Structural
<1>5. Ownership(a, b) <=> Ownership(b, a) BY <1>1, <1>2, <1>3, Zenon DEF Ownership
<1> QED BY <1>4, <1>5 DEF Conflict

(* The row an admissible inclusion adds, in every component of the wave. *)
LEMMA IncludeShape ==
  ASSUME Placed, NEW s, Sound(s), NEW p \in DOMAIN rows
  PROVE  LET t == Include(s, p)
         IN  /\ Shaped(t)
             /\ Len(t.sel) = Len(s.sel) + 1
             /\ Range(t.sel) = Range(s.sel) \cup {p}
             /\ t.ids = Append(s.ids, rows[p].id)
<1> DEFINE t == Include(s, p)
<1>0. ProblemType BY ProblemTyped
<1>1. /\ s.sel \in Seq(DOMAIN rows) /\ Len(s.sel) \in Nat
      /\ s.ids = [k \in 1..Len(s.sel) |-> rows[s.sel[k]].id]
      /\ s.fair \in Nat /\ s.prio \in Nat
  BY DEF Sound, Shaped
<1>2. /\ t.sel = Append(s.sel, p) /\ t.ids = Append(s.ids, rows[p].id)
      /\ t.fair = s.fair + Weight(rows[p]) /\ t.prio = s.prio + Priority(rows[p])
  BY DEF Include
<1>3. IsRow(rows[p]) /\ rows[p].id \in Int BY <1>0, RowType DEF ProblemType
<1> HIDE DEF t
<1>4. /\ t.sel \in Seq(DOMAIN rows) /\ Len(t.sel) = Len(s.sel) + 1
      /\ \A k \in 1..Len(s.sel) : t.sel[k] = s.sel[k]
      /\ t.sel[Len(s.sel) + 1] = p
  BY <1>1, <1>2
<1>5. t.ids = [k \in 1..Len(t.sel) |-> rows[t.sel[k]].id]
  <2>1. s.ids \in Seq(Int) /\ Len(s.ids) = Len(s.sel)
    <3>1. \A k \in 1..Len(s.sel) : s.sel[k] \in DOMAIN rows BY <1>1
    <3>2. \A k \in 1..Len(s.sel) : rows[s.sel[k]].id \in Int
      BY <1>0, <3>1, RowType DEF ProblemType
    <3> QED BY <1>1, <3>2
  <2> DEFINE u == [k \in 1..Len(t.sel) |-> rows[t.sel[k]].id]
  <2>2. /\ Append(s.ids, rows[p].id) \in Seq(Int)
        /\ Len(Append(s.ids, rows[p].id)) = Len(s.sel) + 1
        /\ \A k \in 1..Len(s.sel) : Append(s.ids, rows[p].id)[k] = s.ids[k]
        /\ Append(s.ids, rows[p].id)[Len(s.sel) + 1] = rows[p].id
    BY <1>3, <2>1
  <2>3. ASSUME NEW k \in 1..(Len(s.sel) + 1) PROVE Append(s.ids, rows[p].id)[k] = u[k]
    BY <1>1, <1>4, <2>2
  <2>4. DOMAIN u = 1..(Len(s.sel) + 1) BY <1>4
  <2>5. /\ DOMAIN Append(s.ids, rows[p].id) = 1..(Len(s.sel) + 1)
        /\ Append(s.ids, rows[p].id) =
             [k \in 1..(Len(s.sel) + 1) |-> Append(s.ids, rows[p].id)[k]]
    BY <2>2
  <2>6. u = [k \in 1..(Len(s.sel) + 1) |-> u[k]] BY <2>4
  <2> HIDE DEF u
  <2>7. Append(s.ids, rows[p].id) = u BY <2>3, <2>5, <2>6
  <2> QED BY <1>2, <2>7 DEF u
<1>6. Range(t.sel) = Range(s.sel) \cup {p} BY <1>1, <1>2, RangeAppend
<1>7. t.fair \in Nat /\ t.prio \in Nat BY <1>1, <1>2, <1>3, RowType, SMTT(30)
<1> QED BY <1>2, <1>4, <1>5, <1>6, <1>7 DEF Shaped, t

\* Including a row keeps the counts right.
LEMMA IncludeCounted ==
  ASSUME Placed, NEW s, Sound(s), NEW p \in DOMAIN rows, p \notin Range(s.sel)
  PROVE  /\ Counted(Include(s, p))
         /\ Include(s, p).counts =
              [s.counts EXCEPT ![CapacityClass(rows[p])] = @ + 1]
<1> DEFINE t == Include(s, p)
           R == Range(s.sel)
           k == CapacityClass(rows[p])
<1>0. ProblemType BY ProblemTyped
<1>1. t.counts = [s.counts EXCEPT ![k] = @ + 1] BY DEF Include
<1>2. Range(t.sel) = R \cup {p} /\ Len(t.sel) = Len(s.sel) + 1 BY IncludeShape
<1> HIDE DEF t
<1>3. s.sel \in Seq(DOMAIN rows) BY DEF Sound, Shaped
<1>4. IsFiniteSet(R) BY <1>3, RangeOf
<1>5. /\ Cardinality(R) = Len(s.sel)
      /\ s.counts \in [Capacities -> Nat]
      /\ \A c \in Capacities : s.counts[c] = StartCounts[c] + Cardinality(InClass(R, c))
  BY DEF Sound, Counted
<1>6. k \in Capacities BY <1>0, RowType DEF ProblemType
<1>7. Cardinality(R \cup {p}) = Cardinality(R) + 1 BY <1>4, FS_AddElement
<1>8. t.counts \in [Capacities -> Nat] BY <1>1, <1>5, <1>6
<1>9. ASSUME NEW c \in Capacities
      PROVE  t.counts[c] = StartCounts[c] + Cardinality(InClass(R \cup {p}, c))
  <2>1. IsFiniteSet(InClass(R, c)) /\ p \notin InClass(R, c) BY <1>4, FS_Subset DEF InClass
  <2>2. Cardinality(InClass(R, c)) \in Nat BY <2>1, FS_CardinalityType
  <2>3. StartCounts[c] \in Nat BY <1>0 DEF ProblemType
  <2>4. CASE c = k
    <3>1. InClass(R \cup {p}, c) = InClass(R, c) \cup {p} BY <2>4 DEF InClass
    <3>2. Cardinality(InClass(R \cup {p}, c)) = Cardinality(InClass(R, c)) + 1
      BY <2>1, <3>1, FS_AddElement
    <3>3. t.counts[c] = s.counts[c] + 1 BY <1>1, <1>5, <2>4
    <3> QED BY <1>5, <2>2, <2>3, <3>2, <3>3
  <2>5. CASE c # k BY <2>5, <1>1, <1>5 DEF InClass
  <2> QED BY <2>4, <2>5
<1>10. Counted(t) BY <1>2, <1>5, <1>7, <1>8, <1>9 DEF Counted
<1> QED BY <1>1, <1>10 DEF t

\* Charges are naturals, and so are their sums.
LEMMA ChargesType ==
  ASSUME ProblemType
  PROVE  /\ \A p \in DOMAIN rows : Charges[p] = Charge(rows[p]) /\ Charges[p] \in Nat
         /\ \A R \in SUBSET DOMAIN rows :
              /\ IsFiniteSet(R) /\ IsFiniteSet(Unprotected(R))
              /\ SumFunctionOnSet(Charges, R) \in Int
              /\ SumFunctionOnSet(Charges, Unprotected(R)) \in Int
<1>1. \A p \in DOMAIN rows : Charges[p] = Charge(rows[p]) /\ Charges[p] \in Nat
  BY RowType DEF Charges, ProblemType
<1>2. ASSUME NEW R \in SUBSET DOMAIN rows
      PROVE  /\ IsFiniteSet(R)
             /\ SumFunctionOnSet(Charges, R) \in Int
  <2>1. IsFiniteSet(R) BY FS_Subset DEF ProblemType
  <2>2. \A p \in R : Charges[p] \in Int BY <1>1
  <2> QED BY <2>1, <2>2, SumType
<1>3. \A R \in SUBSET DOMAIN rows : Unprotected(R) \in SUBSET DOMAIN rows BY DEF Unprotected
<1> QED BY <1>1, <1>2, <1>3

\* Including a row that can be paid keeps the pools right.
LEMMA IncludePaid ==
  ASSUME Placed, NEW s, Sound(s), NEW p \in DOMAIN rows, p \notin Range(s.sel),
         Charge(rows[p]) <= Available(rows[p], s)
  PROVE  /\ Paid(Include(s, p))
         /\ Include(s, p).prot + Include(s, p).free = s.prot + s.free - Charge(rows[p])
<1> DEFINE t == Include(s, p)
           R == Range(s.sel)
           c == Charge(rows[p])
           reserved == IF Protected(rows[p]) THEN Least(c, s.prot) ELSE 0
<1>0. ProblemType BY ProblemTyped
<1>1. t.prot = s.prot - reserved /\ t.free = s.free - (c - reserved) BY DEF Include
<1>2. Range(t.sel) = R \cup {p} BY IncludeShape
<1> HIDE DEF t
<1>3. R \in SUBSET DOMAIN rows BY RangeOf DEF Sound, Shaped
<1>4. /\ s.prot \in Nat /\ s.free \in Nat
      /\ s.prot + s.free + SumFunctionOnSet(Charges, R) = StartPools.prot + StartPools.free
      /\ s.free + SumFunctionOnSet(Charges, Unprotected(R)) <= StartPools.free
  BY DEF Sound, Paid
<1>5. c \in Nat /\ Charges[p] = c BY <1>0, ChargesType
<1>6. /\ reserved \in Nat /\ t.prot \in Nat /\ t.free \in Nat
      /\ t.prot + t.free = s.prot + s.free - c
      /\ t.free <= s.free
      /\ ~Protected(rows[p]) => t.free = s.free - c
  <2>1. c <= IF Protected(rows[p]) THEN s.prot + s.free ELSE s.free BY DEF Available
  <2>2. reserved \in Nat /\ reserved <= s.prot /\ reserved <= c /\ c - reserved <= s.free
        /\ (~Protected(rows[p]) => reserved = 0)
    <3> HIDE DEF c
    <3> QED BY <1>4, <1>5, <2>1 DEF Least
  <2> HIDE DEF c, reserved
  <2> QED BY <1>1, <1>4, <1>5, <2>2
<1>7. \A q \in R \cup {p} : Charges[q] \in Int BY <1>0, <1>3, ChargesType
<1>8. SumFunctionOnSet(Charges, R \cup {p}) = c + SumFunctionOnSet(Charges, R)
  <2>1. IsFiniteSet(R) BY <1>0, <1>3, ChargesType
  <2> HIDE DEF R, c
  <2>2. p \notin R BY DEF R
  <2> QED BY <1>5, <1>7, <2>1, <2>2, SumAdd
<1>9. SumFunctionOnSet(Charges, Unprotected(R \cup {p}))
        = SumFunctionOnSet(Charges, Unprotected(R)) + (IF Protected(rows[p]) THEN 0 ELSE c)
  <2>1. IsFiniteSet(Unprotected(R)) /\ SumFunctionOnSet(Charges, Unprotected(R)) \in Int
    BY <1>0, <1>3, ChargesType
  <2>2. CASE Protected(rows[p])
    <3>1. Unprotected(R \cup {p}) = Unprotected(R) BY <2>2 DEF Unprotected
    <3> HIDE DEF R, c
    <3> QED BY <2>1, <2>2, <3>1
  <2>3. CASE ~Protected(rows[p])
    <3>1. Unprotected(R \cup {p}) = Unprotected(R) \cup {p} /\ p \notin Unprotected(R)
      BY <2>3 DEF Unprotected
    <3>2. \A q \in Unprotected(R) \cup {p} : Charges[q] \in Int BY <1>7 DEF Unprotected
    <3> HIDE DEF R, c
    <3>3. SumFunctionOnSet(Charges, Unprotected(R) \cup {p})
            = Charges[p] + SumFunctionOnSet(Charges, Unprotected(R))
      BY <2>1, <3>1, <3>2, SumAdd
    <3>4. (IF Protected(rows[p]) THEN 0 ELSE c) = c BY <2>3
    <3> DEFINE x == SumFunctionOnSet(Charges, Unprotected(R))
    <3>5. x \in Int /\ c \in Int /\ SumFunctionOnSet(Charges, Unprotected(R) \cup {p}) = c + x
      BY <1>5, <2>1, <3>3
    <3> HIDE DEF x
    <3>6. c + x = x + c BY <3>5
    <3> QED BY <3>1, <3>4, <3>5, <3>6 DEF x
  <2> QED BY <2>2, <2>3
<1>10. /\ SumFunctionOnSet(Charges, R) \in Int
       /\ SumFunctionOnSet(Charges, Unprotected(R)) \in Int
       /\ StartPools.prot \in Nat /\ StartPools.free \in Nat
  BY <1>0, <1>3, ChargesType DEF ProblemType
<1> HIDE DEF R, c, reserved
<1>11. Paid(t) BY <1>2, <1>4, <1>5, <1>6, <1>8, <1>10, <1>9 DEF Paid
<1> QED BY <1>6, <1>11 DEF t, c

\* Including an admitted row keeps within the capacities.
LEMMA IncludeFitting ==
  ASSUME Placed, NEW s, Sound(s), NEW p \in DOMAIN rows, p \notin Range(s.sel),
         Admits(s, p)
  PROVE  Fitting(Include(s, p)) /\ Charge(rows[p]) <= Available(rows[p], s)
<1> DEFINE t == Include(s, p)
           R == Range(s.sel)
           k == CapacityClass(rows[p])
<1>0. ProblemType BY ProblemTyped
<1>1. Range(t.sel) = R \cup {p} /\ Len(t.sel) = Len(s.sel) + 1 BY IncludeShape
<1>2. t.counts = [s.counts EXCEPT ![k] = @ + 1] /\ s.counts \in [Capacities -> Nat]
  BY IncludeCounted DEF Sound, Counted
<1> HIDE DEF t
<1>3. /\ \A q \in R : ~Conflict(rows[p], rows[q])
      /\ Len(s.sel) < MaxCompanions
      /\ s.counts[k] < wave.caps[k]
      /\ wave.enforced /\ rows[p].request > 0 =>
           rows[p].request >= MinGrant /\ Available(rows[p], s) >= MinGrant
  BY DEF Admits
<1>4. /\ Len(s.sel) \in Nat /\ R \subseteq DOMAIN rows
      /\ s.prot \in Nat /\ s.free \in Nat
  BY RangeOf DEF Sound, Shaped, Paid
<1>5. /\ \A a, b \in R : a # b => ~Conflict(rows[a], rows[b])
      /\ \A a \in R : s.counts[CapacityClass(rows[a])] <= wave.caps[CapacityClass(rows[a])]
      /\ \A a \in R : wave.enforced /\ rows[a].request > 0 => rows[a].request >= MinGrant
  BY DEF Sound, Fitting
<1>6. /\ MaxCompanions \in Nat /\ wave.caps \in [Capacities -> Nat]
      /\ \A a \in DOMAIN rows : CapacityClass(rows[a]) \in Capacities
  BY <1>0, RowType DEF ProblemType
<1>7. Len(t.sel) <= MaxCompanions BY <1>1, <1>3, <1>4, <1>6
<1>8. ASSUME NEW a \in R \cup {p}, NEW b \in R \cup {p}, a # b
      PROVE  ~Conflict(rows[a], rows[b])
  BY <1>5, <1>8, <1>3, ConflictSymmetric
<1>9. ASSUME NEW a \in R \cup {p}
      PROVE  t.counts[CapacityClass(rows[a])] <= wave.caps[CapacityClass(rows[a])]
  <2> DEFINE c == CapacityClass(rows[a])
  <2>1. c \in Capacities /\ k \in Capacities BY <1>4, <1>6
  <2>2. CASE c = k BY <1>2, <1>3, <1>6, <2>1, <2>2
  <2>3. CASE c # k BY <1>2, <2>1, <2>3, <1>5
  <2> QED BY <2>2, <2>3
<1>10. \A a \in R \cup {p} :
         wave.enforced /\ rows[a].request > 0 => rows[a].request >= MinGrant
  BY <1>3, <1>5
<1>11. Fitting(t) BY <1>1, <1>7, <1>8, <1>9, <1>10 DEF Fitting
<1>12. Charge(rows[p]) <= Available(rows[p], s)
  BY <1>3, <1>4, PositiveSizes DEF Charge, Available
<1> QED BY <1>11, <1>12 DEF t

(* What the search adds to a partial wave keeps it one that may run.        *)
LEMMA IncludeSound ==
  ASSUME Placed, NEW s, Sound(s), NEW p \in DOMAIN rows, p \notin Range(s.sel),
         Admits(s, p)
  PROVE  Sound(Include(s, p))
  BY IncludeShape, IncludeCounted, IncludePaid, IncludeFitting DEF Sound

\* The empty partial wave is sound.
LEMMA StartSound ==
  ASSUME Placed PROVE Sound(Start)
<1>0. ProblemType BY ProblemTyped
<1>1. /\ Start.sel = <<>> /\ Start.ids = <<>> /\ Start.counts = StartCounts
      /\ Start.prot = StartPools.prot /\ Start.free = StartPools.free
      /\ Start.fair = 0 /\ Start.prio = 0
  BY DEF Start
<1>2. Range(Start.sel) = {} BY <1>1 DEF Range
<1>3. Cardinality({}) = 0 BY FS_EmptySet
<1>4. Shaped(Start) BY <1>1 DEF Shaped
<1>5. Counted(Start)
  <2>1. \A c \in Capacities : InClass({}, c) = {} /\ StartCounts[c] \in Nat
    BY <1>0 DEF InClass, ProblemType
  <2>2. StartCounts \in [Capacities -> Nat] BY <1>0 DEF ProblemType
  <2> QED
    <3>1. Len(Start.sel) = 0 /\ Cardinality(Range(Start.sel)) = 0 BY <1>1, <1>2, <1>3
    <3>2. \A c \in Capacities :
            Start.counts[c] = StartCounts[c] + Cardinality(InClass(Range(Start.sel), c))
      <4> SUFFICES ASSUME NEW c \in Capacities
                   PROVE  StartCounts[c] = StartCounts[c] + Cardinality(InClass({}, c))
        BY <1>1, <1>2
      <4>1. InClass({}, c) = {} /\ StartCounts[c] \in Nat BY <2>1
      <4>2. Cardinality(InClass({}, c)) = 0 BY <1>3, <4>1
      <4> QED BY <4>1, <4>2
    <3> QED BY <1>1, <2>2, <3>1, <3>2 DEF Counted
<1>6. Paid(Start)
  <2>1. Unprotected({}) = {} BY DEF Unprotected
  <2>2. SumFunctionOnSet(Charges, {}) = 0 BY SumEmpty
  <2> QED
    <3>1. /\ SumFunctionOnSet(Charges, Range(Start.sel)) = 0
          /\ SumFunctionOnSet(Charges, Unprotected(Range(Start.sel))) = 0
      BY <1>2, <2>1, <2>2
    <3>2. StartPools.prot \in Nat /\ StartPools.free \in Nat BY <1>0 DEF ProblemType
    <3> QED BY <1>1, <3>1, <3>2 DEF Paid
<1>7. Fitting(Start) BY <1>0, <1>1, <1>2 DEF Fitting, ProblemType
<1> QED BY <1>4, <1>5, <1>6, <1>7 DEF Sound

-----------------------------------------------------------------------------

(* Scores and bounds are tuples of integers. *)

\* The image of a finite set is finite.
LEMMA ImageFinite ==
  ASSUME NEW S, IsFiniteSet(S), NEW f PROVE IsFiniteSet({f[x] : x \in S})
<1> DEFINE g == [x \in S |-> f[x]]
           T == {f[x] : x \in S}
<1>1. g \in Surjection(S, T) BY DEF Surjection
<1> QED BY <1>1, FS_Surjection

\* A sound partial wave has a score of four integers.
LEMMA ScoreType ==
  ASSUME Placed, NEW s, Sound(s)
  PROVE  /\ Score(s) \in Tuples(4) /\ s.ids \in Seq(Int)
         /\ Len(s.ids) = Len(s.sel)
         /\ \A k \in 1..Len(s.sel) : s.sel[k] \in DOMAIN rows /\ s.ids[k] = rows[s.sel[k]].id
<1>0. ProblemType BY ProblemTyped
<1>1. /\ s.sel \in Seq(DOMAIN rows) /\ Len(s.sel) \in Nat
      /\ s.ids = [k \in 1..Len(s.sel) |-> rows[s.sel[k]].id]
      /\ s.fair \in Nat /\ s.prio \in Nat /\ s.prot \in Nat /\ s.free \in Nat
  BY DEF Sound, Shaped, Paid
<1>2. \A k \in 1..Len(s.sel) : s.sel[k] \in DOMAIN rows /\ rows[s.sel[k]].id \in Int
  <2> SUFFICES ASSUME NEW k \in 1..Len(s.sel)
               PROVE  s.sel[k] \in DOMAIN rows /\ rows[s.sel[k]].id \in Int
    OBVIOUS
  <2>1. s.sel[k] \in DOMAIN rows BY <1>1
  <2>2. IsRow(rows[s.sel[k]]) BY <1>0, <2>1 DEF ProblemType
  <2> QED BY <2>1, <2>2, RowType
<1>3. s.ids \in Seq(Int) /\ Len(s.ids) = Len(s.sel) BY <1>1, <1>2
<1>4. Score(s) \in Tuples(4) BY <1>1 DEF Score, Tuples
<1> QED BY <1>1, <1>2, <1>3, <1>4

\* A gain has three components.
LEMMA GainType ==
  ASSUME ProblemType, NEW Q \in SUBSET DOMAIN rows
  PROVE  Gain(Q) \in Tuples(3)
<1>1. IsFiniteSet(Q) BY FS_Subset DEF ProblemType
<1>2. Cardinality(Q) \in Int BY <1>1, FS_CardinalityType
<1> DEFINE f == [p \in Q |-> Weight(rows[p])]
           g == [p \in Q |-> Priority(rows[p])]
<1>3. DOMAIN f = Q /\ DOMAIN g = Q /\ \A p \in Q : f[p] \in Int /\ g[p] \in Int
  BY RowType, SMTT(30) DEF ProblemType
<1> HIDE DEF f, g
<1>4. SumFunction(f) \in Int /\ SumFunction(g) \in Int
  BY <1>1, <1>3, SumType DEF SumFunction
<1>5. Gain(Q) = <<SumFunction(f), SumFunction(g), Cardinality(Q)>> BY DEF Gain, f, g
<1> QED BY <1>2, <1>4, <1>5 DEF Tuples

\* Scores are added component by component.
LEMMA PlusType ==
  ASSUME NEW a \in Tuples(4), NEW b \in Tuples(4)
  PROVE  /\ Plus(a, b) \in Tuples(4)
         /\ \A i \in 1..4 : Plus(a, b)[i] = a[i] + b[i]
<1>1. /\ a \in Seq(Int) /\ Len(a) = 4 /\ DOMAIN a = 1..4 /\ \A i \in 1..4 : a[i] \in Int
      /\ b \in Seq(Int) /\ Len(b) = 4 /\ \A i \in 1..4 : b[i] \in Int
  BY LenProperties, ElementOfSeq DEF Tuples
<1>2. Plus(a, b) = [i \in 1..4 |-> a[i] + b[i]] BY <1>1 DEF Plus
<1>3. [i \in 1..4 |-> a[i] + b[i]] \in [1..4 -> Int] BY <1>1
<1>4. \A x \in [1..4 -> Int] : x \in Seq(Int) /\ Len(x) = 4
  <2> SUFFICES ASSUME NEW x \in [1..4 -> Int] PROVE x \in Seq(Int) /\ Len(x) = 4 OBVIOUS
  <2>1. x \in Seq(Int) BY SeqDef, Zenon
  <2>2. DOMAIN x = 1..Len(x) /\ Len(x) \in Nat BY <2>1, LenProperties
  <2> QED BY <2>1, <2>2
<1> QED BY <1>2, <1>3, <1>4 DEF Tuples

\* A gain and a fourth integer make a score.
LEMMA TupleAppend ==
  ASSUME NEW m \in Tuples(3), NEW x \in Int PROVE Append(m, x) \in Tuples(4)
<1>1. m \in Seq(Int) /\ Len(m) = 3 BY DEF Tuples
<1>2. Append(m, x) \in Seq(Int) /\ Len(Append(m, x)) = Len(m) + 1
  BY <1>1, AppendProperties, ZenonT(30)
<1> QED BY <1>1, <1>2 DEF Tuples

\* The best of finitely many gains makes a score.
LEMMA CliqueType ==
  ASSUME ProblemType, NEW s, Score(s) \in Tuples(4), NEW F, IsFiniteSet(F), F # {},
         NEW f \in [F -> SUBSET DOMAIN rows]
  PROVE  Plus(Score(s), Append(LexMax({Gain(f[x]) : x \in F}), 0)) \in Tuples(4)
<1> DEFINE g == [x \in F |-> Gain(f[x])]
           S == {g[x] : x \in F}
<1>1. S = {Gain(f[x]) : x \in F} OBVIOUS
<1>2. IsFiniteSet(S) BY ImageFinite
<1>3. S # {} /\ S \subseteq Tuples(3) BY <1>1, GainType
<1> HIDE DEF S
<1>4. S \subseteq Seq(Int) BY <1>3 DEF Tuples
<1>5. LexMax(S) \in Tuples(3) BY <1>2, <1>3, <1>4, LexBounds
<1>6. Append(LexMax(S), 0) \in Tuples(4) BY <1>5, TupleAppend
<1> QED BY <1>1, <1>6, PlusType

\* The resource bound is a score.
LEMMA ResourceType ==
  ASSUME Placed, NEW s, Sound(s), NEW n \in Nat \ {0}
  PROVE  ResourceBound(s, n) \in Tuples(4)
<1>0. ProblemType /\ Score(s) \in Tuples(4) BY ProblemTyped, ScoreType
<1> DEFINE Paying(Q) == {p \in Q : Charge(rows[p]) > 0}
           Shared(Q) == {p \in Paying(Q) : ~Protected(rows[p])}
           Fit(Q, forbidden) ==
             /\ Cardinality(Q) <= Slots(s)
             /\ \A c \in Capacities :
                  Cardinality({p \in Q : CapacityClass(rows[p]) = c})
                    <= Room(s, c, forbidden)
             /\ Cardinality(Paying(Q)) <= (s.prot + s.free) \div MinGrant
             /\ Cardinality(Shared(Q)) <= s.free \div MinGrant
           Y == {R \in SUBSET Eligible(n) : \E f \in Forbidden(s) : Fit(R, f)}
           g == [Q \in Y |-> Append(Gain(Q), -(MinGrant * Cardinality(Paying(Q))))]
           S == {g[x] : x \in Y}
<1>1. ResourceBound(s, n) = Plus(Score(s), LexMax(S))
  <2>1. S = {Append(Gain(Q), -(MinGrant * Cardinality(Paying(Q)))) : Q \in Y} OBVIOUS
  <2> HIDE DEF S
  <2> QED BY <2>1 DEF ResourceBound
<1>2. Eligible(n) \in SUBSET DOMAIN rows /\ IsFiniteSet(Eligible(n))
  BY <1>0, FS_Subset DEF ProblemType, Eligible
<1>3. IsFiniteSet(SUBSET Eligible(n)) /\ Y \in SUBSET SUBSET Eligible(n) BY <1>2, FS_SUBSET
<1>4. IsFiniteSet(Y) BY <1>3, FS_Subset
<1>5. IsFiniteSet(S)
  <2> HIDE DEF Y, g
  <2> QED BY <1>4, ImageFinite
<1>6. S \subseteq Tuples(4)
  <2> SUFFICES ASSUME NEW Q \in Y PROVE g[Q] \in Tuples(4) OBVIOUS
  <2>1. Q \in SUBSET DOMAIN rows BY <1>2
  <2>2. Gain(Q) \in Tuples(3) BY <1>0, <2>1, GainType
  <2>3. Cardinality(Paying(Q)) \in Nat
    BY <2>1, <1>0, FS_Subset, FS_CardinalityType DEF ProblemType
  <2>4. -(MinGrant * Cardinality(Paying(Q))) \in Int BY <2>3, PositiveSizes
  <2>5. g[Q] = Append(Gain(Q), -(MinGrant * Cardinality(Paying(Q)))) OBVIOUS
  <2> HIDE DEF g, Paying, Y
  <2> QED BY <2>2, <2>4, <2>5, TupleAppend
<1>7. {} \in Y
  <2>1. \E f : f \in Forbidden(s) BY DEF Forbidden, Certification
  <2>2. Cardinality({}) = 0 BY FS_EmptySet
  <2>3. Slots(s) \in Nat BY <1>0 DEF Slots, Sound, Fitting, Shaped, ProblemType
  <2>4. \A c \in Capacities : \A f : Room(s, c, f) \in Nat
    BY <1>0 DEF ProblemType, Sound, Counted, Room, NonNegative
  <2>5. /\ s.prot \in Nat /\ s.free \in Nat /\ MinGrant \in Nat \ {0}
    BY PositiveSizes DEF Sound, Paid
  <2>6. (s.prot + s.free) \div MinGrant >= 0 /\ s.free \div MinGrant >= 0 BY <2>5
  <2>7. Paying({}) = {} /\ Shared({}) = {}
        /\ \A c \in Capacities : {p \in {} : CapacityClass(rows[p]) = c} = {}
    OBVIOUS
  <2>8. \A f : Fit({}, f)
    <3> HIDE DEF Paying, Shared
    <3>1. /\ Cardinality({}) <= Slots(s)
          /\ Cardinality(Paying({})) <= (s.prot + s.free) \div MinGrant
          /\ Cardinality(Shared({})) <= s.free \div MinGrant
      BY <2>2, <2>3, <2>6, <2>7
    <3>2. \A f : \A c \in Capacities :
            Cardinality({p \in {} : CapacityClass(rows[p]) = c}) <= Room(s, c, f)
      BY <2>2, <2>4, <2>7
    <3> QED BY <3>1, <3>2
  <2> HIDE DEF Fit
  <2> QED BY <2>1, <2>8
<1>8. S # {} /\ S \subseteq Seq(Int)
  <2> HIDE DEF Y
  <2> QED BY <1>6, <1>7 DEF Tuples
<1> HIDE DEF S
<1>9. LexMax(S) \in Tuples(4) BY <1>5, <1>6, <1>8, LexBounds
<1> QED BY <1>0, <1>1, <1>9, PlusType

\* There is always a class to forbid, and no more than two.
LEMMA ForbiddenFinite ==
  ASSUME NEW s PROVE IsFiniteSet(Forbidden(s)) /\ Forbidden(s) # {}
<1>1. /\ IsFiniteSet({"integration"}) /\ IsFiniteSet({"verification"})
      /\ IsFiniteSet({"verification"} \cup {"integration"})
  BY FS_Singleton, FS_AddElement
<1>2. Certification = {"verification"} \cup {"integration"} BY DEF Certification
<1> QED BY <1>1, <1>2 DEF Forbidden

\* The operators a clique bound is computed with name rows left to decide.
LEMMA CliqueBoundType ==
  ASSUME Placed, NEW s, Sound(s), NEW n \in Nat \ {0}, NEW g
  PROVE  CliqueBound(s, n, g) \in Tuples(4)
<1> DEFINE f == [b \in Forbidden(s) |-> Strongest(Pool(s, n, g, b), Slots(s))]
<1>0. ProblemType /\ Score(s) \in Tuples(4) BY ProblemTyped, ScoreType
<1>1. \A b \in Forbidden(s) : f[b] = Strongest(Pool(s, n, g, b), Slots(s)) OBVIOUS
<1>2. Eligible(n) \subseteq DOMAIN rows BY <1>0 DEF ProblemType, Eligible
<1>3. f \in [Forbidden(s) -> SUBSET DOMAIN rows]
  BY <1>2 DEF Strongest, Pool, Representatives, Leaders, Suffix
<1> HIDE DEF f
<1>4. CliqueBound(s, n, g) =
        Plus(Score(s), Append(LexMax({Gain(f[b]) : b \in Forbidden(s)}), 0))
  BY <1>1 DEF CliqueBound
<1> QED BY <1>0, <1>3, <1>4, ForbiddenFinite, CliqueType

\* The optimistic score is one of the five bounds.
LEMMA OptimisticType ==
  ASSUME Placed, NEW s, Sound(s), NEW n \in Nat \ {0}
  PROVE  /\ Optimistic(s, n) \in Tuples(4)
         /\ \/ Optimistic(s, n) = ResourceBound(s, n)
            \/ \E g \in Groupings : Optimistic(s, n) = CliqueBound(s, n, g)
<1> DEFINE c == [g \in Groupings |-> CliqueBound(s, n, g)]
           S == {c[g] : g \in Groupings} \cup {ResourceBound(s, n)}
<1>1. IsFiniteSet(Groupings)
  <2>1. Groupings = (({Routes} \cup {Targets}) \cup {Mixed("research")}) \cup {Mixed("adversarial")}
    BY DEF Groupings, Discovery
  <2>2. IsFiniteSet({Routes} \cup {Targets}) BY FS_Singleton, FS_AddElement
  <2>3. IsFiniteSet(({Routes} \cup {Targets}) \cup {Mixed("research")})
    BY <2>2, FS_AddElement
  <2> QED BY <2>1, <2>3, FS_AddElement
<1>2. IsFiniteSet(S)
  <2>1. IsFiniteSet({c[g] : g \in Groupings}) BY <1>1, ImageFinite
  <2> QED BY <2>1, FS_AddElement
<1>3. \A g \in Groupings : c[g] = CliqueBound(s, n, g) OBVIOUS
<1> HIDE DEF c
<1>4. Optimistic(s, n) = LexMin(S) BY <1>3 DEF Optimistic
<1>5. S \subseteq Tuples(4) /\ S # {} BY <1>3, CliqueBoundType, ResourceType
<1> HIDE DEF S
<1>6. LexMin(S) \in S BY <1>2, <1>5, LexBounds DEF Tuples
<1> QED BY <1>3, <1>4, <1>5, <1>6 DEF S

\* The least identifiers are a sequence of integers.
LEMMA LeastIdsType ==
  ASSUME Placed, NEW s, Sound(s), NEW n \in Nat \ {0}, NEW bound \in Tuples(4)
  PROVE  LeastIds(s, n, bound) \in Seq(Int)
<1>0. ProblemType /\ s.ids \in Seq(Int) /\ Len(s.sel) \in Nat
  BY ProblemTyped, ScoreType, LenProperties DEF Sound, Shaped
<1> DEFINE missing == bound[3] - Len(s.sel)
           Y == kSubset(missing, n..Len(rows))
           tail(Q) == [k \in 1..missing |-> rows[Sorted(Q, <)[k]].id]
           T == {tail(Q) : Q \in Y}
<1>1. missing \in Int
  <2>1. bound \in Seq(Int) /\ 3 \in 1..Len(bound)
    <3>1. bound \in Seq(Int) /\ Len(bound) = 4 BY DEF Tuples
    <3> QED BY <3>1
  <2> QED BY <1>0, <2>1, ElementOfSeq
<1>2. LeastIds(s, n, bound) =
        IF missing < 0 \/ T = {} THEN <<>> ELSE s.ids \o LexMin(T)
  <2>1. T = {[k \in 1..missing |-> rows[q[k]].id] : q \in {Sorted(Q, <) : Q \in Y}}
    BY ZenonT(30)
  <2> HIDE DEF T, Y
  <2> QED BY <2>1 DEF LeastIds, Y
<1>3. CASE missing < 0 \/ T = {} BY <1>2, <1>3, EmptySeq
<1>4. CASE missing >= 0 /\ T # {}
  <2>1. n..Len(rows) \in SUBSET DOMAIN rows BY <1>0 DEF ProblemType
  <2>2. IsFiniteSet(n..Len(rows)) BY <1>0, <2>1, FS_Subset DEF ProblemType
  <2>3. IsFiniteSet(Y) BY <2>2, FS_SUBSET, FS_Subset DEF kSubset
  <2>4. IsFiniteSet(T)
    <3> DEFINE g == [Q \in Y |-> tail(Q)]
    <3>1. T = {g[Q] : Q \in Y} OBVIOUS
    <3> HIDE DEF g, T, Y
    <3> QED BY <2>3, <3>1, ImageFinite
  <2>5. ASSUME NEW Q \in Y PROVE tail(Q) \in Seq(Int)
    <3>1. Q \subseteq DOMAIN rows /\ IsFiniteSet(Q) /\ Cardinality(Q) = missing
      BY <2>1, <2>2, FS_Subset DEF kSubset
    <3>2. Q \subseteq Int BY <1>0, <3>1 DEF ProblemType
    <3>3. Sorted(Q, <) \in Seq(Q) /\ Len(Sorted(Q, <)) = missing
      BY <3>1, <3>2, SortedIntegers
    <3> DEFINE q == Sorted(Q, <)
    <3> HIDE DEF q
    <3>4. ASSUME NEW k \in 1..missing PROVE rows[q[k]].id \in Int
      BY <3>3, ElementOfSeq, <1>0, <3>1, RowType DEF q, ProblemType
    <3> HIDE DEF missing, T
    <3>5. missing \in Nat BY <1>1, <1>4
    <3>6. [k \in 1..missing |-> rows[q[k]].id] \in Seq(Int) BY <3>4, <3>5
    <3> QED BY <3>6 DEF q
  <2>6. T \subseteq Seq(Int) BY <2>5
  <2> HIDE DEF T
  <2>7. LexMin(T) \in Seq(Int) BY <1>4, <2>4, <2>6, LexBounds
  <2>8. s.ids \o LexMin(T) \in Seq(Int) BY <1>0, <2>7, ConcatProperties
  <2> QED BY <1>1, <1>2, <1>4, <2>8
<1> HIDE DEF missing, T
<1> QED BY <1>1, <1>3, <1>4

-----------------------------------------------------------------------------

(* The greedy wave, rebuilt by the search. *)

(* A function may be defined by its first value and a step. *)
LEMMA Recursion ==
  ASSUME NEW G, NEW a \in G, NEW n \in Nat, NEW F \in [G \X (1..n) -> G]
  PROVE  \E f : Unfolds(f, G, a, n, F)
<1> DEFINE Upto(m) == \E f \in [0..m -> G] :
                        f[0] = a /\ \A k \in 1..m : f[k] = F[<<f[k - 1], k>>]
           X == {m \in Nat : m <= n => Upto(m)}
<1>1. 0 \in X
  <2> DEFINE g == [k \in 0..0 |-> a]
  <2>1. g \in [0..0 -> G] /\ g[0] = a OBVIOUS
  <2> HIDE DEF g
  <2>2. Upto(0) BY <2>1
  <2> HIDE DEF Upto
  <2> QED BY <2>2
<1>2. ASSUME NEW m \in Nat, m \in X PROVE m + 1 \in X
  <2> SUFFICES ASSUME m + 1 <= n PROVE Upto(m + 1) OBVIOUS
  <2>1. PICK f \in [0..m -> G] :
          f[0] = a /\ \A k \in 1..m : f[k] = F[<<f[k - 1], k>>]
    BY <1>2
  <2> DEFINE g == [k \in 0..(m + 1) |-> IF k = m + 1 THEN F[<<f[m], m + 1>>] ELSE f[k]]
  <2>2. f[m] \in G /\ m + 1 \in 1..n BY <2>1
  <2>3. F[<<f[m], m + 1>>] \in G BY <2>2
  <2>4. g \in [0..(m + 1) -> G] BY <2>1, <2>3
  <2>5. g[0] = a BY <2>1
  <2>6. ASSUME NEW k \in 1..(m + 1) PROVE g[k] = F[<<g[k - 1], k>>]
    <3>1. CASE k = m + 1
      <4>1. g[k - 1] = f[m] /\ g[k] = F[<<f[m], m + 1>>] BY <3>1
      <4> HIDE DEF g
      <4> QED BY <3>1, <4>1
    <3>2. CASE k \in 1..m
      <4>1. g[k - 1] = f[k - 1] /\ g[k] = f[k] BY <3>2
      <4> HIDE DEF g
      <4> QED BY <2>1, <3>2, <4>1
    <3> QED BY <3>1, <3>2
  <2> HIDE DEF g
  <2> QED BY <2>4, <2>5, <2>6
<1>3. \A m \in Nat : m \in X
  <2> HIDE DEF X
  <2> QED BY <1>1, <1>2, Induct
<1>4. Upto(n)
  <2> HIDE DEF Upto
  <2> QED BY <1>3
<1> QED BY <1>4 DEF Unfolds

\* The greedy wave's positions, in increasing order.
LEMMA GreedyPositionsType ==
  ASSUME ProblemType
  PROVE  /\ GreedyPositions \in Seq(GreedyRows) /\ Len(GreedyPositions) \in Nat
         /\ DOMAIN GreedyPositions = 1..Len(GreedyPositions)
         /\ \A k \in 1..Len(GreedyPositions) : GreedyPositions[k] \in GreedyRows
         /\ \A p \in GreedyRows : \E k \in 1..Len(GreedyPositions) : GreedyPositions[k] = p
         /\ \A j, k \in 1..Len(GreedyPositions) :
              j < k => GreedyPositions[j] < GreedyPositions[k]
<1>1. IsFiniteSet(GreedyRows) /\ GreedyRows \subseteq Int
  BY FS_Subset DEF ProblemType, GreedyRows
<1>2. GreedyPositions = Sorted(GreedyRows, <) BY DEF GreedyPositions, GreedyRows
<1>3. /\ Sorted(GreedyRows, <) \in Seq(GreedyRows)
      /\ Len(Sorted(GreedyRows, <)) = Cardinality(GreedyRows)
      /\ \A a \in GreedyRows : \E k \in 1..Cardinality(GreedyRows) :
           Sorted(GreedyRows, <)[k] = a
      /\ \A j, k \in 1..Cardinality(GreedyRows) :
           j < k => Sorted(GreedyRows, <)[j] < Sorted(GreedyRows, <)[k]
  BY <1>1, SortedIntegers
<1> DEFINE q == Sorted(GreedyRows, <)
<1> HIDE DEF q
<1>4. /\ q \in Seq(GreedyRows) /\ Len(q) = Cardinality(GreedyRows)
      /\ \A a \in GreedyRows : \E k \in 1..Len(q) : q[k] = a
      /\ \A j, k \in 1..Len(q) : j < k => q[j] < q[k]
  BY <1>3 DEF q
<1>5. Len(q) \in Nat /\ DOMAIN q = 1..Len(q) /\ \A k \in 1..Len(q) : q[k] \in GreedyRows
  BY <1>4, LenProperties, ElementOfSeq
<1> QED BY <1>2, <1>4, <1>5 DEF q

\* Including a row leads from draft to draft, sound or not.
LEMMA DraftSteps ==
  ASSUME Placed
  PROVE  /\ Start \in Drafts
         /\ \A s \in Drafts : \A p \in DOMAIN rows : Include(s, p) \in Drafts
<1>0. ProblemType BY ProblemTyped
<1>1. Start \in Drafts BY <1>0 DEF ProblemType, Start, Drafts
<1>2. ASSUME NEW s \in Drafts, NEW p \in DOMAIN rows PROVE Include(s, p) \in Drafts
  <2>1. /\ Charge(rows[p]) \in Int /\ Weight(rows[p]) \in Int /\ Priority(rows[p]) \in Int
        /\ rows[p].id \in Int /\ CapacityClass(rows[p]) \in Capacities
    BY <1>0, RowType DEF ProblemType
  <2>2. /\ s.sel \in Seq(Int) /\ s.ids \in Seq(Int) /\ s.blocks \in SUBSET Int
        /\ s.counts \in [Capacities -> Int]
        /\ s.prot \in Int /\ s.free \in Int /\ s.fair \in Int /\ s.prio \in Int
    BY DEF Drafts
  <2> DEFINE reserved == IF Protected(rows[p]) THEN Least(Charge(rows[p]), s.prot) ELSE 0
  <2>3. reserved \in Int BY <2>1, <2>2 DEF Least
  <2>4. p \in Int /\ Blocks(p) \in SUBSET Int BY <1>0 DEF ProblemType, Blocks
  <2>5. Append(s.sel, p) \in Seq(Int) /\ Append(s.ids, rows[p].id) \in Seq(Int)
    BY <2>1, <2>2, <2>4, AppendProperties
  <2>6. [s.counts EXCEPT ![CapacityClass(rows[p])] = @ + 1] \in [Capacities -> Int]
    BY <2>1, <2>2
  <2>7. Include(s, p) =
          [sel |-> Append(s.sel, p), ids |-> Append(s.ids, rows[p].id),
           blocks |-> s.blocks \cup Blocks(p),
           counts |-> [s.counts EXCEPT ![CapacityClass(rows[p])] = @ + 1],
           prot |-> s.prot - reserved, free |-> s.free - (Charge(rows[p]) - reserved),
           fair |-> s.fair + Weight(rows[p]), prio |-> s.prio + Priority(rows[p])]
    BY DEF Include
  <2> DEFINE sel == Append(s.sel, p)
             ids == Append(s.ids, rows[p].id)
             blocks == s.blocks \cup Blocks(p)
             counts == [s.counts EXCEPT ![CapacityClass(rows[p])] = @ + 1]
             prot == s.prot - reserved
             free == s.free - (Charge(rows[p]) - reserved)
             fair == s.fair + Weight(rows[p])
             prio == s.prio + Priority(rows[p])
  <2> HIDE DEF reserved
  <2>8. /\ sel \in Seq(Int) /\ ids \in Seq(Int) /\ blocks \in SUBSET Int
        /\ counts \in [Capacities -> Int]
        /\ prot \in Int /\ free \in Int /\ fair \in Int /\ prio \in Int
    <3>1. sel \in Seq(Int) /\ ids \in Seq(Int) BY <2>5
    <3>2. blocks \in SUBSET Int BY <2>2, <2>4
    <3>3. counts \in [Capacities -> Int] BY <2>6
    <3>4. prot \in Int /\ free \in Int /\ fair \in Int /\ prio \in Int
      <4>1. \A x, y \in Int : x - y \in Int /\ x + y \in Int OBVIOUS
      <4>2. Charge(rows[p]) - reserved \in Int BY <2>1, <2>3, <4>1
      <4> QED BY <2>1, <2>2, <2>3, <4>1, <4>2, Zenon
    <3> HIDE DEF sel, ids, blocks, counts, prot, free, fair, prio
    <3> QED BY <3>1, <3>2, <3>3, <3>4
  <2>9. Include(s, p) = [sel |-> sel, ids |-> ids, blocks |-> blocks, counts |-> counts,
                         prot |-> prot, free |-> free, fair |-> fair, prio |-> prio]
    BY <2>7
  <2> HIDE DEF sel, ids, blocks, counts, prot, free, fair, prio
  <2> QED BY <2>8, <2>9 DEF Drafts
<1> QED BY <1>1, <1>2

\* The rebuilt greedy wave includes its rows one by one.
LEMMA RebuiltSteps ==
  ASSUME Placed
  PROVE  /\ Rebuilt[0] = Start
         /\ \A k \in 1..Len(GreedyPositions) :
              Rebuilt[k] = Include(Rebuilt[k - 1], GreedyPositions[k])
<1> DEFINE n == Len(GreedyPositions)
           H(g) == g = [k \in 0..n |-> IF k = 0 THEN Start
                                       ELSE Include(g[k - 1], GreedyPositions[k])]
           F == [x \in Drafts \X (1..n) |-> Include(x[1], GreedyPositions[x[2]])]
<1>0. ProblemType BY ProblemTyped
<1>1. n \in Nat /\ \A k \in 1..n : GreedyPositions[k] \in DOMAIN rows
  BY <1>0, GreedyPositionsType DEF GreedyRows
<1>2. F \in [Drafts \X (1..n) -> Drafts] BY <1>1, DraftSteps
<1>3. \A s \in Drafts : \A k \in 1..n : F[<<s, k>>] = Include(s, GreedyPositions[k]) OBVIOUS
<1>4. PICK f \in [0..n -> Drafts] : f[0] = Start /\ \A k \in 1..n : f[k] = F[<<f[k - 1], k>>]
  <2> HIDE DEF F, n
  <2>1. Start \in Drafts BY DraftSteps
  <2>2. \E f : Unfolds(f, Drafts, Start, n, F) BY <1>1, <1>2, <2>1, Recursion
  <2> QED BY <2>2 DEF Unfolds
<1>5. H(f)
  <2> DEFINE h == [k \in 0..n |-> IF k = 0 THEN Start
                                  ELSE Include(f[k - 1], GreedyPositions[k])]
  <2>1. ASSUME NEW k \in 0..n PROVE f[k] = h[k]
    <3>1. CASE k = 0 BY <1>4, <3>1
    <3>2. CASE k \in 1..n
      <4>1. k - 1 \in 0..n /\ k # 0 BY <1>1, <3>2
      <4>2. f[k - 1] \in Drafts BY <4>1
      <4>3. f[k] = Include(f[k - 1], GreedyPositions[k])
        <5> HIDE DEF F
        <5> QED BY <1>3, <1>4, <3>2, <4>2
      <4> QED BY <4>1, <4>3
    <3> QED BY <1>1, <3>1, <3>2
  <2>2. f = [k \in 0..n |-> f[k]] /\ h = [k \in 0..n |-> h[k]] OBVIOUS
  <2>3. f = h
    <3> HIDE DEF h
    <3> QED BY <2>1, <2>2
  <2> QED BY <2>3
<1>6. Rebuilt = CHOOSE g : H(g) BY DEF Rebuilt
<1>7. H(Rebuilt)
  <2> HIDE DEF H
  <2> QED BY <1>5, <1>6
<1>8. 0 \in 0..n /\ \A k \in 1..n : k \in 0..n /\ k # 0 BY <1>1
<1>9. Rebuilt[0] = Start BY <1>8, <1>7
<1>10. ASSUME NEW k \in 1..n PROVE Rebuilt[k] = Include(Rebuilt[k - 1], GreedyPositions[k])
  BY <1>8, <1>7
<1> QED BY <1>9, <1>10

(* If each of its rows is admitted in turn, the greedy wave may run. *)
LEMMA RebuiltSound ==
  ASSUME Placed, GreedyAdmissible
  PROVE  \A k \in 0..Len(GreedyPositions) :
           /\ Sound(Rebuilt[k])
           /\ Range(Rebuilt[k].sel) = {GreedyPositions[j] : j \in 1..k}
<1> DEFINE n == Len(GreedyPositions)
           P == GreedyPositions
           Good(k) == Sound(Rebuilt[k]) /\ Range(Rebuilt[k].sel) = {P[j] : j \in 1..k}
           X == {k \in Nat : k <= n => Good(k)}
<1>0. ProblemType BY ProblemTyped
<1>1. /\ n \in Nat /\ DOMAIN P = 1..n /\ \A k \in 1..n : P[k] \in DOMAIN rows /\ P[k] \in Int
      /\ \A j, k \in 1..n : j < k => P[j] < P[k]
  BY <1>0, GreedyPositionsType DEF GreedyRows, ProblemType
<1>2. 0 \in X
  <2>1. Rebuilt[0] = Start BY RebuiltSteps
  <2>2. Sound(Start) BY StartSound
  <2>3. Range(Start.sel) = {} BY DEF Start, Range
  <2>4. {P[j] : j \in 1..0} = {} OBVIOUS
  <2>5. Good(0) BY <2>1, <2>2, <2>3, <2>4
  <2> HIDE DEF Good
  <2> QED BY <2>5
<1>3. ASSUME NEW k \in Nat, k \in X PROVE k + 1 \in X
  <2> SUFFICES ASSUME k + 1 <= n PROVE Good(k + 1) OBVIOUS
  <2>1. Sound(Rebuilt[k]) /\ Range(Rebuilt[k].sel) = {P[j] : j \in 1..k} BY <1>1, <1>3
  <2>2. k + 1 \in 1..n /\ (k + 1) - 1 = k BY <1>1
  <2>3. Rebuilt[k + 1] = Include(Rebuilt[k], P[k + 1]) BY <2>2, RebuiltSteps
  <2>4. Admits(Rebuilt[k], P[k + 1]) BY <1>1, <2>2 DEF GreedyAdmissible
  <2>5. P[k + 1] \in DOMAIN rows /\ P[k + 1] \notin Range(Rebuilt[k].sel)
    BY <1>1, <2>1, <2>2
  <2> DEFINE s == Rebuilt[k]
             t == Include(s, P[k + 1])
  <2> HIDE DEF s
  <2>6. Sound(t) BY <2>1, <2>4, <2>5, IncludeSound DEF s
  <2>7. Range(t.sel) = Range(s.sel) \cup {P[k + 1]} BY <2>1, <2>5, IncludeShape DEF s
  <2>8. {P[j] : j \in 1..(k + 1)} = {P[j] : j \in 1..k} \cup {P[k + 1]} OBVIOUS
  <2> HIDE DEF t
  <2>9. Sound(t) /\ Range(t.sel) = {P[j] : j \in 1..(k + 1)} BY <2>1, <2>6, <2>7, <2>8 DEF s
  <2> QED BY <2>3, <2>9 DEF t, s
<1>4. \A k \in Nat : k \in X
  <2> HIDE DEF X
  <2> QED BY <1>2, <1>3, Induct
<1>5. \A k \in 0..n : Good(k)
  <2> HIDE DEF Good
  <2> QED BY <1>1, <1>4
<1> QED BY <1>5

-----------------------------------------------------------------------------

(* The best of several partial waves. *)

\* Better compares any two partial waves.
LEMMA BetterOrder ==
  ASSUME Placed, NEW s, Sound(s), NEW t, Sound(t)
  PROVE  /\ Better(s, t) \/ Better(t, s) \/ (Score(s) = Score(t) /\ s.ids = t.ids)
         /\ Better(s, t) => LexAtMost(Score(t), Score(s))
         /\ ~Better(s, t) => LexAtMost(Score(s), Score(t))
         /\ ~(Better(s, t) /\ Better(t, s))
<1>1. /\ Score(s) \in Seq(Int) /\ Score(t) \in Seq(Int)
      /\ s.ids \in Seq(Int) /\ t.ids \in Seq(Int)
  BY ScoreType DEF Tuples
<1>2. /\ Score(s) = Score(t) \/ LexLess(Score(s), Score(t)) \/ LexLess(Score(t), Score(s))
      /\ s.ids = t.ids \/ LexLess(s.ids, t.ids) \/ LexLess(t.ids, s.ids)
  BY <1>1, LexTotal
<1>3. /\ ~(LexLess(Score(s), Score(t)) /\ LexLess(Score(t), Score(s)))
      /\ ~(LexLess(s.ids, t.ids) /\ LexLess(t.ids, s.ids))
      /\ ~LexLess(Score(s), Score(s)) /\ ~LexLess(Score(t), Score(t))
  BY <1>1, LexTransitive, LexIrreflexive
<1> QED BY <1>2, <1>3 DEF Better, LexAtMost

\* Better is transitive.
LEMMA BetterTransitive ==
  ASSUME Placed, NEW s, Sound(s), NEW t, Sound(t), NEW u, Sound(u),
         Better(s, t), Better(t, u)
  PROVE  Better(s, u)
<1>1. /\ Score(s) \in Seq(Int) /\ Score(t) \in Seq(Int) /\ Score(u) \in Seq(Int)
      /\ s.ids \in Seq(Int) /\ t.ids \in Seq(Int) /\ u.ids \in Seq(Int)
  BY ScoreType DEF Tuples
<1>2. LexLess(Score(u), Score(t)) /\ LexLess(Score(t), Score(s))
        => LexLess(Score(u), Score(s))
  BY <1>1, LexTransitive
<1>3. LexLess(s.ids, t.ids) /\ LexLess(t.ids, u.ids) => LexLess(s.ids, u.ids)
  BY <1>1, LexTransitive
<1>4. /\ LexLess(Score(t), Score(s)) \/ (Score(s) = Score(t) /\ LexLess(s.ids, t.ids))
      /\ LexLess(Score(u), Score(t)) \/ (Score(t) = Score(u) /\ LexLess(t.ids, u.ids))
  BY DEF Better
<1> QED BY <1>2, <1>3, <1>4 DEF Better

\* Finitely many unlike partial waves have a best one.
LEMMA BestExists ==
  ASSUME Placed, NEW S, IsFiniteSet(S), S # {}, \A s \in S : Sound(s), Unlike(S)
  PROVE  Best(S) \in S /\ \A t \in S \ {Best(S)} : Better(Best(S), t)
<1> DEFINE Top(T) == \E m \in T : \A t \in T \ {m} : Better(m, t)
           X == {T \in SUBSET S : T # {} => Top(T)}
<1>1. {} \in X OBVIOUS
<1>2. ASSUME NEW T \in SUBSET S, NEW y \in S \ T, T \in X PROVE T \cup {y} \in X
  BY <1>2, BetterOrder, BetterTransitive DEF Unlike
<1>3. S \in X
  <2> HIDE DEF X
  <2> QED BY <1>1, <1>2, InductOnSets
<1>4. Top(S) BY <1>3
<1> QED BY <1>4 DEF Best

\* Pruning never drops the best of them.
LEMMA KeptBest ==
  ASSUME Placed, NEW S, IsFiniteSet(S), S # {}, \A s \in S : Sound(s), Unlike(S), NEW n
  PROVE  Best(S) \in Nondominated(Quotient(S, n), n)
<1> DEFINE m == Best(S)
<1>1. m \in S /\ \A t \in S \ {m} : Better(m, t) BY BestExists
<1> HIDE DEF m
<1>2. Sound(m) /\ Score(m) \in Seq(Int) /\ m.ids \in Seq(Int) BY <1>1, ScoreType DEF Tuples
<1>3. ASSUME NEW t \in S, FutureKey(m, n) = FutureKey(t, n), LexLess(t.ids, m.ids)
      PROVE  FALSE
  BY <1>2, <1>3, LexIrreflexive, <1>1, BetterOrder DEF FutureKey, Better
<1>4. m \in Quotient(S, n) BY <1>1, <1>3 DEF Quotient
<1>5. ASSUME NEW t \in Quotient(S, n) \ {m}, Dominates(t, m, n) PROVE FALSE
  BY <1>1, <1>5, ScoreType, <1>2, LexTransitive, LexIrreflexive DEF Quotient, Tuples,
       Dominates, Better, LexAtMost
<1> QED BY <1>4, <1>5 DEF Nondominated, m

\* Growing a layer by a row keeps it sound and unlike.
LEMMA GrownSound ==
  ASSUME Placed, NEW B, IsFiniteSet(B), NEW p \in DOMAIN rows, Unlike(B),
         \A s \in B : Sound(s) /\ p \notin Range(s.sel)
  PROVE  /\ IsFiniteSet(Grown(B, p)) /\ Unlike(Grown(B, p))
         /\ \A s \in Grown(B, p) : Sound(s)
         /\ \A s \in Grown(B, p) : \E t \in B : Range(s.sel) \subseteq Range(t.sel) \cup {p}
<1>0. ProblemType BY ProblemTyped
<1> DEFINE A == {t \in B : Admits(t, p)}
           N == {Include(s, p) : s \in A}
<1>1. Grown(B, p) = B \cup N /\ A \subseteq B BY DEF Grown
<1>2. IsFiniteSet(B \cup N)
  <2>1. IsFiniteSet(A) BY <1>1, FS_Subset
  <2>2. IsFiniteSet(N)
    <3> DEFINE g == [s \in A |-> Include(s, p)]
    <3>1. N = {g[s] : s \in A} OBVIOUS
    <3> HIDE DEF g, N, A
    <3> QED BY <2>1, <3>1, ImageFinite
  <2> HIDE DEF N
  <2> QED BY <2>2, FS_Union
<1>3. ASSUME NEW s \in A
      PROVE  /\ Sound(Include(s, p))
             /\ Include(s, p).ids = Append(s.ids, rows[p].id)
             /\ Range(Include(s, p).sel) = Range(s.sel) \cup {p}
  BY IncludeSound, IncludeShape
<1>4. ASSUME NEW s \in A, NEW t \in A, Include(s, p).ids = Include(t, p).ids PROVE s = t
  <2>1. s.ids \in Seq(Int) /\ t.ids \in Seq(Int) /\ rows[p].id \in Int
    BY <1>0, ScoreType, RowType DEF ProblemType
  <2>2. Append(s.ids, rows[p].id) = Append(t.ids, rows[p].id) BY <1>3, <1>4
  <2>3. s.ids = t.ids
    <3> DEFINE a == s.ids
               b == t.ids
               i == rows[p].id
    <3>1. a \in Seq(Int) /\ b \in Seq(Int) /\ i \in Int /\ Append(a, i) = Append(b, i)
      BY <2>1, <2>2
    <3> HIDE DEF a, b, i
    <3>2. a = b BY ONLY <3>1, AppendInjective
    <3> QED BY <3>2 DEF a, b
  <2> QED BY <2>3 DEF Unlike
<1>5. ASSUME NEW s \in A, NEW t \in B, Include(s, p).ids = t.ids PROVE FALSE
  <2>1. s.ids \in Seq(Int) /\ rows[p].id \in Int /\ t.ids \in Seq(Int)
        /\ Len(t.ids) = Len(t.sel) /\ t.sel \in Seq(DOMAIN rows)
        /\ \A k \in 1..Len(t.sel) : t.sel[k] \in DOMAIN rows /\ t.ids[k] = rows[t.sel[k]].id
    BY <1>0, ScoreType, RowType DEF ProblemType, Sound, Shaped
  <2>2. t.ids = Append(s.ids, rows[p].id) BY <1>3, <1>5
  <2>3. PICK k \in 1..Len(t.sel) : t.ids[k] = rows[p].id
    BY <2>1, AppendProperties, LenProperties, <2>2
  <2>4. t.sel[k] = p
    <3>1. t.sel[k] \in DOMAIN rows /\ rows[t.sel[k]].id = rows[p].id BY <2>1, <2>3
    <3>2. \A a, b \in DOMAIN rows : rows[a].id = rows[b].id => a = b BY <1>0 DEF ProblemType
    <3> QED BY <3>1, <3>2
  <2>5. t.sel[k] \in Range(t.sel) BY <2>1, RangeOf
  <2> QED BY <2>4, <2>5
<1>6. Unlike(B \cup N) BY <1>4, <1>5 DEF Unlike
<1>7. \A s \in B \cup N : Sound(s) BY <1>3
<1>8. \A s \in B \cup N : \E t \in B : Range(s.sel) \subseteq Range(t.sel) \cup {p}
  BY <1>3, <1>1
<1> HIDE DEF N
<1> QED BY <1>1, <1>2, <1>6, <1>7, <1>8

-----------------------------------------------------------------------------

(* The invariant of the search. *)

\* The problem never changes, so a sound partial wave stays sound.
LEMMA SoundStable ==
  ASSUME wave' = wave, rows' = rows
  PROVE  \A s : Sound(s)' <=> Sound(s)
  BY DEF Sound, Shaped, Counted, Paid, Fitting, Charges, InClass, Unprotected, StartCounts,
         StartPools, MaxCompanions, Conflict, Structural, Ownership, Exclusive, SameRoute,
         SameTarget, Identity, CapacityClass, Protected, Charge, NonNegative, Least, Range

\* So do entries, layers and cuts.
LEMMA OpenStable ==
  ASSUME wave' = wave, rows' = rows
  PROVE  /\ \A e : IsEntry(e)' <=> IsEntry(e)
         /\ \A B : \A n : IsLayer(B, n)' <=> IsLayer(B, n)
         /\ \A c : IsCut(c)' <=> IsCut(c)
<1>1. \A s : Sound(s)' <=> Sound(s) BY SoundStable
<1>2. \A e : IsEntry(e)' <=> IsEntry(e) BY <1>1 DEF IsEntry, Tuples, Range
<1>3. \A B : \A n : IsLayer(B, n)' <=> IsLayer(B, n) BY <1>1 DEF IsLayer, Unlike, Range
<1>4. \A c : IsCut(c)' <=> IsCut(c) BY <1>2 DEF IsCut, Tuples
<1> QED BY <1>2, <1>3, <1>4

\* So does the placement itself.
LEMMA PlacedStable ==
  ASSUME Placed, wave' = wave, rows' = rows PROVE Placed'
<1>1. \A r : Searchable(r)' <=> Searchable(r)
  BY DEF Searchable, Conflict, Structural, Ownership, Exclusive, SameRoute, SameTarget,
         Identity, CapacityClass, Protected, NonNegative, Least, StartCounts, StartPools,
         MaxCompanions, Available
<1>2. Searched' = Searched BY <1>1 DEF Searched
<1>3. Lists(rows, Searched)' BY <1>2 DEF Placed, Lists
<1> QED BY <1>3 DEF Placed

\* Rating a sound partial wave makes an entry.
LEMMA RatedType ==
  ASSUME Placed, NEW s, Sound(s), NEW n \in 1..(Len(rows) + 1),
         \A p \in Range(s.sel) : p < n
  PROVE  IsEntry(Rated(s, n))
<1>1. n \in Nat \ {0} BY ProblemTyped DEF ProblemType
<1>2. Optimistic(s, n) \in Tuples(4) BY <1>1, OptimisticType
<1>3. LeastIds(s, n, Optimistic(s, n)) \in Seq(Int) BY <1>1, <1>2, LeastIdsType
<1> QED BY <1>2, <1>3 DEF IsEntry, Rated

(* A layer of the beam keeps the invariant. *)

\* Cutting off entries leaves a cut.
LEMMA CutOffType ==
  ASSUME IsCut(cut), NEW D, IsFiniteSet(D), D # {}, \A e \in D : IsEntry(e)
  PROVE  IsCut(CutOff(D))
<1> DEFINE b == LexMax({e.bound : e \in D})
           L == {f \in D : f.bound = b}
           i == LexMin({e.least : e \in L})
           P == cut.parked \cup D
<1>1. b \in {e.bound : e \in D} /\ b \in Tuples(4)
  <2> DEFINE g == [e \in D |-> e.bound]
  <2>1. {e.bound : e \in D} = {g[e] : e \in D} OBVIOUS
  <2> HIDE DEF g
  <2>2. IsFiniteSet({e.bound : e \in D}) BY <2>1, ImageFinite
  <2>3. {e.bound : e \in D} \subseteq Tuples(4) /\ {e.bound : e \in D} # {} BY DEF IsEntry
  <2>4. {e.bound : e \in D} \subseteq Seq(Int) BY <2>3 DEF Tuples
  <2> QED BY <2>2, <2>3, <2>4, LexBounds
<1>2. i \in Seq(Int)
  <2> HIDE DEF b
  <2>1. IsFiniteSet(L) /\ L # {} /\ \A e \in L : IsEntry(e) BY <1>1, FS_Subset
  <2> HIDE DEF L
  <2> DEFINE g == [e \in L |-> e.least]
  <2>2. {e.least : e \in L} = {g[e] : e \in L} OBVIOUS
  <2> HIDE DEF g
  <2>3. IsFiniteSet({e.least : e \in L}) BY <2>1, <2>2, ImageFinite
  <2>4. {e.least : e \in L} \subseteq Seq(Int) /\ {e.least : e \in L} # {}
    BY <2>1 DEF IsEntry
  <2> QED BY <2>3, <2>4, LexBounds
<1>3. IsFiniteSet(P) /\ \A e \in P : IsEntry(e) BY FS_Union DEF IsCut
<1>4. cut.ids \in Seq(Int) /\ cut.bound \in Tuples(4) => LexMin({i, cut.ids}) \in Seq(Int)
  <2> HIDE DEF i
  <2>1. IsFiniteSet({i, cut.ids})
    <3>1. IsFiniteSet({} \cup {i}) /\ IsFiniteSet(({} \cup {i}) \cup {cut.ids})
      BY FS_EmptySet, FS_AddElement
    <3>2. ({} \cup {i}) \cup {cut.ids} = {i, cut.ids} OBVIOUS
    <3> QED BY <3>1, <3>2
  <2>2. cut.ids \in Seq(Int) => {i, cut.ids} \subseteq Seq(Int) /\ {i, cut.ids} # {} BY <1>2
  <2> QED BY <2>1, <2>2, LexBounds
<1>5. IsFiniteSet({}) BY FS_EmptySet
<1> DEFINE fresh == cut.bound = <<>> \/ LexLess(cut.bound, b)
           c == CutOff(D)
<1>6. /\ c.bound = IF fresh THEN b ELSE cut.bound
      /\ c.ids = IF fresh THEN i ELSE IF b = cut.bound THEN LexMin({i, cut.ids}) ELSE cut.ids
      /\ c.parked = {} \/ c.parked = P
  BY DEF CutOff
<1>7. cut.bound = <<>> \/ (cut.bound \in Tuples(4) /\ cut.ids \in Seq(Int)) BY DEF IsCut
<1> HIDE DEF b, i, P, c
<1>8. IsCut(c) BY <1>1, <1>2, <1>3, <1>4, <1>5, <1>6, <1>7 DEF IsCut
<1> QED BY <1>8 DEF c

\* The rows of a sound partial wave are positions.
LEMMA SelType ==
  ASSUME ProblemType, NEW s, Sound(s)
  PROVE  Range(s.sel) \subseteq DOMAIN rows /\ \A p \in Range(s.sel) : p \in Nat
<1>1. s.sel \in Seq(DOMAIN rows) BY DEF Sound, Shaped
<1>2. Range(s.sel) \subseteq DOMAIN rows BY <1>1, RangeOf
<1>3. DOMAIN rows = 1..Len(rows) /\ Len(rows) \in Nat BY DEF ProblemType
<1> QED BY <1>2, <1>3

\* A step of the beam keeps the invariant.
LEMMA LayerKeeps == ASSUME SearchInv, Layer PROVE SearchInv'
<1> DEFINE n == layer + 2
           grown == Grown(beam, layer + 1)
           kept == Nondominated(Quotient(grown, n), n)
           leader == Best(kept)
           incumbent == IF Better(leader, best) THEN leader ELSE best
           rated == {Rated(s, n) : s \in kept}
           viable == {e \in rated : Promising(e, incumbent)}
           first == {e \in viable :
                       Cardinality({f \in viable : Ahead(f, e)}) < BeamWidth}
<1>1. /\ phase = "beam" /\ layer < Len(rows) /\ beam # {}
      /\ best' = incumbent
      /\ \/ beam' = {} /\ cut' = cut
         \/ /\ beam' = {e.state : e \in first}
            /\ cut' = IF viable = first THEN cut ELSE CutOff(viable \ first)
      /\ layer' = layer + 1
      /\ UNCHANGED <<wave, rows, queue, reps, nodes, phase, granted>>
  BY DEF Layer, Grown, Best
<1>2. first \subseteq viable /\ viable \subseteq rated OBVIOUS
<1>3. Placed /\ Sound(best) /\ IsLayer(beam, layer) /\ IsCut(cut)
      /\ IsFiniteSet(queue) /\ (\A e \in queue : IsEntry(e))
  BY <1>1 DEF SearchInv, Open
<1>4. ProblemType BY <1>3, ProblemTyped
<1>5. /\ layer \in Nat /\ Len(rows) \in Nat /\ layer + 1 \in DOMAIN rows
      /\ n \in 1..(Len(rows) + 1)
  BY <1>1, <1>4 DEF SearchInv, Counters, ProblemType
<1>6. /\ IsFiniteSet(grown) /\ Unlike(grown) /\ grown # {}
      /\ \A s \in grown : Sound(s) /\ \A p \in Range(s.sel) : p <= layer + 1
  <2>1. IsFiniteSet(beam) /\ Unlike(beam)
        /\ \A s \in beam : Sound(s) /\ \A p \in Range(s.sel) : p <= layer /\ p \in Int
    BY <1>3, <1>4, SelType DEF IsLayer
  <2>2. ASSUME NEW s \in beam PROVE layer + 1 \notin Range(s.sel)
    <3>1. layer + 1 \in Range(s.sel) => layer + 1 <= layer BY <2>1
    <3> QED BY <1>5, <3>1
  <2>3. /\ IsFiniteSet(grown) /\ Unlike(grown) /\ \A s \in grown : Sound(s)
        /\ \A s \in grown : \E t \in beam : Range(s.sel) \subseteq Range(t.sel) \cup {layer + 1}
    BY <1>3, <1>5, <2>1, <2>2, GrownSound
  <2>4. grown # {} BY <1>1 DEF Grown
  <2> HIDE DEF grown
  <2>5. ASSUME NEW s \in grown, NEW p \in Range(s.sel) PROVE p <= layer + 1
    <3>1. PICK t \in beam : Range(s.sel) \subseteq Range(t.sel) \cup {layer + 1} BY <2>3
    <3>2. p = layer + 1 \/ (p <= layer /\ p \in Int) BY <2>1, <3>1
    <3> QED BY <1>5, <3>2
  <2> QED BY <2>3, <2>4, <2>5
<1> HIDE DEF grown
<1>7. kept \subseteq grown /\ kept # {} BY <1>3, <1>6, KeptBest DEF Nondominated, Quotient
<1> HIDE DEF kept
<1>8. /\ IsFiniteSet(kept) /\ Unlike(kept)
      /\ \A s \in kept : Sound(s) /\ \A p \in Range(s.sel) : p <= layer + 1
  BY <1>6, <1>7, FS_Subset DEF Unlike
<1>9. Sound(leader) BY <1>3, <1>7, <1>8, BestExists
<1> HIDE DEF leader
<1>10. Sound(incumbent) BY <1>3, <1>9
<1> HIDE DEF incumbent
<1>11. \A s \in kept : IsEntry(Rated(s, n)) /\ Rated(s, n).state = s
  <2> SUFFICES ASSUME NEW s \in kept PROVE IsEntry(Rated(s, n)) /\ Rated(s, n).state = s
    OBVIOUS
  <2>1. \A p \in Range(s.sel) : p < n
    <3>1. \A p \in Range(s.sel) : p \in Nat /\ p <= layer + 1 BY <1>4, <1>8, SelType
    <3> HIDE DEF n
    <3>2. n = layer + 2 BY DEF n
    <3> QED BY <1>5, <3>1, <3>2
  <2>2. Rated(s, n).state = s BY DEF Rated
  <2> QED BY <1>3, <1>5, <1>8, <2>1, <2>2, RatedType
<1>12. IsFiniteSet(rated) /\ \A e \in rated : IsEntry(e) /\ e.state \in kept
  <2> DEFINE g == [s \in kept |-> Rated(s, n)]
  <2>1. rated = {g[s] : s \in kept} OBVIOUS
  <2> HIDE DEF g
  <2>2. IsFiniteSet(rated) BY <1>8, <2>1, ImageFinite
  <2> QED BY <1>11, <2>2
<1> HIDE DEF rated
<1>13. IsFiniteSet(viable) /\ IsFiniteSet(first) /\ IsFiniteSet(viable \ first)
  BY <1>2, <1>12, FS_Subset
<1> HIDE DEF viable, first
<1>14. IsLayer(beam', layer + 1)
  <2>1. IsFiniteSet({e.state : e \in first}) /\ {e.state : e \in first} \subseteq kept
    <3> DEFINE g == [e \in first |-> e.state]
    <3>1. {e.state : e \in first} = {g[e] : e \in first} OBVIOUS
    <3> HIDE DEF g
    <3> QED BY <1>2, <1>12, <1>13, <3>1, ImageFinite
  <2>2. IsFiniteSet({}) BY FS_EmptySet
  <2>3. IsFiniteSet(beam') /\ beam' \subseteq kept BY <1>1, <2>1, <2>2
  <2> QED BY <1>8, <2>3 DEF IsLayer, Unlike
<1>15. IsCut(cut') BY <1>1, <1>2, <1>3, <1>12, <1>13, CutOffType
<1>16. Placed' /\ Open'
  BY <1>1, <1>3, <1>10, <1>14, <1>15, SoundStable, OpenStable, PlacedStable DEF Open
<1>17. Counters' BY <1>1, <1>5 DEF Counters, SearchInv
<1>18. Compared' /\ Settles' BY <1>1 DEF Compared, Settles
<1> QED BY <1>16, <1>17, <1>18 DEF SearchInv

\* The greedy wave never changes.
LEMMA GreedyStable ==
  ASSUME wave' = wave, rows' = rows
  PROVE  (GreedyAdmissible' <=> GreedyAdmissible) /\ GreedyState' = GreedyState
<1>1. /\ StartCounts' = StartCounts /\ StartPools' = StartPools /\ Start' = Start
      /\ MaxCompanions' = MaxCompanions /\ GreedyStart' = GreedyStart
      /\ Everything' = Everything
  BY DEF StartCounts, StartPools, Start, MaxCompanions, GreedyStart, Everything
<1>2. \A g : \A r : Fits(g, r)' <=> Fits(g, r) BY <1>1 DEF Fits, CapacityClass
<1>3. \A g : \A r : \A l : Demand(g, r, l)' = Demand(g, r, l)
  <2>1. \A g : \A r : \A l : Followers(g, r, l)' = Followers(g, r, l) BY <1>2 DEF Followers
  <2> QED BY <2>1 DEF Demand
<1>4. \A g : \A k : GreedyStep(g, k)' = GreedyStep(g, k)
  <2> SUFFICES ASSUME NEW g, NEW k PROVE GreedyStep(g, k)' = GreedyStep(g, k) OBVIOUS
  <2>1. \A r : \A l : Offer(g, r, l)' = Offer(g, r, l) BY <1>3 DEF Offer
  <2> QED BY <1>1, <1>2, <2>1 DEF GreedyStep
<1>5. Walk' = Walk BY <1>1, <1>4 DEF Walk
<1>6. GreedyPositions' = GreedyPositions
  <2>1. Greedy' = Greedy BY <1>1, <1>5 DEF Greedy
  <2>2. GreedyRows' = GreedyRows BY <2>1 DEF GreedyRows
  <2> DEFINE F(S) == Sorted(S, <)
  <2>3. GreedyPositions = F(GreedyRows) BY DEF GreedyPositions, GreedyRows
  <2>4. GreedyPositions' = F(GreedyRows') BY DEF GreedyPositions, GreedyRows, Sorted
  <2> HIDE DEF F
  <2> QED BY <2>2, <2>3, <2>4
<1>7. \A s : \A p : Include(s, p)' = Include(s, p) /\ (Admits(s, p)' <=> Admits(s, p))
  BY <1>1 DEF Include, Admits, Charge, Blocks, Available
<1>8. Rebuilt' = Rebuilt BY <1>1, <1>6, <1>7 DEF Rebuilt
<1> QED BY <1>6, <1>7, <1>8 DEF GreedyAdmissible, GreedyState

\* So does the comparison with the greedy wave.
LEMMA CompareKeeps == ASSUME SearchInv, CompareGreedy PROVE SearchInv'
<1>1. /\ phase = "beam" /\ phase' # "beam"
      /\ UNCHANGED <<wave, rows, layer, beam, cut, nodes, granted>>
      /\ phase' \in {"refused", "complete", "allocate"}
      /\ phase' # "refused" => GreedyAdmissible
      /\ phase' = "allocate" => ~Unsettled(best')
      /\ best' = IF GreedyAdmissible /\ Better(GreedyState, best) THEN GreedyState ELSE best
      /\ \/ queue' = queue
         \/ queue' = Entering({Rated(Start, 1)}, best')
         \/ queue' = Entering(cut.parked, best')
  BY DEF CompareGreedy
<1>2. Placed /\ Sound(best) /\ IsCut(cut) /\ IsFiniteSet(queue) /\ \A e \in queue : IsEntry(e)
  BY <1>1 DEF SearchInv, Open
<1>3. ProblemType BY <1>2, ProblemTyped
<1>4. GreedyAdmissible => Sound(GreedyState)
  BY <1>3, GreedyPositionsType, <1>2, RebuiltSound DEF GreedyState
<1>5. Sound(best') BY <1>1, <1>2, <1>4
<1>6. IsFiniteSet(queue') /\ \A e \in queue' : IsEntry(e)
  <2>1. IsEntry(Rated(Start, 1)) /\ IsFiniteSet({Rated(Start, 1)})
    <3>1. Sound(Start) /\ \A p \in Range(Start.sel) : p < 1
      BY <1>2, StartSound DEF Start, Range
    <3>2. 1 \in 1..(Len(rows) + 1) BY <1>3 DEF ProblemType
    <3> QED BY <1>2, <3>1, <3>2, RatedType, FS_Singleton
  <2>2. \A S : \A b : Entering(S, b) \subseteq S BY DEF Entering
  <2>3. IsFiniteSet(cut.parked) /\ \A e \in cut.parked : IsEntry(e) BY <1>2 DEF IsCut
  <2>4. queue' \subseteq queue \/ queue' \subseteq {Rated(Start, 1)} \/ queue' \subseteq cut.parked
    BY <1>1, <2>2
  <2> QED BY <1>2, <2>1, <2>3, <2>4, FS_Subset
<1>7. Placed' /\ Open' /\ Counters'
  BY <1>1, <1>2, <1>5, <1>6, SoundStable, OpenStable, PlacedStable DEF Open, Counters, SearchInv
<1>8. Compared'
  BY <1>1, GreedyStable, <1>2, <1>4, BetterOrder DEF Compared, Score, LexAtMost
<1>9. Settles'
  <2> SUFFICES ASSUME ~Unsettled(best') PROVE CertifiedIds' BY <1>1 DEF Settles
  <2>1. Score(best') \in Tuples(4) BY <1>2, <1>5, ScoreType
  <2> DEFINE c == cut.bound
             v == Score(best')
  <2>2. c = <<>> \/ c \in Tuples(4) BY <1>2 DEF IsCut
  <2>3. c = <<>> \/ (~LexLess(v, c) /\ ~(c = v /\ LexLess(cut.ids, best'.ids)))
    BY DEF Unsettled
  <2>4. c # v \/ c # <<>> BY <2>1 DEF Tuples
  <2>5. c \in Tuples(4) /\ ~LexLess(v, c) => c = v \/ LexLess(c, v)
    BY <2>1, LexTotal DEF Tuples
  <2> HIDE DEF c, v
  <2>6. (c = <<>> \/ c = v \/ LexLess(c, v)) /\ ~(c = v /\ LexLess(cut.ids, best'.ids))
    BY <2>2, <2>3, <2>4, <2>5
  <2> QED BY <1>1, <2>6 DEF CertifiedIds, Certified, LexAtMost, c, v, Score
<1> QED BY <1>7, <1>8, <1>9 DEF SearchInv

\* So does the expansion of a node.
LEMMA ExpandKeeps == ASSUME SearchInv, Expand PROVE SearchInv'
<1>1. /\ phase = "complete" /\ nodes < NodeLimit /\ nodes' = nodes + 1
      /\ UNCHANGED <<wave, rows, layer, beam, cut, phase, granted>>
  BY DEF Expand, MayExpand
<1>2. /\ Placed /\ Sound(best) /\ IsLayer(beam, layer)
      /\ IsFiniteSet(queue) /\ (\A e \in queue : IsEntry(e))
      /\ GreedyAdmissible /\ LexAtMost(Score(GreedyState), Score(best))
  BY <1>1 DEF SearchInv, Open, Compared
<1>3. ProblemType BY <1>2, ProblemTyped
<1> DEFINE Sons(e) ==
             IF ~(~Stale(e) /\ Promising(e, best) /\ e.at <= Len(rows)) THEN {}
             ELSE {e.state} \union
                    (IF Admits(e.state, e.at) THEN {Include(e.state, e.at)} ELSE {})
           Victors(e) ==
             {s \in Sons(e) \union (IF ~Stale(e) /\ Promising(e, best)
                                        THEN {e.state} ELSE {}) : Better(s, best)}
           Notes(e) == {Rated(s, e.at + 1) : s \in Sons(e)}
<1>4. PICK e \in queue :
        /\ best' = IF Victors(e) = {} THEN best ELSE Best(Victors(e))
        /\ queue' = (queue \ {e}) \cup Entering(Notes(e), best')
  BY DEF Expand, Best
<1>5. IsEntry(e) BY <1>2, <1>4
<1>6. e.at \in Nat \ {0} /\ Len(rows) \in Nat /\ (e.at <= Len(rows) => e.at \in DOMAIN rows)
  BY <1>3, <1>5 DEF IsEntry, ProblemType
<1> DEFINE G == Grown({e.state}, e.at)
<1>7. e.at <= Len(rows) =>
        /\ IsFiniteSet(G) /\ Unlike(G)
        /\ \A s \in G : Sound(s) /\ \A p \in Range(s.sel) : p < e.at + 1
  <2> SUFFICES ASSUME e.at <= Len(rows)
               PROVE  /\ IsFiniteSet(G) /\ Unlike(G)
                      /\ \A s \in G : Sound(s) /\ \A p \in Range(s.sel) : p < e.at + 1
    OBVIOUS
  <2> DEFINE B == {e.state}
  <2>1. IsFiniteSet(B) /\ Unlike(B) BY FS_Singleton DEF Unlike
  <2>2. Sound(e.state) /\ \A p \in Range(e.state.sel) : p \in Nat /\ p < e.at
    BY <1>3, <1>5, SelType DEF IsEntry
  <2>3. e.at \notin Range(e.state.sel) BY <1>6, <2>2
  <2>4. \A s \in B : Sound(s) /\ e.at \notin Range(s.sel) BY <2>2, <2>3
  <2> HIDE DEF B
  <2>5. G = Grown(B, e.at) BY DEF B
  <2> HIDE DEF G
  <2>7. e.at \in DOMAIN rows BY <1>6
  <2>8. /\ IsFiniteSet(G) /\ Unlike(G) /\ \A s \in G : Sound(s)
        /\ \A s \in G : \E t \in B : Range(s.sel) \subseteq Range(t.sel) \cup {e.at}
    BY <1>2, <2>1, <2>4, <2>5, <2>7, GrownSound
  <2>6. ASSUME NEW s \in G, NEW p \in Range(s.sel) PROVE p < e.at + 1
    <3>1. PICK t \in B : Range(s.sel) \subseteq Range(t.sel) \cup {e.at} BY <2>8
    <3>2. p = e.at \/ (p \in Nat /\ p < e.at) BY <2>2, <3>1 DEF B
    <3> QED BY <1>6, <3>2
  <2> QED BY <2>6, <2>8
<1>8. Sons(e) = {} \/ (e.at <= Len(rows) /\ Sons(e) = G) BY DEF Grown
<1>9. Victors(e) # {} =>
        /\ IsFiniteSet(Victors(e)) /\ Unlike(Victors(e))
        /\ \A s \in Victors(e) : Sound(s) /\ Better(s, best)
  <2>1. /\ IsFiniteSet({e.state}) /\ Unlike({e.state}) /\ Sound(e.state)
    BY <1>5, FS_Singleton DEF Unlike, IsEntry
  <2>2. Victors(e) \subseteq {e.state} \/ (e.at <= Len(rows) /\ Victors(e) \subseteq G)
    BY <1>8 DEF Grown
  <2>3. \A s \in Victors(e) : Better(s, best) OBVIOUS
  <2> HIDE DEF Victors, G
  <2>4. IsFiniteSet(Victors(e)) BY <1>7, <2>1, <2>2, FS_Subset
  <2>5. \A s \in Victors(e) : Sound(s) BY <1>7, <2>1, <2>2
  <2>6. Unlike(Victors(e)) BY <1>7, <2>1, <2>2 DEF Unlike
  <2> QED BY <2>3, <2>4, <2>5, <2>6
<1>10. Sound(best') /\ (best' = best \/ Better(best', best))
  <2> HIDE DEF Victors
  <2> QED BY <1>2, <1>4, <1>9, BestExists
<1>11. \A s \in Sons(e) : IsEntry(Rated(s, e.at + 1))
  <2> SUFFICES ASSUME NEW s \in Sons(e) PROVE IsEntry(Rated(s, e.at + 1)) OBVIOUS
  <2>1. e.at <= Len(rows) /\ Sound(s) /\ \A p \in Range(s.sel) : p < e.at + 1
    <3> HIDE DEF Sons, G
    <3> QED BY <1>7, <1>8
  <2>2. e.at + 1 \in 1..(Len(rows) + 1) BY <1>6, <2>1
  <2> QED BY <1>2, <2>1, <2>2, RatedType
<1>12. IsFiniteSet(Sons(e))
  <2> HIDE DEF Sons, G
  <2> QED BY <1>7, <1>8, FS_EmptySet
<1> HIDE DEF Sons
<1>13. IsFiniteSet(Notes(e))
  <2> DEFINE g == [s \in Sons(e) |-> Rated(s, e.at + 1)]
  <2>1. Notes(e) = {g[s] : s \in Sons(e)} OBVIOUS
  <2> HIDE DEF g
  <2> QED BY <1>12, <2>1, ImageFinite
<1>14. IsFiniteSet(queue') /\ \A f \in queue' : IsEntry(f)
  <2>1. Entering(Notes(e), best') \subseteq Notes(e) BY DEF Entering
  <2>2. \A f \in Notes(e) : IsEntry(f) BY <1>11
  <2> HIDE DEF Notes
  <2>3. IsFiniteSet(queue \ {e}) /\ IsFiniteSet(Entering(Notes(e), best'))
    BY <1>2, <1>13, <2>1, FS_Subset
  <2> QED BY <1>2, <1>4, <2>1, <2>2, <2>3, FS_Union
<1> HIDE DEF Victors, Notes, G
<1>15. Placed' /\ Open'
  BY <1>1, <1>2, <1>10, <1>14, SoundStable, OpenStable, PlacedStable DEF Open
<1>16. Counters' BY <1>1, PositiveSizes DEF Counters, SearchInv
<1>17. Compared'
  <2>1. LexAtMost(Score(GreedyState), Score(best'))
    BY <1>3, GreedyPositionsType, <1>2, RebuiltSound, <1>10, ScoreType, BetterOrder,
         LexTransitive DEF GreedyState, Tuples, LexAtMost
  <2> QED BY <1>1, <1>2, <2>1, GreedyStable DEF Compared, Score
<1>18. Settles' BY <1>1 DEF Settles
<1> QED BY <1>15, <1>16, <1>17, <1>18 DEF SearchInv

\* So does the end of the completion.
LEMMA EndKeeps == ASSUME SearchInv, EndCompletion PROVE SearchInv'
<1>1. /\ phase = "complete" /\ phase' = "allocate" /\ ~MayExpand
      /\ queue = {} => cut' = NoCut
      /\ UNCHANGED <<wave, rows, layer, beam, best, queue, reps, nodes, granted>>
  BY DEF EndCompletion
<1>2. Placed /\ Sound(best) /\ IsFiniteSet(queue) /\ \A e \in queue : IsEntry(e)
  BY <1>1 DEF SearchInv, Open
<1>3. Placed' /\ Open' /\ Counters'
  BY <1>1, <1>2, SoundStable, OpenStable, PlacedStable DEF Open, Counters, SearchInv
<1>4. Compared' BY <1>1, GreedyStable DEF Compared, Score, SearchInv
<1>5. Settles'
  <2>1. Score(best) # <<>> BY DEF Score
  <2>2. nodes < NodeLimit => cut' = NoCut BY <1>1 DEF MayExpand
  <2> QED BY <1>1, <2>1, <2>2 DEF Settles, CertifiedIds, Certified, NoCut
<1> QED BY <1>3, <1>4, <1>5 DEF SearchInv

\* So does the allocation.
LEMMA AllocateKeeps == ASSUME SearchInv, Allocate PROVE SearchInv'
<1>1. /\ phase = "allocate" /\ phase' = "done"
      /\ UNCHANGED <<wave, rows, layer, beam, best, cut, queue, reps, nodes>>
  BY DEF Allocate
<1>2. Placed' /\ Open' /\ Counters'
  BY <1>1, SoundStable, OpenStable, PlacedStable DEF Open, Counters, SearchInv
<1>3. Compared' /\ Settles'
  BY <1>1, GreedyStable
     DEF Compared, Settles, CertifiedIds, Certified, Score, SearchInv
<1> QED BY <1>2, <1>3 DEF SearchInv

\* And a step that changes nothing.
LEMMA IdleKeeps == ASSUME SearchInv, UNCHANGED vars PROVE SearchInv'
<1>1. UNCHANGED <<wave, rows, layer, beam, best, cut, queue, reps, nodes, phase>>
  BY DEF vars
<1>2. Placed' /\ Open' /\ Counters'
  BY <1>1, SoundStable, OpenStable, PlacedStable DEF Open, Counters, SearchInv
<1>3. Compared' /\ Settles'
  BY <1>1, GreedyStable
     DEF Compared, Settles, CertifiedIds, Certified, Score, SearchInv
<1> QED BY <1>2, <1>3 DEF SearchInv

\* The invariant holds at the start.
LEMMA SearchStarts == Init => SearchInv
<1> SUFFICES ASSUME Init PROVE SearchInv OBVIOUS
<1>1. /\ wave \in Waves /\ rows = Ordered(Searched) /\ layer = 0 /\ beam = {Start}
      /\ best = Start /\ cut = NoCut /\ queue = {} /\ nodes = 0 /\ phase = "beam"
  BY DEF Init, Searched
<1>2. Placed BY <1>1, WavesAssumption, FS_Subset, OrderedRows DEF Searched, Placed
<1>3. Sound(Start) /\ \A p \in Range(Start.sel) : p <= 0
  BY <1>2, StartSound DEF Start, Range
<1>4. Open BY FS_Singleton, FS_EmptySet, <1>1, <1>3 DEF Unlike, Open, IsLayer, IsCut, NoCut
<1>5. Counters BY <1>1, <1>2, ProblemTyped, PositiveSizes DEF Counters, ProblemType
<1>6. Compared /\ Settles BY <1>1 DEF Compared, Settles
<1> QED BY <1>2, <1>4, <1>5, <1>6 DEF SearchInv

(* What the search keeps true from its start to its end. *)
THEOREM SearchSound == Spec => []SearchInv
<1>1. SearchInv /\ [Next]_vars => SearchInv'
  BY LayerKeeps, CompareKeeps, ExpandKeeps, EndKeeps, AllocateKeeps, IdleKeeps DEF Finished,
       Next
<1> QED BY <1>1, SearchStarts, PTL DEF Spec

(* The components of a search state have their types, and what is admitted *)
(* is made of candidates.                                                   *)
THEOREM TypeCorrect == Spec => []TypeOK
<1>1. SearchInv => TypeOK
  <2> SUFFICES ASSUME SearchInv PROVE TypeOK OBVIOUS
  <2>1. Placed /\ ProblemType /\ Sound(best) BY ProblemTyped DEF SearchInv, Open
  <2>2. rows \in Seq(wave.candidates) BY <2>1 DEF Placed, Lists, Searched
  <2>3. Range(best.sel) \subseteq DOMAIN rows BY <2>1, SelType
  <2>4. \A s \in beam : Range(s.sel) \subseteq DOMAIN rows
    BY <2>1, SelType DEF SearchInv, Open, IsLayer
  <2> QED BY <2>2, <2>3, <2>4 DEF TypeOK, SearchInv, Counters
<1> QED BY <1>1, SearchSound, PTL

(* A search its node limit did not stop proves its own result: what the     *)
(* beam cut off cannot beat the wave it reports.                            *)
THEOREM CompletionProves == Spec => []CompletionSettles
<1>1. SearchInv => CompletionSettles BY DEF SearchInv, Settles, CompletionSettles
<1> QED BY <1>1, SearchSound, PTL

(* Every candidate that could run in some wave is admitted or owed service. *)
THEOREM NoneForgotten == Spec => []NobodyForgotten
<1>1. NobodyForgotten BY DEF NobodyForgotten, Structural, Outcome, Queued
<1> QED BY <1>1, PTL DEF Spec

-----------------------------------------------------------------------------

(* The admitted wave may run. *)

\* A one-to-one image has as many elements.
LEMMA ImageCount ==
  ASSUME NEW S, IsFiniteSet(S), NEW f, \A x, y \in S : f[x] = f[y] => x = y
  PROVE  IsFiniteSet({f[x] : x \in S}) /\ Cardinality({f[x] : x \in S}) = Cardinality(S)
<1> DEFINE T == {f[x] : x \in S}
           g == [x \in S |-> f[x]]
<1>1. g \in Surjection(S, T) /\ g \in Injection(S, T)
  BY DEF Surjection, Injection, IsInjective
<1> HIDE DEF T, g
<1>2. IsFiniteSet(T) /\ Cardinality(T) = Cardinality(S) BY <1>1, FS_Surjection
<1> QED BY <1>2 DEF T

(* What the rows at some positions are charged together.                    *)
LEMMA ChargesCount ==
  ASSUME ProblemType, NEW R \in SUBSET DOMAIN rows
  PROVE  /\ IsFiniteSet(R)
         /\ SumFunctionOnSet(Charges, R)
              = MinGrant * Cardinality({p \in R : wave.enforced /\ rows[p].request > 0})
<1> DEFINE A == {p \in R : wave.enforced /\ rows[p].request > 0}
<1>1. IsFiniteSet(R) /\ A \subseteq R /\ IsFiniteSet(A) BY FS_Subset DEF ProblemType
<1>2. /\ \A p \in R : Charges[p] \in Int
      /\ \A p \in R \ A : Charges[p] = 0
      /\ \A p \in A : Charges[p] = MinGrant
      /\ MinGrant \in Int
  BY ChargesType, PositiveSizes DEF Charge
<1> HIDE DEF A
<1>3. SumFunctionOnSet(Charges, R) = SumFunctionOnSet(Charges, A) BY <1>1, <1>2, SumSupport
<1>4. SumFunctionOnSet(Charges, A) = MinGrant * Cardinality(A) BY <1>1, <1>2, SumConstant
<1> QED BY <1>1, <1>3, <1>4 DEF A

\* The rows of a sound partial wave may run together.
LEMMA SoundFeasible ==
  ASSUME Placed, NEW s, Sound(s)
  PROVE  Feasible({rows[p] : p \in Range(s.sel)})
<1> DEFINE R == Range(s.sel)
           Q == {rows[p] : p \in R}
<1>1. ProblemType /\ R \subseteq DOMAIN rows /\ IsFiniteSet(R)
  BY ProblemTyped, SelType, FS_Subset DEF ProblemType
<1>2. \A p, q \in DOMAIN rows : rows[p] = rows[q] => p = q BY <1>1 DEF ProblemType
<1>3. \A S \in SUBSET R : /\ IsFiniteSet(S) /\ Cardinality(S) \in Nat
                          /\ IsFiniteSet({rows[p] : p \in S})
                          /\ Cardinality({rows[p] : p \in S}) = Cardinality(S)
  BY <1>1, <1>2, FS_Subset, ImageCount, FS_CardinalityType
<1>4. Cardinality(R) = Len(s.sel) /\ Len(s.sel) <= MaxCompanions
  BY DEF Sound, Counted, Fitting
<1> HIDE DEF R
<1>5. Cardinality(Q) < wave.total \/ Q = {}
  <2>1. Cardinality(Q) = Cardinality(R) /\ Cardinality(R) \in Nat BY <1>3
  <2>2. wave.total \in Nat BY WavesAssumption DEF Placed
  <2>3. CASE wave.total > 0 BY <1>4, <2>1, <2>2, <2>3 DEF MaxCompanions
  <2>4. CASE wave.total = 0 BY <1>4, <2>1, <2>4, <1>1, FS_EmptySet DEF MaxCompanions
  <2> QED BY <2>2, <2>3, <2>4
<1>6. \A r \in Q : r.allowed /\ ~Conflict(r, wave.primary)
  BY <1>1 DEF ProblemType, Searchable
<1>7. \A r \in Q : \A q \in Q \ {r} : ~Conflict(r, q) BY <1>1 DEF Sound, Fitting, R
<1>8. ASSUME NEW r \in Q
      PROVE  Cardinality({q \in Q \union {wave.primary} :
                            CapacityClass(q) = CapacityClass(r)})
               <= wave.caps[CapacityClass(r)]
  <2> DEFINE c == CapacityClass(r)
             Z == {q \in Q \union {wave.primary} : CapacityClass(q) = c}
             S == InClass(R, c)
             I == {rows[p] : p \in S}
  <2>1. c \in Capacities /\ s.counts[c] <= wave.caps[c]
    BY <1>1, RowType DEF ProblemType, Sound, Fitting, R
  <2>2. s.counts[c] = StartCounts[c] + Cardinality(S) BY <2>1 DEF Sound, Counted, R
  <2>3. wave.caps[c] \in Nat /\ Cardinality(S) \in Nat /\ IsFiniteSet(I)
        /\ Cardinality(I) = Cardinality(S)
    BY <1>1, <1>3, <2>1 DEF ProblemType, InClass
  <2>4. CASE CapacityClass(wave.primary) = c
    <3>1. Z = I \cup {wave.primary} BY <2>4 DEF InClass
    <3> HIDE DEF Z, I, c, S
    <3>6. /\ IsFiniteSet(I) /\ Cardinality(I) \in Nat BY <2>3
    <3>7. Cardinality(Z) = IF wave.primary \in I THEN Cardinality(I) ELSE Cardinality(I) + 1
      BY ONLY <3>1, <3>6, FS_AddElement
    <3>2. Cardinality(Z) <= Cardinality(I) + 1 BY <3>6, <3>7
    <3>3. StartCounts[c] = 1 BY <2>1, <2>4 DEF StartCounts
    <3>4. Cardinality(Z) \in Nat BY <3>6, <3>7
    <3>5. Cardinality(Z) <= wave.caps[c] BY <2>1, <2>2, <2>3, <3>2, <3>3, <3>4
    <3> QED BY <3>5 DEF Z, c
  <2>5. CASE CapacityClass(wave.primary) # c
    <3>1. Z = I BY <2>5 DEF InClass
    <3> HIDE DEF Z, I, c, S
    <3>2. StartCounts[c] = 0 BY <2>1, <2>5 DEF StartCounts
    <3>3. Cardinality(Z) <= wave.caps[c] BY <2>1, <2>2, <2>3, <3>1, <3>2
    <3> QED BY <3>3 DEF Z, c
  <2> QED BY <2>4, <2>5
<1> DEFINE paying == {r \in Q : wave.enforced /\ r.request > 0}
           owed == MinGrant * Cardinality({r \in paying : Protected(r)})
           open == MinGrant * Cardinality({r \in paying : ~Protected(r)})
<1>9. \A r \in paying : r.request >= MinGrant BY DEF Sound, Fitting, R
<1>10. open + NonNegative(owed - StartPools.prot) <= StartPools.free
  <2> DEFINE U == Unprotected(R)
             P == R \ U
             PU == {p \in U : wave.enforced /\ rows[p].request > 0}
             PP == {p \in P : wave.enforced /\ rows[p].request > 0}
             PR == {p \in R : wave.enforced /\ rows[p].request > 0}
  <2>1. /\ {r \in paying : Protected(r)} = {rows[p] : p \in PP}
        /\ {r \in paying : ~Protected(r)} = {rows[p] : p \in PU}
    BY DEF Unprotected
  <2>2. PU \subseteq R /\ PP \subseteq R /\ PU \cup PP = PR /\ PU \cap PP = {} /\ U \subseteq R
    BY DEF Unprotected
  <2>3. /\ owed = MinGrant * Cardinality(PP) /\ open = MinGrant * Cardinality(PU)
        /\ Cardinality(PP) \in Nat /\ Cardinality(PU) \in Nat
    <3> HIDE DEF PP, PU, paying
    <3> QED BY <1>3, <2>1, <2>2
  <2>4. Cardinality(PR) = Cardinality(PU) + Cardinality(PP)
    <3>1. IsFiniteSet(PU) /\ IsFiniteSet(PP) /\ Cardinality(PU \cap PP) = 0
      BY <1>3, <2>2, FS_EmptySet
    <3>2. PU \cup PP = PR BY <2>2
    <3> HIDE DEF PP, PU, PR
    <3>3. Cardinality(PU \cup PP) = Cardinality(PU) + Cardinality(PP) - Cardinality(PU \cap PP)
      BY ONLY <3>1, FS_Union
    <3>4. Cardinality(PP) \in Nat /\ Cardinality(PU) \in Nat BY <2>3
    <3>5. Cardinality(PR) = Cardinality(PU \cup PP) BY ONLY <3>2, Zenon
    <3> QED BY ONLY <3>1, <3>3, <3>4, <3>5
  <2>5. SumFunctionOnSet(Charges, R) = MinGrant * Cardinality(PR) BY <1>1, ChargesCount
  <2>6. SumFunctionOnSet(Charges, U) = open
    <3>1. U \in SUBSET DOMAIN rows BY <1>1, <2>2
    <3> HIDE DEF U
    <3>2. SumFunctionOnSet(Charges, U) = MinGrant * Cardinality(PU)
      BY <1>1, <3>1, ChargesCount
    <3> HIDE DEF PU, open
    <3> QED BY <2>3, <3>2
  <2>7. /\ s.prot \in Nat /\ s.free \in Nat
        /\ s.prot + s.free + SumFunctionOnSet(Charges, R) = StartPools.prot + StartPools.free
        /\ s.free + SumFunctionOnSet(Charges, U) <= StartPools.free
        /\ StartPools.prot \in Nat /\ StartPools.free \in Nat
    BY <1>1 DEF Sound, Paid, ProblemType, R
  <2> HIDE DEF PU, PP, PR, U, owed, open
  <2> DEFINE x == Cardinality(PU)
             y == Cardinality(PP)
  <2>8. /\ MinGrant \in Nat /\ x \in Nat /\ y \in Nat
        /\ owed = MinGrant * y /\ open = MinGrant * x
        /\ SumFunctionOnSet(Charges, R) = MinGrant * (x + y)
    BY <2>3, <2>4, <2>5, PositiveSizes
  <2> HIDE DEF x, y
  <2>9. owed \in Nat /\ open \in Nat /\ SumFunctionOnSet(Charges, R) = owed + open BY <2>8
  <2> QED BY <2>6, <2>7, <2>9 DEF NonNegative
<1> HIDE DEF paying, owed, open
<1>11. Feasible(Q)
  <2> HIDE DEF Q
  <2> QED BY <1>5, <1>6, <1>7, <1>8, <1>9, <1>10 DEF Feasible, paying, owed, open
<1> QED BY <1>11 DEF R

(* The wave the search reports is one that may run: within the capacities   *)
(* and both token pools, its actions authorized and free of conflicts.      *)
THEOREM AdmittedMayRun == Spec => [](phase = "done" => Feasible(Admitted))
<1>1. SearchInv => (phase = "done" => Feasible(Admitted))
  BY SoundFeasible DEF SearchInv, Open, Admitted, Chosen
<1> QED BY <1>1, SearchSound, PTL

-----------------------------------------------------------------------------

(* The distribution of the tokens. *)

\* A finite set of integers has a greatest.
LEMMA MaxExists ==
  ASSUME NEW S, IsFiniteSet(S), S \subseteq Int, S # {}
  PROVE  Max(S) \in S /\ \A y \in S : Max(S) >= y
<1> DEFINE n == Cardinality(S)
           q == Sorted(S, <)
<1>1. n \in Nat /\ n # 0 BY FS_CardinalityType, FS_EmptySet
<1>2. /\ q \in Seq(S) /\ Len(q) = n
      /\ \A a \in S : \E k \in 1..n : q[k] = a
      /\ \A j, k \in 1..n : j < k => q[j] < q[k]
  BY SortedIntegers
<1> HIDE DEF n, q
<1>3. q[n] \in S BY <1>1, <1>2, ElementOfSeq
<1>4. ASSUME NEW y \in S PROVE q[n] >= y
  <2>1. PICK k \in 1..n : q[k] = y BY <1>2
  <2>2. k = n \/ q[k] < q[n] BY <1>1, <1>2
  <2>3. y \in Int /\ q[n] \in Int BY <1>3
  <2> QED BY <2>1, <2>2, <2>3
<1>5. \E x \in S : \A y \in S : x >= y BY <1>3, <1>4
<1> QED BY <1>5 DEF Max

\* The first m elements of an order are m elements, or all.
LEMMA FirstFewOf ==
  ASSUME NEW S, IsFiniteSet(S), NEW D, Orders(S, D), NEW m \in Nat,
         NEW few, few = {p \in S : Cardinality(D[p]) < m}
  PROVE  IsFiniteSet(few) /\ Cardinality(few) = Least(m, Cardinality(S))
<1> DEFINE rank == [a \in S |-> Cardinality(D[a])]
           n == Cardinality(S)
           l == Least(m, n)
<1>1. few = {p \in S : rank[p] < m} /\ \A a \in S : rank[a] = Cardinality(D[a]) OBVIOUS
<1>2. n \in Nat BY FS_CardinalityType
<1>3. Ranked(S, D) BY Ranking
<1> HIDE DEF rank, n
<1>4. /\ \A a \in S : rank[a] \in 0..(n - 1)
      /\ \A a, b \in S : rank[a] = rank[b] => a = b
      /\ \A k \in 0..(n - 1) : \E a \in S : rank[a] = k
  BY <1>1, <1>3 DEF Ranked, n, Orders
<1>6. l \in Nat /\ l <= m /\ l <= n /\ (l = m \/ l = n) BY <1>2 DEF Least
<1>7. {rank[p] : p \in few} = 0..(l - 1)
  <2>1. ASSUME NEW p \in few PROVE rank[p] \in 0..(l - 1)
    <3>1. p \in S /\ rank[p] < m /\ rank[p] \in 0..(n - 1) BY <1>1, <1>4
    <3> HIDE DEF l
    <3> QED BY <1>2, <1>6, <3>1
  <2>2. ASSUME NEW k \in 0..(l - 1) PROVE \E p \in few : rank[p] = k
    BY <1>2, <1>6, <1>1, <1>4
  <2> QED BY <2>1, <2>2
<1>8. Cardinality(0..(l - 1)) = l BY <1>6, FS_Interval
<1>9. IsFiniteSet(few) /\ \A a, b \in few : rank[a] = rank[b] => a = b
  BY <1>1, <1>4, FS_Subset
<1> HIDE DEF l
<1>10. Cardinality(few) = l
  <2>1. Cardinality({rank[p] : p \in few}) = Cardinality(few) BY <1>9, ImageCount
  <2> QED BY <1>7, <1>8, <2>1
<1> QED BY <1>9, <1>10 DEF l, n

(* The first m elements of a set of integers are m elements, or all.        *)
LEMMA FirstFew ==
  ASSUME NEW S, IsFiniteSet(S), S \subseteq Int, NEW m \in Nat
  PROVE  LET few == {p \in S : Cardinality({q \in S : q < p}) < m}
         IN  IsFiniteSet(few) /\ Cardinality(few) = Least(m, Cardinality(S))
<1> DEFINE few == {p \in S : Cardinality({q \in S : q < p}) < m}
<1>1. few = {p \in S : Cardinality(Smaller(S)[p]) < m} BY DEF Smaller
<1>2. Orders(S, Smaller(S)) BY SmallerOrders
<1> HIDE DEF few
<1>3. IsFiniteSet(few) /\ Cardinality(few) = Least(m, Cardinality(S))
  BY <1>1, <1>2, FirstFewOf
<1> QED BY <1>3 DEF few

\* Filling to a level stays between the grant and the request.
LEMMA FilledType ==
  ASSUME ProblemType, NEW D, NEW E, NEW g, Grants(g, D, E), NEW l \in Nat, NEW p \in D
  PROVE  /\ Filled(g, E, l, p) \in Nat /\ rows[p].request \in Nat /\ g[p] \in Nat
         /\ g[p] <= Filled(g, E, l, p) /\ Filled(g, E, l, p) <= rows[p].request
         /\ Filled(g, E, l, p) > g[p] => p \in E /\ Filled(g, E, l, p) <= l
         /\ p \in E /\ Filled(g, E, l, p) < rows[p].request => Filled(g, E, l, p) >= l
         /\ Filled(g, E, l + 1, p) = Filled(g, E, l, p) +
              (IF p \in Lowest(g, E, l) THEN 1 ELSE 0)
<1>1. rows[p].request \in Nat /\ g[p] \in Nat /\ g[p] <= rows[p].request
  BY RowType DEF Grants, ProblemType
<1> QED BY <1>1 DEF Filled, Least, Lowest

\* Raising the level by one costs one token for each of the lowest.
LEMMA CostSteps ==
  ASSUME ProblemType, NEW D, NEW E, NEW g, Grants(g, D, E), NEW l \in Nat
  PROVE  /\ Cost(g, E, l) \in Int /\ Cost(g, E, 0) = 0
         /\ IsFiniteSet(Lowest(g, E, l)) /\ Cardinality(Lowest(g, E, l)) \in Nat
         /\ Cost(g, E, l + 1) = Cost(g, E, l) + Cardinality(Lowest(g, E, l))
<1> DEFINE f(k) == [p \in E |-> Filled(g, E, k, p) - g[p]]
           L == Lowest(g, E, l)
           c == [p \in E |-> IF p \in L THEN 1 ELSE 0]
<1>1. IsFiniteSet(E) /\ E \subseteq D BY FS_Subset DEF Grants, ProblemType
<1>2. L \subseteq E BY DEF Lowest
<1>3. \A k : DOMAIN f(k) = E /\ Cost(g, E, k) = SumFunctionOnSet(f(k), E)
  BY DEF Cost, SumFunction
<1>4. \A k \in Nat : \A p \in E : f(k)[p] \in Int BY <1>1, FilledType
<1>5. \A p \in E : f(l + 1)[p] = f(l)[p] + c[p] /\ c[p] \in Int BY <1>1, FilledType
<1>6. \A p \in E : f(0)[p] = 0 BY <1>1, FilledType DEF Filled
<1>7. l + 1 \in Nat /\ 0 \in Nat OBVIOUS
<1>8. (\A p \in E \ L : c[p] = 0) /\ (\A p \in L : c[p] = 1) /\ \A p \in E : c[p] \in Int
  BY <1>2
<1> HIDE DEF f, c
<1>9. Cost(g, E, l) \in Int BY <1>1, <1>3, <1>4, SumType
<1>10. Cost(g, E, 0) = 0 BY <1>1, <1>6, SumConstant, FS_CardinalityType, <1>3
<1>11. IsFiniteSet(L) /\ Cardinality(L) \in Nat BY <1>1, <1>2, FS_Subset, FS_CardinalityType
<1>12. Cost(g, E, l + 1) = Cost(g, E, l) + Cardinality(L)
  <2>1. SumFunctionOnSet(f(l + 1), E) = SumFunctionOnSet(f(l), E) + SumFunctionOnSet(c, E)
    <3>1. \A p \in E : f(l)[p] \in Int /\ c[p] \in Int /\ f(l + 1)[p] = f(l)[p] + c[p]
      BY <1>4, <1>5
    <3> DEFINE a == f(l)
               b == f(l + 1)
    <3>2. \A p \in E : a[p] \in Int /\ c[p] \in Int /\ b[p] = a[p] + c[p] BY <3>1
    <3> HIDE DEF a, b
    <3>3. SumFunctionOnSet(b, E) = SumFunctionOnSet(a, E) + SumFunctionOnSet(c, E)
      BY <1>1, <3>2, SumPlus
    <3> QED BY <3>3 DEF a, b
  <2>2. SumFunctionOnSet(c, E) = Cardinality(L)
    <3> HIDE DEF L
    <3>1. SumFunctionOnSet(c, E) = SumFunctionOnSet(c, L) BY <1>1, <1>2, <1>8, SumSupport
    <3>2. SumFunctionOnSet(c, L) = 1 * Cardinality(L) BY <1>8, <1>11, SumConstant
    <3> QED BY <1>11, <3>1, <3>2
  <2> QED BY <1>3, <2>1, <2>2
<1> QED BY <1>9, <1>10, <1>11, <1>12

\* TopUp raises the grants as promised.
LEMMA TopUpResult ==
  ASSUME ProblemType, NEW D, NEW E, NEW g, Grants(g, D, E), NEW a \in Nat
  PROVE  Raised(g, D, E, a, TopUp(g, E, a).grants, TopUp(g, E, a).left)
<1> DEFINE top == Max({rows[p].request : p \in E} \union {0})
           levels == {l \in 0..top : Cost(g, E, l) <= a}
           level == Max(levels)
           rest == a - Cost(g, E, level)
           low == Lowest(g, E, level)
           up == {p \in low : Cardinality({q \in low : q < p}) < rest}
           h == [p \in D |-> Filled(g, E, level, p) + (IF p \in up THEN 1 ELSE 0)]
           left == rest - Cardinality(up)
<1>1. TopUp(g, E, a).grants = h /\ TopUp(g, E, a).left = left
  BY DEF Grants, TopUp, Filled, Cost, Lowest
<1>2. /\ IsFiniteSet(D) /\ IsFiniteSet(E) /\ E \subseteq D /\ D \subseteq Nat
      /\ D \subseteq DOMAIN rows
  BY FS_Subset DEF Grants, ProblemType
<1>3. top \in Nat /\ \A p \in E : rows[p].request <= top
  <2> DEFINE f == [p \in E |-> rows[p].request]
             R == {f[p] : p \in E} \cup {0}
  <2>1. {rows[p].request : p \in E} \union {0} = R OBVIOUS
  <2>2. \A p \in E : f[p] \in Nat BY <1>2, FilledType
  <2> HIDE DEF f
  <2>3. IsFiniteSet({f[p] : p \in E}) BY <1>2, ImageFinite
  <2>4. IsFiniteSet(R) /\ R \subseteq Nat /\ R \subseteq Int /\ R # {}
    BY <2>2, <2>3, FS_AddElement
  <2> HIDE DEF R
  <2>5. Max(R) \in R /\ \A y \in R : Max(R) >= y BY <2>4, MaxExists
  <2>6. top = Max(R) BY <2>1
  <2>7. \A p \in E : rows[p].request \in R BY <2>1
  <2> QED BY <2>4, <2>5, <2>6, <2>7
<1> HIDE DEF top
<1>4. \A l \in Nat : /\ Cost(g, E, l) \in Int /\ Cost(g, E, 0) = 0
                     /\ IsFiniteSet(Lowest(g, E, l)) /\ Cardinality(Lowest(g, E, l)) \in Nat
                     /\ Cost(g, E, l + 1) = Cost(g, E, l) + Cardinality(Lowest(g, E, l))
  BY CostSteps
<1>5. level \in 0..top /\ Cost(g, E, level) <= a /\ \A l \in levels : level >= l
  <2>1. 0 \in levels BY <1>3, <1>4
  <2>2. IsFiniteSet(levels) /\ levels \subseteq Int
    <3>1. IsFiniteSet(0..top) /\ levels \in SUBSET (0..top) BY <1>3, FS_Interval
    <3>2. levels \subseteq Int OBVIOUS
    <3> HIDE DEF levels
    <3> QED BY <3>1, <3>2, FS_Subset
  <2>3. level \in levels /\ \A l \in levels : level >= l
    <3> HIDE DEF levels
    <3> QED BY <2>1, <2>2, MaxExists
  <2> QED BY <2>3
<1>6. level < top => rest < Cardinality(low)
  <2> SUFFICES ASSUME level < top PROVE rest < Cardinality(low) OBVIOUS
  <2>1. level \in Nat /\ level + 1 \in 0..top BY <1>3, <1>5
  <2>2. level + 1 \notin levels BY <1>5, <2>1
  <2>3. ~(Cost(g, E, level + 1) <= a) BY <2>1, <2>2
  <2>4. /\ Cost(g, E, level) \in Int /\ Cardinality(low) \in Nat
        /\ Cost(g, E, level + 1) = Cost(g, E, level) + Cardinality(low)
    BY <1>4, <2>1
  <2> HIDE DEF low, level
  <2> QED BY <2>3, <2>4
<1> HIDE DEF levels, level
<1>7. level \in Nat /\ rest \in Nat /\ Cost(g, E, level) \in Int BY <1>3, <1>4, <1>5
<1>8. IsFiniteSet(low) /\ low \subseteq E /\ Cardinality(low) \in Nat
  BY <1>4, <1>7 DEF Lowest
<1>9. /\ IsFiniteSet(up) /\ up \subseteq low /\ Cardinality(up) \in Nat
      /\ Cardinality(up) <= rest
      /\ rest < Cardinality(low) => Cardinality(up) = rest
  <2> HIDE DEF low, rest
  <2>1. low \subseteq Int BY <1>2, <1>8
  <2>2. IsFiniteSet(up) /\ Cardinality(up) = Least(rest, Cardinality(low))
    BY <1>7, <1>8, <2>1, FirstFew
  <2> QED BY <1>7, <1>8, <2>2 DEF Least
<1> HIDE DEF up
<1>10. left \in Nat /\ (level < top => left = 0)
  <2> HIDE DEF rest, low
  <2> QED BY <1>6, <1>7, <1>9
<1>11. \A p \in D :
         /\ Filled(g, E, level, p) \in Nat /\ rows[p].request \in Nat /\ g[p] \in Nat
         /\ g[p] <= Filled(g, E, level, p) /\ Filled(g, E, level, p) <= rows[p].request
         /\ Filled(g, E, level, p) > g[p] => p \in E /\ Filled(g, E, level, p) <= level
         /\ p \in E /\ Filled(g, E, level, p) < rows[p].request =>
              Filled(g, E, level, p) >= level
  BY <1>7, FilledType
<1>12. \A p \in up : Filled(g, E, level, p) = level /\ rows[p].request > level /\ p \in E
  BY <1>8, <1>9 DEF Lowest
<1> HIDE DEF rest, low, left
<1>13. /\ h \in [D -> Nat]
       /\ \A p \in D : g[p] <= h[p] /\ h[p] <= rows[p].request
       /\ \A p \in D \ E : h[p] = g[p]
  <2>1. ASSUME NEW p \in D
        PROVE  /\ h[p] \in Nat /\ g[p] <= h[p] /\ h[p] <= rows[p].request
               /\ p \notin E => h[p] = g[p]
    BY <1>7, <1>11, <1>12
  <2>2. h = [p \in D |-> h[p]] OBVIOUS
  <2> HIDE DEF h
  <2> QED BY <2>1, <2>2
<1>14. ASSUME NEW p \in E
       PROVE  /\ h[p] < rows[p].request => left = 0 /\ h[p] >= level
              /\ h[p] > g[p] => h[p] <= level + 1
  <2>1. p \in D /\ rows[p].request <= top /\ top \in Nat /\ level <= top BY <1>2, <1>3, <1>5
  <2> DEFINE x == Filled(g, E, level, p)
  <2>2. h[p] = x + (IF p \in up THEN 1 ELSE 0) BY <2>1
  <2>3. /\ x \in Nat /\ rows[p].request \in Nat /\ g[p] \in Nat
        /\ g[p] <= x /\ x <= rows[p].request
        /\ x > g[p] => x <= level
        /\ x < rows[p].request => x >= level
        /\ p \in up => x = level
    BY <1>11, <1>12, <2>1
  <2> HIDE DEF h, x
  <2> QED BY <1>7, <1>10, <2>1, <2>2, <2>3
<1>15. SumFunctionOnSet(h, D) + left = SumFunctionOnSet(g, D) + a
  <2> DEFINE d == [p \in D |-> Filled(g, E, level, p) - g[p]]
             e == [p \in E |-> Filled(g, E, level, p) - g[p]]
             u == [p \in D |-> IF p \in up THEN 1 ELSE 0]
             f == [p \in D |-> g[p] + d[p]]
  <2>1. \A p \in D : /\ d[p] = Filled(g, E, level, p) - g[p] /\ f[p] = g[p] + d[p]
                     /\ u[p] = (IF p \in up THEN 1 ELSE 0)
                     /\ h[p] = Filled(g, E, level, p) + u[p]
    OBVIOUS
  <2>12. \A p \in D : d[p] \in Int /\ g[p] \in Int /\ f[p] = g[p] + d[p] BY <1>11, <2>1
  <2>13. \A p \in D : f[p] \in Int /\ u[p] \in Int /\ h[p] = f[p] + u[p] BY <1>11, <2>1
  <2>14. (\A p \in D : d[p] \in Int) /\ \A p \in D \ E : d[p] = 0
    BY <1>11, <2>1, <2>12 DEF Filled
  <2>15. (\A p \in E : d[p] \in Int /\ e[p] = d[p]) /\ DOMAIN e = E BY <1>2, <2>12
  <2>2. up \in SUBSET D /\ E \in SUBSET D BY <1>2, <1>8, <1>9
  <2>3. Cost(g, E, level) = SumFunction(e) BY DEF Cost
  <2>16. (\A p \in D : u[p] \in Int) /\ (\A p \in D \ up : u[p] = 0) /\ \A p \in up : u[p] = 1
    BY <2>1, <2>2
  <2> HIDE DEF d, e, u, f, h
  <2>4. SumFunctionOnSet(h, D) = SumFunctionOnSet(f, D) + SumFunctionOnSet(u, D)
    BY <1>2, <2>13, SumPlus
  <2>5. SumFunctionOnSet(f, D) = SumFunctionOnSet(g, D) + SumFunctionOnSet(d, D)
    BY <1>2, <2>12, SumPlus
  <2>6. SumFunctionOnSet(d, D) = SumFunctionOnSet(d, E) BY <1>2, <2>2, <2>14, SumSupport
  <2>7. SumFunctionOnSet(e, E) = SumFunctionOnSet(d, E) BY <1>2, <2>15, SumAgree
  <2>8. SumFunctionOnSet(u, D) = SumFunctionOnSet(u, up) BY <1>2, <2>2, <2>16, SumSupport
  <2>9. SumFunctionOnSet(u, up) = 1 * Cardinality(up) BY <1>9, <2>16, SumConstant
  <2>10. SumFunctionOnSet(g, D) \in Int BY <1>2, <2>12, SumType
  <2>11. SumFunctionOnSet(h, D) = SumFunctionOnSet(g, D) + Cost(g, E, level) + Cardinality(up)
    BY <1>7, <1>9, <2>15, <2>3, <2>4, <2>5, <2>6, <2>7, <2>8, <2>9, <2>10 DEF SumFunction
  <2> QED BY <1>7, <1>9, <2>10, <2>11 DEF left, rest
<1> HIDE DEF h
<1>16. Raised(g, D, E, a, h, left) BY <1>7, <1>10, <1>13, <1>14, <1>15 DEF Raised
<1> QED BY <1>1, <1>16

\* A sum is that of a part and of the rest.
LEMMA SumSplit ==
  ASSUME NEW S, IsFiniteSet(S), NEW f, \A x \in S : f[x] \in Int, NEW A \in SUBSET S
  PROVE  /\ SumFunctionOnSet(f, S) = SumFunctionOnSet(f, A) + SumFunctionOnSet(f, S \ A)
         /\ SumFunctionOnSet(f, A) \in Int /\ SumFunctionOnSet(f, S \ A) \in Int
<1> DEFINE B == S \ A
           a == [x \in S |-> IF x \in A THEN f[x] ELSE 0]
           b == [x \in S |-> IF x \in B THEN f[x] ELSE 0]
<1>1. IsFiniteSet(A) /\ IsFiniteSet(B) /\ B \in SUBSET S BY FS_Subset
<1>2. \A x \in S : a[x] \in Int /\ b[x] \in Int /\ f[x] = a[x] + b[x] OBVIOUS
<1>3. (\A x \in S : a[x] \in Int) /\ (\A x \in S \ A : a[x] = 0)
      /\ \A x \in A : f[x] \in Int /\ a[x] = f[x]
  OBVIOUS
<1>4. (\A x \in S : b[x] \in Int) /\ (\A x \in S \ B : b[x] = 0)
      /\ \A x \in B : f[x] \in Int /\ b[x] = f[x]
  OBVIOUS
<1> HIDE DEF a, b, B
<1>5. SumFunctionOnSet(f, S) = SumFunctionOnSet(a, S) + SumFunctionOnSet(b, S)
  BY <1>2, SumPlus
<1>6. SumFunctionOnSet(a, S) = SumFunctionOnSet(a, A) /\ SumFunctionOnSet(a, A) = SumFunctionOnSet(f, A)
  BY <1>1, <1>3, SumSupport, SumAgree
<1>7. SumFunctionOnSet(b, S) = SumFunctionOnSet(b, B) /\ SumFunctionOnSet(b, B) = SumFunctionOnSet(f, B)
  BY <1>1, <1>4, SumSupport, SumAgree
<1>8. SumFunctionOnSet(f, A) \in Int /\ SumFunctionOnSet(f, B) \in Int
  BY <1>1, <1>3, <1>4, SumType
<1> QED BY <1>5, <1>6, <1>7, <1>8 DEF B

\* The distribution tops up twice: from the reserve, then for all.
LEMMA Shares ==
  ASSUME Placed, Sound(best), wave.enforced
  PROVE  /\ Distribution = [tokens |-> Second.grants, prot |-> First.left, free |-> Second.left]
         /\ Raised(Minimum, Chosen, Covered, best.prot, First.grants, First.left)
         /\ Raised(First.grants, Chosen, Chosen, best.free, Second.grants, Second.left)
         /\ Minimum \in [Chosen -> Nat]
         /\ \A p \in Chosen : /\ rows[p].request \in Nat /\ Protected(rows[p]) \in BOOLEAN
                              /\ Minimum[p] = Charge(rows[p])
                              /\ rows[p].request > 0 => Minimum[p] = MinGrant
                              /\ rows[p].request = 0 => Minimum[p] = 0
<1>1. ProblemType /\ Chosen \in SUBSET DOMAIN rows /\ best.prot \in Nat /\ best.free \in Nat
  BY ProblemTyped, SelType DEF Chosen, Sound, Paid
<1>2. \A p \in Chosen : rows[p].request \in Nat /\ Charge(rows[p]) \in Nat
                        /\ Protected(rows[p]) \in BOOLEAN
  BY <1>1, RowType DEF ProblemType
<1>3. \A p \in Chosen : /\ Charge(rows[p]) <= rows[p].request
                        /\ rows[p].request > 0 => Charge(rows[p]) = MinGrant
                        /\ rows[p].request = 0 => Charge(rows[p]) = 0
  BY <1>2, PositiveSizes DEF Charge, Sound, Fitting, Chosen
<1>4. Minimum \in [Chosen -> Nat] /\ \A p \in Chosen : Minimum[p] = Charge(rows[p])
  BY <1>2 DEF Minimum
<1>5. Grants(Minimum, Chosen, Covered) BY <1>1, <1>3, <1>4 DEF Grants, Covered
<1>6. Raised(Minimum, Chosen, Covered, best.prot, First.grants, First.left)
  BY <1>1, <1>5, TopUpResult DEF First
<1>7. Grants(First.grants, Chosen, Chosen) BY <1>1, <1>6 DEF Grants, Raised
<1>8. Raised(First.grants, Chosen, Chosen, best.free, Second.grants, Second.left)
  BY <1>1, <1>7, TopUpResult DEF Second
<1>9. Distribution = [tokens |-> Second.grants, prot |-> First.left, free |-> Second.left]
  BY DEF Minimum, Distribution, Second, First, Covered
<1> QED BY <1>2, <1>3, <1>4, <1>6, <1>8, <1>9

(* Both pools at the start, against the whole allocation.                   *)
LEMMA StartWithin ==
  ASSUME Placed, wave.enforced
  PROVE  LET own == IF Protected(wave.primary) THEN 0 ELSE wave.primary.request
         IN  /\ StartPools.prot + StartPools.free + wave.primary.request = wave.remaining
             /\ StartPools.free + own <= NonNegative(wave.remaining - wave.reserve)
             /\ StartPools.prot \in Nat /\ StartPools.free \in Nat
             /\ wave.primary.request \in Nat /\ wave.remaining \in Nat /\ wave.reserve \in Nat
<1>1. /\ wave.primary.request \in Nat /\ wave.remaining \in Nat /\ wave.reserve \in Nat
      /\ Protected(wave.primary) \in BOOLEAN
      /\ wave.primary.request > 0 =>
           wave.primary.request + (IF Protected(wave.primary) THEN 0 ELSE wave.reserve)
             <= wave.remaining
  BY WavesAssumption, RowType DEF Placed
<1> DEFINE q == wave.primary.request
           m == wave.remaining
           v == wave.reserve
           reserved == Least(m, v)
           left == NonNegative(m - q)
           unspent == IF Protected(wave.primary)
                      THEN reserved - Least(q, reserved) ELSE reserved
           prot == Least(unspent, left)
<1>2. StartPools.prot = prot /\ StartPools.free = left - prot BY DEF StartPools
<1>3. q \in Nat /\ m \in Nat /\ v \in Nat BY <1>1
<1>4. q > 0 => q + (IF Protected(wave.primary) THEN 0 ELSE v) <= m BY <1>1
<1> HIDE DEF q, m, v
<1>5. /\ reserved \in Nat /\ reserved <= m /\ reserved <= v /\ (reserved = m \/ reserved = v)
      /\ left = m - q /\ left \in Nat
  BY <1>3, <1>4, <1>1 DEF Least, NonNegative
<1>6. NonNegative(m - v) = m - reserved BY <1>3 DEF Least, NonNegative
<1> HIDE DEF reserved, left
<1>7. CASE Protected(wave.primary)
  <2>1. unspent = IF q <= reserved THEN reserved - q ELSE 0 BY <1>3, <1>5, <1>7 DEF Least
  <2> HIDE DEF unspent
  <2>2. prot \in Nat /\ prot <= left /\ left - prot <= m - reserved
    BY <1>3, <1>5, <2>1 DEF Least
  <2> HIDE DEF prot
  <2>3. /\ StartPools.prot + StartPools.free + q = m
        /\ StartPools.free + 0 <= NonNegative(m - v)
        /\ StartPools.prot \in Nat /\ StartPools.free \in Nat
    BY <1>2, <1>3, <1>5, <1>6, <2>2
  <2> QED BY <1>3, <1>7, <2>3 DEF q, m, v
<1>8. CASE ~Protected(wave.primary)
  <2>1. prot \in Nat /\ prot <= left /\ left - prot + q <= m - reserved
    BY <1>3, <1>4, <1>5, <1>8 DEF Least
  <2> HIDE DEF prot
  <2> QED BY <1>2, <1>3, <1>5, <1>6, <1>8, <2>1 DEF q, m, v
<1> QED BY <1>7, <1>8

\* What is distributed was there to distribute.
LEMMA DistributionWithin ==
  ASSUME Placed, Sound(best), granted = Distribution
  PROVE  WaveWithinBudget
<1> SUFFICES ASSUME wave.enforced PROVE WaveWithinBudget BY DEF WaveWithinBudget
<1> DEFINE T == Second.grants
           G == First.grants
           U == {p \in Chosen : ~Protected(rows[p])}
           S(f) == SumFunctionOnSet(f, Chosen)
<1>1. ProblemType /\ Chosen \in SUBSET DOMAIN rows /\ IsFiniteSet(Chosen)
  BY ProblemTyped, SelType, FS_Subset DEF Chosen, ProblemType
<1>2. granted.tokens = T /\ granted.prot = First.left /\ granted.free = Second.left
  BY Shares
<1>3. /\ First.left \in Nat /\ Second.left \in Nat
      /\ T \in [Chosen -> Nat] /\ G \in [Chosen -> Nat] /\ Minimum \in [Chosen -> Nat]
      /\ \A p \in Chosen : Minimum[p] <= G[p] /\ G[p] <= T[p] /\ T[p] <= rows[p].request
      /\ \A p \in U : G[p] = Minimum[p]
      /\ S(G) + First.left = S(Minimum) + best.prot
      /\ S(T) + Second.left = S(G) + best.free
  BY Shares DEF Raised, Covered
<1> HIDE DEF T, G
<1>4. /\ Covered = Chosen \ U /\ U \in SUBSET Chosen /\ Covered \in SUBSET Chosen
      /\ IsFiniteSet(Covered) /\ IsFiniteSet(U)
  BY <1>1, FS_Subset DEF Covered
<1>5. U = Unprotected(Range(best.sel)) /\ Chosen = Range(best.sel)
  BY DEF Unprotected, Chosen
<1> HIDE DEF U
<1>6. \A p \in Chosen : T[p] \in Int /\ G[p] \in Int /\ Minimum[p] \in Int /\ Charges[p] \in Int
                        /\ Minimum[p] = Charges[p]
  BY <1>1, <1>3, ChargesType, Shares
<1>7. /\ S(Minimum) = S(Charges) /\ S(Charges) \in Int
      /\ SumFunctionOnSet(Minimum, U) = SumFunctionOnSet(Charges, U)
      /\ SumFunctionOnSet(G, U) = SumFunctionOnSet(Minimum, U)
      /\ SumFunctionOnSet(Charges, U) \in Int
  BY <1>1, <1>3, <1>4, <1>6, SumAgree, SumType
<1>8. /\ S(T) = SumFunctionOnSet(T, U) + SumFunctionOnSet(T, Covered)
      /\ SumFunctionOnSet(T, U) \in Int /\ SumFunctionOnSet(T, Covered) \in Int
      /\ S(G) = SumFunctionOnSet(G, U) + SumFunctionOnSet(G, Covered)
      /\ SumFunctionOnSet(G, U) \in Int /\ SumFunctionOnSet(G, Covered) \in Int
  BY <1>1, <1>4, <1>6, SumSplit
<1>9. SumFunctionOnSet(G, Covered) <= SumFunctionOnSet(T, Covered)
  BY <1>3, <1>4, <1>6, SumAtMost
<1>10. /\ best.prot \in Nat /\ best.free \in Nat
       /\ best.prot + best.free + S(Charges) = StartPools.prot + StartPools.free
       /\ best.free + SumFunctionOnSet(Charges, U) <= StartPools.free
  BY <1>5 DEF Sound, Paid
<1> DEFINE own == IF Protected(wave.primary) THEN 0 ELSE wave.primary.request
<1>11. /\ StartPools.prot + StartPools.free + wave.primary.request = wave.remaining
       /\ StartPools.free + own <= NonNegative(wave.remaining - wave.reserve)
       /\ StartPools.prot \in Nat /\ StartPools.free \in Nat
       /\ wave.primary.request \in Nat /\ wave.remaining \in Nat /\ wave.reserve \in Nat
  BY StartWithin
<1>12. own \in Nat /\ NonNegative(wave.remaining - wave.reserve) \in Nat
  BY <1>11 DEF NonNegative
<1> HIDE DEF own
<1>13. S(T) + wave.primary.request + First.left + Second.left = wave.remaining
  BY <1>3, <1>7, <1>8, <1>10, <1>11
<1>14. SumFunctionOnSet(T, U) + own <= NonNegative(wave.remaining - wave.reserve)
  <2>1. SumFunctionOnSet(T, U) <= StartPools.free
    <3>1. /\ S(T) + Second.left = S(G) + best.free /\ Second.left \in Nat
          /\ best.free \in Nat /\ StartPools.free \in Nat
      BY <1>3, <1>10, <1>11
    <3>2. /\ SumFunctionOnSet(G, U) = SumFunctionOnSet(Charges, U)
          /\ best.free + SumFunctionOnSet(Charges, U) <= StartPools.free
      BY <1>7, <1>10
    <3> HIDE DEF S
    <3> QED BY <3>1, <3>2, <1>8, <1>9
  <2> QED BY <1>8, <1>11, <1>12, <2>1
<1>15. \A p \in Chosen : T[p] <= rows[p].request /\ (rows[p].request > 0 => T[p] >= MinGrant)
  BY <1>3, <1>6, Shares
<1> QED BY <1>2, <1>13, <1>14, <1>15 DEF WaveWithinBudget, own, U, S

\* No grant could be raised at the expense of a larger one.
LEMMA DistributionFair ==
  ASSUME Placed, Sound(best), granted = Distribution
  PROVE  MaxMinFair
<1> SUFFICES ASSUME wave.enforced PROVE MaxMinFair BY DEF MaxMinFair
<1> DEFINE T == Second.grants
           G == First.grants
           M == Minimum
<1>1. ProblemType /\ Chosen \in SUBSET DOMAIN rows /\ IsFiniteSet(Chosen)
  BY ProblemTyped, SelType, FS_Subset DEF Chosen, ProblemType
<1>2. granted.tokens = T /\ granted.prot = First.left /\ granted.free = Second.left
  BY Shares
<1>3. /\ First.left \in Nat /\ Second.left \in Nat
      /\ T \in [Chosen -> Nat] /\ G \in [Chosen -> Nat] /\ M \in [Chosen -> Nat]
      /\ SumFunctionOnSet(G, Chosen) + First.left = SumFunctionOnSet(M, Chosen) + best.prot
  BY Shares DEF Raised
<1>4. \A p \in Chosen : /\ T[p] \in Nat /\ G[p] \in Nat /\ M[p] \in Nat /\ rows[p].request \in Nat
                        /\ M[p] <= G[p] /\ G[p] <= T[p] /\ T[p] <= rows[p].request
                        /\ Protected(rows[p]) \in BOOLEAN
                        /\ ~Protected(rows[p]) => G[p] = M[p]
                        /\ M[p] = Charge(rows[p])
                        /\ rows[p].request > 0 => M[p] = MinGrant
                        /\ rows[p].request = 0 => M[p] = 0
  BY Shares DEF Raised, Covered
<1>5. PICK k \in Nat : \A p \in Covered :
        /\ G[p] < rows[p].request => First.left = 0 /\ G[p] >= k
        /\ G[p] > M[p] => G[p] <= k + 1
  BY Shares DEF Raised
<1>6. PICK l \in Nat : \A p \in Chosen :
        /\ T[p] < rows[p].request => Second.left = 0 /\ T[p] >= l
        /\ T[p] > G[p] => T[p] <= l + 1
  BY Shares DEF Raised
<1> HIDE DEF T, G, M
<1> SUFFICES ASSUME NEW p \in Chosen, T[p] < rows[p].request
             PROVE  LET ahead == {q \in Chosen : T[q] > T[p] + 1}
                    IN  /\ Second.left = 0
                        /\ Protected(rows[p]) => First.left = 0 /\ ahead = {}
                        /\ \A q \in ahead : Protected(rows[q])
                        /\ SumFunction([q \in ahead |-> T[q] - Charge(rows[q])]) <= best.prot
  BY <1>2 DEF MaxMinFair
<1> DEFINE ahead == {q \in Chosen : T[q] > T[p] + 1}
<1>7. Second.left = 0 /\ T[p] >= l /\ M[p] = MinGrant /\ T[p] >= MinGrant /\ MinGrant \in Nat
  BY <1>4, <1>6, PositiveSizes
<1>8. ASSUME NEW q \in ahead
      PROVE  T[q] = G[q] /\ Protected(rows[q]) /\ G[q] > M[q] /\ q \in Chosen
  BY <1>4, <1>6, <1>7
<1>9. ASSUME Protected(rows[p]) PROVE First.left = 0 /\ ahead = {}
  BY <1>4, <1>9, <1>5, <1>8 DEF Covered
<1>10. SumFunction([q \in ahead |-> T[q] - Charge(rows[q])]) <= best.prot
  <2> DEFINE f == [q \in ahead |-> T[q] - Charge(rows[q])]
             d == [q \in Chosen |-> G[q] - M[q]]
             h == [q \in Chosen |-> M[q] + d[q]]
             z == [q \in Chosen |-> 0]
             R == Chosen \ ahead
  <2>1. /\ \A q \in Chosen : d[q] \in Nat /\ d[q] \in Int /\ M[q] \in Int /\ G[q] \in Int
                             /\ G[q] = M[q] + d[q]
    BY <1>4
  <2>2. ahead \in SUBSET Chosen /\ R \in SUBSET Chosen /\ R = Chosen \ ahead OBVIOUS
  <2>3. IsFiniteSet(ahead) /\ IsFiniteSet(R) BY <1>1, <2>2, FS_Subset
  <2>4. \A q \in ahead : d[q] \in Int /\ f[q] = d[q] BY <1>4, <1>8, <2>1
  <2>5. DOMAIN f = ahead OBVIOUS
  <2>6. \A q \in R : z[q] \in Int /\ d[q] \in Int /\ z[q] <= d[q] /\ z[q] = 0 BY <2>1
  <2> HIDE DEF f, d, z, ahead, R
  <2>7. SumFunctionOnSet(f, ahead) = SumFunctionOnSet(d, ahead) BY <2>3, <2>4, SumAgree
  <2>8. /\ SumFunctionOnSet(d, Chosen) = SumFunctionOnSet(d, ahead) + SumFunctionOnSet(d, R)
        /\ SumFunctionOnSet(d, ahead) \in Int /\ SumFunctionOnSet(d, R) \in Int
    BY <1>1, <2>1, <2>2, SumSplit
  <2>9. SumFunctionOnSet(G, Chosen) = SumFunctionOnSet(M, Chosen) + SumFunctionOnSet(d, Chosen)
        /\ SumFunctionOnSet(M, Chosen) \in Int
    BY <1>1, <2>1, SumPlus, SumType
  <2>10. SumFunctionOnSet(d, R) >= 0
    BY <2>3, <2>6, SumConstant, FS_CardinalityType, SumAtMost, <2>8
  <2>11. best.prot \in Nat BY DEF Sound, Paid
  <2>12. SumFunctionOnSet(f, ahead) <= best.prot BY <1>3, <2>7, <2>8, <2>9, <2>10, <2>11
  <2> QED BY <2>5, <2>12 DEF SumFunction, f
<1> QED BY <1>7, <1>8, <1>9, <1>10

\* The distribution depends on the incumbent alone.
LEMMA DistributionStable ==
  ASSUME wave' = wave, rows' = rows, best' = best PROVE Distribution' = Distribution
<1>1. Chosen' = Chosen BY DEF Chosen
<1>2. \A g : \A E : \A a : TopUp(g, E, a)' = TopUp(g, E, a) BY DEF TopUp
<1> QED BY <1>1, <1>2 DEF Distribution, Charge

(* What is granted at the end is the distribution of the reported wave.     *)
LEMMA GrantsAreShares == Spec => [](phase = "done" => granted = Distribution)
<1> DEFINE I == phase = "done" => granted = Distribution
<1>1. Init => I BY DEF Init
<1>2. I /\ [Next]_vars => I'
  BY DistributionStable DEF Allocate, vars, Finished, Layer, CompareGreedy, Expand,
       EndCompletion, Next
<1> QED BY <1>1, <1>2, PTL DEF Spec

(* The grants and the request of the primary action use the remaining       *)
(* allocation, and unprotected work its unreserved part only: an admitted   *)
(* wave is not refused for its tokens.                                      *)
THEOREM BudgetHeld == Spec => []WaveWithinBudget
<1>1. SearchInv /\ (phase = "done" => granted = Distribution) => WaveWithinBudget
  BY DistributionWithin DEF SearchInv, Open, WaveWithinBudget
<1> QED BY <1>1, SearchSound, GrantsAreShares, PTL

(* The tokens left are shared so that the least served come first; only the *)
(* reserve, which unprotected work may not use, lets others go ahead.       *)
THEOREM SharesAreFair == Spec => []MaxMinFair
<1>1. SearchInv /\ (phase = "done" => granted = Distribution) => MaxMinFair
  BY DistributionFair DEF SearchInv, Open, MaxMinFair
<1> QED BY <1>1, SearchSound, GrantsAreShares, PTL

-----------------------------------------------------------------------------

(* The greedy walk. *)

\* The candidates, all of them, in admission order.
LEMMA CandidatesType ==
  ASSUME Placed
  PROVE  /\ IsFiniteSet(wave.candidates) /\ \A r \in wave.candidates : IsRow(r)
         /\ Lists(Everything, wave.candidates)
         /\ Len(Everything) \in Nat
         /\ \A k \in 1..Len(Everything) : Everything[k] \in wave.candidates
<1>1. /\ IsFiniteSet(wave.candidates) /\ \A r \in wave.candidates : IsRow(r)
      /\ \A r, q \in wave.candidates : r.id = q.id => r = q
  BY WavesAssumption DEF Placed
<1>2. Lists(Everything, wave.candidates) BY <1>1, OrderedRows DEF Everything
<1>3. Everything \in Seq(wave.candidates) BY <1>2 DEF Lists
<1> QED BY <1>1, <1>2, <1>3, LenProperties, ElementOfSeq

\* Taking a row changes the walk's set and counts only.
LEMMA TakeType ==
  ASSUME Placed, NEW g \in Walks, NEW r \in wave.candidates
  PROVE  /\ Take(g, r) \in Walks
         /\ Take(g, r).sel = g.sel \cup {r}
         /\ Take(g, r).counts = [g.counts EXCEPT ![CapacityClass(r)] = @ + 1]
         /\ Take(g, r).total = g.total /\ Take(g, r).prot = g.prot /\ Take(g, r).free = g.free
<1> DEFINE c == CapacityClass(r)
           counts == [g.counts EXCEPT ![c] = @ + 1]
<1>1. c \in Capacities BY CandidatesType, RowType
<1>2. /\ g = [sel |-> g.sel, counts |-> g.counts, total |-> g.total, prot |-> g.prot,
              free |-> g.free]
      /\ g.sel \in SUBSET wave.candidates /\ g.counts \in [Capacities -> Nat]
      /\ g.total \in Nat /\ g.prot \in Nat /\ g.free \in Nat
  BY DEF Walks
<1>3. Take(g, r) = [sel |-> g.sel \cup {r}, counts |-> counts, total |-> g.total,
                    prot |-> g.prot, free |-> g.free]
  <2>1. DOMAIN g = {"sel", "counts", "total", "prot", "free"} BY DEF Walks
  <2>2. Take(g, r) = [[g EXCEPT !.sel = g.sel \union {r}] EXCEPT !.counts = counts]
    BY <2>1 DEF Take
  <2> HIDE DEF counts
  <2> QED BY <2>1, <2>2
<1> HIDE DEF c
<1>4. counts \in [Capacities -> Nat] BY <1>1, <1>2
<1>5. g.sel \cup {r} \in SUBSET wave.candidates BY <1>2
<1> HIDE DEF counts
<1>6. Take(g, r) \in Walks BY <1>2, <1>3, <1>4, <1>5 DEF Walks
<1> QED BY <1>3, <1>6 DEF counts, c

\* A walk ahead stays a walk.
LEMMA FollowersType ==
  ASSUME Placed, NEW g \in Walks, NEW r \in wave.candidates, NEW q \in Seq(wave.candidates)
  PROVE  Followers(g, r, q)[Len(q)] \in Walks
<1> DEFINE n == Len(q)
           Step(s, k) == IF Fits(s, q[k]) THEN Take(s, q[k]) ELSE s
           H(w) == w = [k \in 0..n |-> IF k = 0 THEN Take(g, r)
                                       ELSE IF Fits(w[k - 1], q[k]) THEN Take(w[k - 1], q[k])
                                       ELSE w[k - 1]]
           F == [x \in Walks \X (1..n) |-> Step(x[1], x[2])]
<1>1. n \in Nat /\ \A k \in 1..n : q[k] \in wave.candidates BY LenProperties, ElementOfSeq
<1>2. F \in [Walks \X (1..n) -> Walks]
  <2>1. \A x \in Walks \X (1..n) : Step(x[1], x[2]) \in Walks BY <1>1, TakeType
  <2> HIDE DEF Step
  <2> QED BY <2>1
<1>3. \A s \in Walks : \A k \in 1..n : F[<<s, k>>] = Step(s, k) OBVIOUS
<1>4. PICK f \in [0..n -> Walks] : f[0] = Take(g, r) /\ \A k \in 1..n : f[k] = F[<<f[k - 1], k>>]
  <2> HIDE DEF F, n
  <2>1. Take(g, r) \in Walks BY TakeType
  <2>2. \E f : Unfolds(f, Walks, Take(g, r), n, F) BY <1>1, <1>2, <2>1, Recursion
  <2> QED BY <2>2 DEF Unfolds
<1>5. H(f)
  <2> DEFINE h == [k \in 0..n |-> IF k = 0 THEN Take(g, r)
                                  ELSE IF Fits(f[k - 1], q[k]) THEN Take(f[k - 1], q[k])
                                  ELSE f[k - 1]]
  <2>1. ASSUME NEW k \in 0..n PROVE f[k] = h[k]
    <3>1. CASE k = 0 BY <1>4, <3>1
    <3>2. CASE k \in 1..n
      <4>1. k - 1 \in 0..n /\ k # 0 BY <1>1, <3>2
      <4>2. f[k - 1] \in Walks BY <4>1
      <4>3. f[k] = Step(f[k - 1], k)
        <5> HIDE DEF F, Step
        <5> QED BY <1>3, <1>4, <3>2, <4>2
      <4> QED BY <4>1, <4>3
    <3> QED BY <1>1, <3>1, <3>2
  <2>2. f = [k \in 0..n |-> f[k]] /\ h = [k \in 0..n |-> h[k]] OBVIOUS
  <2>3. f = h
    <3> HIDE DEF h
    <3> QED BY <2>1, <2>2
  <2> QED BY <2>3
<1> DEFINE W == Followers(g, r, q)
<1>6. W = CHOOSE w : H(w) BY DEF Followers
<1>7. H(W)
  <2> HIDE DEF H, W
  <2> QED BY <1>5, <1>6
<1> DEFINE Y == {k \in Nat : k <= n => W[k] \in Walks}
<1>8. 0 \in Y
  <2>1. 0 \in 0..n BY <1>1
  <2>2. W[0] = Take(g, r)
    <3> HIDE DEF W
    <3> QED BY <1>7, <2>1
  <2> HIDE DEF W
  <2>3. W[0] \in Walks BY <2>2, TakeType
  <2> QED BY <1>1, <2>3
<1>9. ASSUME NEW k \in Nat, k \in Y PROVE k + 1 \in Y
  <2> SUFFICES ASSUME k + 1 <= n PROVE W[k + 1] \in Walks OBVIOUS
  <2>1. W[k] \in Walks /\ k + 1 \in 1..n /\ k + 1 \in 0..n /\ k + 1 # 0 /\ (k + 1) - 1 = k
    BY <1>1, <1>9
  <2> HIDE DEF W
  <2>2. W[k + 1] = Step(W[k], k + 1) BY <1>7, <2>1
  <2>3. q[k + 1] \in wave.candidates BY <1>1, <2>1
  <2>4. Step(W[k], k + 1) \in Walks BY <2>1, <2>3, TakeType
  <2> HIDE DEF Step
  <2> QED BY <2>2, <2>4
<1>10. \A k \in Nat : k \in Y
  <2> HIDE DEF Y
  <2> QED BY <1>8, <1>9, Induct
<1> QED BY <1>1, <1>10

\* What later rows demand is a natural number.
LEMMA DemandType ==
  ASSUME Placed, NEW g \in Walks, NEW r \in wave.candidates, NEW q \in Seq(wave.candidates)
  PROVE  Demand(g, r, q) \in Nat
<1> DEFINE S == Followers(g, r, q)[Len(q)].sel \ (g.sel \union {r})
           f == [x \in S |-> IF Protected(x) THEN 0 ELSE x.request]
           z == [x \in S |-> 0]
<1>1. Followers(g, r, q)[Len(q)].sel \in SUBSET wave.candidates BY FollowersType DEF Walks
<1>2. S \subseteq wave.candidates BY <1>1
<1> HIDE DEF S
<1>3. IsFiniteSet(S) BY <1>2, CandidatesType, FS_Subset
<1>4. \A x \in S : f[x] \in Nat BY <1>2, CandidatesType, RowType
<1>5. DOMAIN f = S /\ \A x \in S : f[x] \in Int /\ z[x] \in Int /\ z[x] <= f[x] /\ z[x] = 0
  BY <1>4
<1>6. Demand(g, r, q) = SumFunction(f) BY DEF Demand, S
<1> HIDE DEF f, z
<1>7. SumFunctionOnSet(f, S) \in Int BY <1>3, <1>5, SumType
<1>8. SumFunctionOnSet(z, S) = 0 * Cardinality(S) /\ Cardinality(S) \in Nat
  BY <1>3, <1>5, SumConstant, FS_CardinalityType
<1>9. SumFunctionOnSet(z, S) <= SumFunctionOnSet(f, S) BY <1>3, <1>5, SumAtMost
<1>10. SumFunction(f) = SumFunctionOnSet(f, S) BY <1>5 DEF SumFunction
<1> QED BY <1>6, <1>7, <1>8, <1>9, <1>10

\* A step of the walk leaves it alone or accepts its row.
LEMMA StepShape ==
  ASSUME Placed, NEW g \in Walks, NEW k \in 1..Len(Everything)
  PROVE  /\ GreedyStep(g, k) \in Walks
         /\ GreedyStep(g, k) = g \/ Accepts(g, GreedyStep(g, k), Everything[k])
<1> DEFINE r == Everything[k]
           later == SubSeq(Everything, k + 1, Len(Everything))
           offer == Offer(g, r, later)
           pays == wave.enforced /\ r.request > 0
           a == IF pays THEN Least(r.request, offer) ELSE 0
           v == IF Protected(r) THEN Least(a, g.prot) ELSE 0
           h == [Take(g, r) EXCEPT !.total = NonNegative(@ - a), !.prot = @ - v,
                                   !.free = NonNegative(@ - (a - v))]
<1>1. GreedyStep(g, k) = IF ~Fits(g, r) \/ (pays /\ a < MinGrant) THEN g ELSE h
  BY DEF GreedyStep
<1>2. r \in wave.candidates /\ IsRow(r) /\ later \in Seq(wave.candidates)
  <2>1. Everything \in Seq(wave.candidates) /\ Len(Everything) \in Nat /\ r \in wave.candidates
        /\ IsRow(r)
    BY CandidatesType DEF Lists
  <2>2. later \in Seq(wave.candidates)
    <3> HIDE DEF r
    <3>1. /\ k + 1 \in Int /\ Len(Everything) \in Int
          /\ \A i \in (k + 1)..Len(Everything) : Everything[i] \in wave.candidates
      BY <2>1, CandidatesType
    <3>2. SubSeq(Everything, k + 1, Len(Everything)) \in Seq(wave.candidates)
      BY <3>1, SubSeqProperties, Zenon
    <3> QED BY <3>2
  <2> QED BY <2>1, <2>2
<1> HIDE DEF later, r
<1>3. /\ r.request \in Nat /\ Protected(r) \in BOOLEAN /\ Demand(g, r, later) \in Nat
      /\ g.total \in Nat /\ g.prot \in Nat /\ g.free \in Nat
  BY <1>2, RowType, DemandType DEF Walks
<1>4. offer \in Nat /\ offer <= (IF Protected(r) THEN g.total ELSE g.free)
  <2> DEFINE d == Demand(g, r, later)
             l == Least(g.free, d)
  <2>1. l \in Nat
    <3> HIDE DEF d
    <3>1. d \in Nat BY <1>3 DEF d
    <3> QED BY <1>3, <3>1 DEF Least
  <2>2. offer = IF Protected(r) THEN NonNegative(g.total - l) ELSE g.free BY DEF Offer
  <2> HIDE DEF l, offer
  <2> QED BY <1>3, <2>1, <2>2 DEF NonNegative
<1> HIDE DEF offer
<1>5. /\ a \in Nat
      /\ pays => a <= (IF Protected(r) THEN g.total ELSE g.free) /\ a <= r.request
      /\ ~pays => a = 0
  BY <1>3, <1>4 DEF Least
<1>6. v \in Nat /\ v <= a /\ v <= g.prot BY <1>3, <1>5 DEF Least
<1>7. /\ Take(g, r) \in Walks /\ Take(g, r).sel = g.sel \cup {r}
      /\ Take(g, r).counts = [g.counts EXCEPT ![CapacityClass(r)] = @ + 1]
      /\ Take(g, r).total = g.total /\ Take(g, r).prot = g.prot /\ Take(g, r).free = g.free
  BY <1>2, TakeType
<1> HIDE DEF a, v
<1> DEFINE t == NonNegative(g.total - a)
           w == g.prot - v
           u == NonNegative(g.free - (a - v))
<1>8. t \in Nat /\ w \in Nat /\ u \in Nat BY <1>3, <1>5, <1>6, SMTT(30) DEF NonNegative
<1>9. h.sel = g.sel \cup {r} /\ h.counts = [g.counts EXCEPT ![CapacityClass(r)] = @ + 1]
      /\ h.total = t /\ h.prot = w /\ h.free = u /\ h \in Walks
  <2> DEFINE s == Take(g, r)
  <2>1. s \in Walks /\ s.total = g.total /\ s.prot = g.prot /\ s.free = g.free BY <1>7
  <2>2. h = [s EXCEPT !.total = NonNegative(@ - a), !.prot = @ - v,
                      !.free = NonNegative(@ - (a - v))]
    OBVIOUS
  <2> HIDE DEF s
  <2>3. h = [s EXCEPT !.total = t, !.prot = w, !.free = u] BY <2>1, <2>2 DEF Walks
  <2> HIDE DEF h, t, w, u
  <2>4. h \in Walks /\ h.sel = s.sel /\ h.counts = s.counts /\ h.total = t /\ h.prot = w /\ h.free = u
    BY <1>8, <2>1, <2>3 DEF Walks
  <2> QED BY <1>7, <2>4 DEF s
<1>10. ASSUME Fits(g, r), ~(pays /\ a < MinGrant) PROVE Accepts(g, h, r)
  <2>1. pays => MinGrant <= a /\ r.request >= MinGrant BY <1>3, <1>5, <1>10, PositiveSizes
  <2> HIDE DEF h
  <2>2. h.total = NonNegative(g.total - a) /\ h.prot = g.prot - v
        /\ h.free = NonNegative(g.free - (a - v))
    BY <1>9
  <2>3. v = IF Protected(r) THEN Least(a, g.prot) ELSE 0 BY DEF v
  <2> QED BY <1>5, <1>9, <1>10, <2>1, <2>2, <2>3 DEF Accepts
<1> HIDE DEF h
<1> QED BY <1>1, <1>9, <1>10 DEF r

\* The walk starts empty, with the start pools.
LEMMA GreedyStartType ==
  ASSUME Placed
  PROVE  /\ GreedyStart \in Walks
         /\ GreedyStart.sel = {} /\ GreedyStart.counts = StartCounts
         /\ GreedyStart.free = StartPools.free
         /\ GreedyStart.total = StartPools.prot + StartPools.free
         /\ GreedyStart.prot = StartPools.prot \/ GreedyStart.free = 0
<1> DEFINE q == wave.primary.request
           m == wave.remaining
           v == wave.reserve
           reserved == Least(m, v)
           spent == IF Protected(wave.primary) THEN Least(q, reserved) ELSE 0
           unspent == IF Protected(wave.primary)
                      THEN reserved - Least(q, reserved) ELSE reserved
           left == NonNegative(m - q)
           p == Least(unspent, left)
           total == IF wave.enforced THEN NonNegative(m - q) ELSE 0
           prot == IF wave.enforced THEN reserved - spent ELSE 0
           free == IF wave.enforced THEN NonNegative(m - reserved - (q - spent)) ELSE 0
<1>1. /\ q \in Nat /\ m \in Nat /\ v \in Nat /\ wave.enforced \in BOOLEAN
      /\ Protected(wave.primary) \in BOOLEAN
      /\ wave.enforced /\ q > 0 => q <= m
      /\ StartCounts \in [Capacities -> Nat]
  <2>1. /\ IsRow(wave.primary) /\ m \in Nat /\ v \in Nat /\ wave.enforced \in BOOLEAN
        /\ StartCounts \in [Capacities -> Nat]
    BY ProblemTyped DEF ProblemType
  <2>2. q \in Nat /\ Protected(wave.primary) \in BOOLEAN BY <2>1, RowType
  <2>3. wave.enforced /\ q > 0 => q + (IF Protected(wave.primary) THEN 0 ELSE v) <= m
    BY WavesAssumption DEF Placed
  <2> HIDE DEF q, m, v
  <2> QED BY <2>1, <2>2, <2>3
<1>2. GreedyStart = [sel |-> {}, counts |-> StartCounts, total |-> total, prot |-> prot,
                     free |-> free]
  BY DEF GreedyStart
<1>3. StartPools.prot = (IF wave.enforced THEN p ELSE 0)
      /\ StartPools.free = (IF wave.enforced THEN left - p ELSE 0)
  BY DEF StartPools
<1> HIDE DEF q, m, v
<1>4. /\ reserved \in Nat /\ reserved <= m /\ spent \in Nat /\ spent <= reserved /\ spent <= q
      /\ unspent = reserved - spent /\ unspent \in Nat
  BY <1>1 DEF Least
<1>5. left \in Nat /\ (wave.enforced => left = m - q) BY <1>1 DEF NonNegative
<1> HIDE DEF reserved, spent, unspent, left
<1>6. p \in Nat /\ p <= left /\ p <= unspent /\ (p = unspent \/ p = left)
  BY <1>4, <1>5 DEF Least
<1>7. /\ total \in Nat /\ prot \in Nat /\ free \in Nat
      /\ total = StartPools.prot + StartPools.free
      /\ free = StartPools.free /\ (prot = StartPools.prot \/ free = 0)
  <2>1. CASE ~wave.enforced BY <1>3, <2>1
  <2>2. CASE wave.enforced
    <3>1. total = left /\ prot = unspent BY <1>4, <2>2 DEF left
    <3>2. free = NonNegative(left - unspent) BY <1>1, <1>4, <1>5, <2>2
    <3>3. free = left - p BY <1>4, <1>5, <1>6, <3>2 DEF NonNegative
    <3> HIDE DEF total, prot, free, p
    <3> QED BY <1>3, <1>4, <1>5, <1>6, <2>2, <3>1, <3>3
  <2> QED BY <1>1, <2>1, <2>2
<1> HIDE DEF total, prot, free
<1>8. GreedyStart \in Walks BY <1>1, <1>2, <1>7 DEF Walks
<1> QED BY <1>2, <1>7, <1>8

\* So does the whole walk, step by step.
LEMMA WalkSteps ==
  ASSUME Placed
  PROVE  /\ Walk[0] = GreedyStart
         /\ \A k \in 0..Len(Everything) : Walk[k] \in Walks
         /\ \A k \in 1..Len(Everything) :
              Walk[k] = Walk[k - 1] \/ Accepts(Walk[k - 1], Walk[k], Everything[k])
<1> DEFINE n == Len(Everything)
           H(w) == w = [k \in 0..n |-> IF k = 0 THEN GreedyStart ELSE GreedyStep(w[k - 1], k)]
           F == [x \in Walks \X (1..n) |-> GreedyStep(x[1], x[2])]
<1>1. n \in Nat BY CandidatesType
<1>2. F \in [Walks \X (1..n) -> Walks] BY StepShape
<1>3. \A s \in Walks : \A k \in 1..n : F[<<s, k>>] = GreedyStep(s, k) OBVIOUS
<1>4. PICK f \in [0..n -> Walks] : f[0] = GreedyStart /\ \A k \in 1..n : f[k] = F[<<f[k - 1], k>>]
  <2> HIDE DEF F, n
  <2>1. GreedyStart \in Walks BY GreedyStartType
  <2>2. \E f : Unfolds(f, Walks, GreedyStart, n, F) BY <1>1, <1>2, <2>1, Recursion
  <2> QED BY <2>2 DEF Unfolds
<1>5. H(f)
  <2> DEFINE h == [k \in 0..n |-> IF k = 0 THEN GreedyStart ELSE GreedyStep(f[k - 1], k)]
  <2>1. ASSUME NEW k \in 0..n PROVE f[k] = h[k]
    <3>1. CASE k = 0 BY <1>4, <3>1
    <3>2. CASE k \in 1..n
      <4>1. k - 1 \in 0..n /\ k # 0 BY <1>1, <3>2
      <4>2. f[k - 1] \in Walks BY <4>1
      <4>3. f[k] = GreedyStep(f[k - 1], k)
        <5> HIDE DEF F
        <5> QED BY <1>3, <1>4, <3>2, <4>2
      <4> QED BY <4>1, <4>3
    <3> QED BY <1>1, <3>1, <3>2
  <2>2. f = [k \in 0..n |-> f[k]] /\ h = [k \in 0..n |-> h[k]] OBVIOUS
  <2>3. f = h
    <3> HIDE DEF h
    <3> QED BY <2>1, <2>2
  <2> QED BY <2>3
<1>6. Walk = CHOOSE w : H(w) BY DEF Walk
<1>7. H(Walk)
  <2> HIDE DEF H
  <2> QED BY <1>5, <1>6
<1>8. 0 \in 0..n /\ \A k \in 1..n : k \in 0..n /\ k # 0 BY <1>1
<1>9. Walk[0] = GreedyStart BY <1>7, <1>8
<1>10. ASSUME NEW k \in 1..n PROVE Walk[k] = GreedyStep(Walk[k - 1], k) BY <1>7, <1>8
<1> DEFINE Y == {k \in Nat : k <= n => Walk[k] \in Walks}
<1>11. 0 \in Y BY <1>9, GreedyStartType
<1>12. ASSUME NEW k \in Nat, k \in Y PROVE k + 1 \in Y BY <1>1, <1>12, <1>10, StepShape
<1>13. \A k \in Nat : k \in Y
  <2> HIDE DEF Y
  <2> QED BY <1>11, <1>12, Induct
<1>14. \A k \in 0..n : Walk[k] \in Walks BY <1>1, <1>13
<1>15. ASSUME NEW k \in 1..n
       PROVE  Walk[k] = Walk[k - 1] \/ Accepts(Walk[k - 1], Walk[k], Everything[k])
  BY <1>1, <1>14, <1>10, StepShape
<1> QED BY <1>9, <1>14, <1>15

(* What the walk has admitted so far is what it admits in the end, of the   *)
(* candidates it has seen.                                                  *)
LEMMA WalkSel ==
  ASSUME Placed, NEW k \in 0..Len(Everything)
  PROVE  Walk[k].sel = {r \in Greedy : \E i \in 1..k : Everything[i] = r}
<1> DEFINE n == Len(Everything)
           Seen(j) == {Everything[i] : i \in 1..j}
           Agree(m) == /\ Walk[m].sel \subseteq Seen(m)
                       /\ \A j \in 0..m : Walk[j].sel = Walk[m].sel \cap Seen(j)
           Y == {m \in Nat : m <= n => Agree(m)}
<1>1. n \in Nat /\ \A i, j \in 1..n : Everything[i] = Everything[j] => i = j
  BY CandidatesType DEF Lists
<1>2. 0 \in Y BY WalkSteps, GreedyStartType
<1>3. ASSUME NEW m \in Nat, m \in Y PROVE m + 1 \in Y
  <2> HIDE DEF Agree, Seen, n
  <2> SUFFICES ASSUME m + 1 <= n PROVE Agree(m + 1) OBVIOUS
  <2> USE DEF Agree, Seen, n
  <2>1. Agree(m) /\ m + 1 \in 1..n /\ (m + 1) - 1 = m BY <1>1, <1>3
  <2> DEFINE x == Everything[m + 1]
  <2>2. Walk[m + 1].sel = Walk[m].sel \/ Walk[m + 1].sel = Walk[m].sel \cup {x}
    BY <2>1, WalkSteps DEF Accepts
  <2>3. Seen(m + 1) = Seen(m) \cup {x} BY <2>1
  <2>4. ASSUME NEW j \in 0..m PROVE x \notin Seen(j) BY <1>1, <2>1
  <2> HIDE DEF x
  <2>5. Walk[m + 1].sel \subseteq Seen(m + 1) BY <2>1, <2>2, <2>3
  <2>6. ASSUME NEW j \in 0..(m + 1) PROVE Walk[j].sel = Walk[m + 1].sel \cap Seen(j)
    <3>1. CASE j = m + 1 BY <2>5, <3>1
    <3>2. CASE j \in 0..m
      <4>1. Walk[j].sel = Walk[m].sel \cap Seen(j) /\ x \notin Seen(j) BY <2>1, <2>4, <3>2
      <4> HIDE DEF Seen
      <4> QED BY <2>2, <4>1
    <3> QED BY <3>1, <3>2
  <2> HIDE DEF Seen
  <2> QED BY <2>5, <2>6
<1>4. n \in Y
  <2>1. \A m \in Nat : m \in Y
    <3> HIDE DEF Y
    <3> QED BY <1>2, <1>3, Induct
  <2> QED BY <1>1, <2>1
<1>5. Walk[k].sel = Walk[n].sel \cap Seen(k) BY <1>1, <1>4
<1> QED BY <1>5 DEF Greedy

\* A grant leaves the walk no richer than the charge leaves the search.
LEMMA PoolsFollow ==
  ASSUME NEW P \in BOOLEAN,
         NEW gt \in Nat, NEW gp \in Nat, NEW gf \in Nat, NEW hp \in Nat, NEW hf \in Nat,
         NoRicher(gt, gp, gf, hp, hf),
         NEW a \in Nat, NEW c \in Nat, Afford(P, gt, gf, hp, hf, a, c),
         NEW v, v = (IF P THEN Least(a, gp) ELSE 0),
         NEW w, w = (IF P THEN Least(c, hp) ELSE 0)
  PROVE  NoRicher(NonNegative(gt - a), gp - v, NonNegative(gf - (a - v)),
                  hp - w, hf - (c - w))
<1> USE DEF NoRicher, Afford
<1>1. CASE P BY <1>1 DEF Least, NonNegative
<1>2. CASE ~P BY <1>2 DEF NonNegative
<1> QED BY <1>1, <1>2

\* The walk and the search start alike.
LEMMA FollowsStart ==
  ASSUME Placed PROVE Follows(GreedyStart, Start)
<1>1. /\ Start.sel = <<>> /\ Start.counts = StartCounts
      /\ Start.prot = StartPools.prot /\ Start.free = StartPools.free
  BY DEF Start
<1>2. Range(Start.sel) = {} BY <1>1 DEF Range
<1>3. StartPools.prot \in Nat /\ StartPools.free \in Nat BY ProblemTyped DEF ProblemType
<1>4. Cardinality({}) = 0 /\ Len(<<>>) = 0 BY FS_EmptySet
<1> DEFINE g == GreedyStart
           h == Start
<1>5. /\ g.sel = {} /\ g.counts = h.counts /\ g.free = h.free /\ g.total = h.prot + h.free
      /\ g.prot = h.prot \/ g.free = 0
      /\ h.prot \in Nat /\ h.free \in Nat /\ h.sel = <<>> /\ Range(h.sel) = {} /\ Sound(h)
  BY <1>1, <1>2, <1>3, StartSound, GreedyStartType
<1> HIDE DEF g, h
<1>6. g.sel = {rows[p] : p \in Range(h.sel)} /\ Cardinality(g.sel) = Len(h.sel)
  BY <1>4, <1>5
<1>7. g.free <= h.free /\ g.total <= h.prot + h.free /\ (g.prot <= h.prot \/ g.free = 0)
  BY <1>5
<1>8. Follows(g, h) BY <1>5, <1>6, <1>7 DEF Follows
<1> QED BY <1>8 DEF g, h

(* What is left in the pools never exceeds what they held at the start.     *)
LEMMA PoolsShrink ==
  ASSUME Placed, NEW s, Sound(s)
  PROVE  /\ s.prot + s.free <= StartPools.prot + StartPools.free
         /\ s.free <= StartPools.free
         /\ \A c \in Capacities : StartCounts[c] <= s.counts[c]
         /\ s.counts \in [Capacities -> Nat] /\ StartCounts \in [Capacities -> Nat]
         /\ s.prot \in Nat /\ s.free \in Nat
         /\ StartPools.prot \in Nat /\ StartPools.free \in Nat
<1> DEFINE R == Range(s.sel)
           z == [p \in DOMAIN rows |-> 0]
<1>1. ProblemType /\ R \in SUBSET DOMAIN rows /\ IsFiniteSet(R)
  BY ProblemTyped, SelType, FS_Subset DEF ProblemType
<1>2. ASSUME NEW Q \in SUBSET R PROVE SumFunctionOnSet(Charges, Q) \in Nat
  <2>1. IsFiniteSet(Q) /\ Q \subseteq DOMAIN rows BY <1>1, FS_Subset
  <2>2. \A p \in Q : z[p] \in Int /\ z[p] = 0 /\ Charges[p] \in Int /\ z[p] <= Charges[p]
    BY <1>1, <2>1, ChargesType
  <2> HIDE DEF z
  <2>3. SumFunctionOnSet(z, Q) = 0 * Cardinality(Q) /\ Cardinality(Q) \in Nat
    BY <2>1, <2>2, SumConstant, FS_CardinalityType
  <2>4. SumFunctionOnSet(z, Q) <= SumFunctionOnSet(Charges, Q) BY <2>1, <2>2, SumAtMost
  <2>5. SumFunctionOnSet(Charges, Q) \in Int BY <2>1, <2>2, SumType
  <2> QED BY <2>3, <2>4, <2>5
<1>3. SumFunctionOnSet(Charges, R) \in Nat /\ SumFunctionOnSet(Charges, Unprotected(R)) \in Nat
  BY <1>2 DEF Unprotected
<1>4. /\ s.prot \in Nat /\ s.free \in Nat
      /\ s.prot + s.free + SumFunctionOnSet(Charges, R) = StartPools.prot + StartPools.free
      /\ s.free + SumFunctionOnSet(Charges, Unprotected(R)) <= StartPools.free
      /\ StartPools.prot \in Nat /\ StartPools.free \in Nat
  BY <1>1 DEF Sound, Paid, ProblemType
<1>5. ASSUME NEW c \in Capacities PROVE StartCounts[c] <= s.counts[c]
  <2>1. s.counts[c] = StartCounts[c] + Cardinality(InClass(R, c)) /\ StartCounts[c] \in Nat
    BY <1>1 DEF Sound, Counted, ProblemType
  <2>2. Cardinality(InClass(R, c)) \in Nat
    BY <1>1, FS_Subset, FS_CardinalityType DEF InClass
  <2> QED BY <2>1, <2>2
<1>6. s.counts \in [Capacities -> Nat] /\ StartCounts \in [Capacities -> Nat]
  BY <1>1 DEF Sound, Counted, ProblemType
<1> QED BY <1>3, <1>4, <1>5, <1>6

\* What the walk accepts, the search admits too.
LEMMA FollowsStep ==
  ASSUME Placed, NEW g \in Walks, NEW h, Follows(g, h), NEW r \in wave.candidates,
         r \notin g.sel, NEW x \in Walks, Accepts(g, x, r)
  PROVE  /\ r \in Searched
         /\ \A p \in DOMAIN rows :
              rows[p] = r => Admits(h, p) /\ Follows(x, Include(h, p))
<1> DEFINE pays == wave.enforced /\ r.request > 0
           c == CapacityClass(r)
<1>1. PICK a \in Nat :
        LET v == IF Protected(r) THEN Least(a, g.prot) ELSE 0
        IN  /\ Fits(g, r)
            /\ pays => MinGrant <= a /\ a <= (IF Protected(r) THEN g.total ELSE g.free)
            /\ pays => r.request >= MinGrant
            /\ ~pays => a = 0
            /\ x.sel = g.sel \cup {r}
            /\ x.counts = [g.counts EXCEPT ![c] = @ + 1]
            /\ x.total = NonNegative(g.total - a)
            /\ x.prot = g.prot - v
            /\ x.free = NonNegative(g.free - (a - v))
  BY DEF Accepts
<1>2. /\ r.request \in Nat /\ Protected(r) \in BOOLEAN /\ c \in Capacities
      /\ g.total \in Nat /\ g.prot \in Nat /\ g.free \in Nat
      /\ IsRow(r)
  BY CandidatesType, RowType DEF Walks
<1>3. /\ Sound(h) /\ g.sel = {rows[p] : p \in Range(h.sel)}
      /\ Cardinality(g.sel) = Len(h.sel) /\ g.counts = h.counts
      /\ g.free <= h.free /\ g.total <= h.prot + h.free
      /\ g.prot <= h.prot \/ g.free = 0
  BY DEF Follows
<1>4. /\ h.prot + h.free <= StartPools.prot + StartPools.free
      /\ h.free <= StartPools.free
      /\ StartCounts[c] <= h.counts[c] /\ StartCounts[c] \in Nat /\ h.counts[c] \in Nat
      /\ h.prot \in Nat /\ h.free \in Nat
      /\ StartPools.prot \in Nat /\ StartPools.free \in Nat
  BY <1>2, <1>3, PoolsShrink
<1>5. /\ r.allowed /\ ~Conflict(r, wave.primary)
      /\ \A q \in g.sel : ~Conflict(r, q)
      /\ Cardinality(g.sel) < MaxCompanions
      /\ g.counts[c] < wave.caps[c]
  BY <1>1 DEF Fits
<1>6. ProblemType /\ wave.caps[c] \in Nat /\ MaxCompanions \in Nat /\ Len(h.sel) \in Nat
  BY ProblemTyped, <1>3, <1>2, LenProperties DEF Sound, Shaped, ProblemType
<1>7. pays => /\ MinGrant <= Available(r, h) /\ MinGrant <= Available(r, StartPools)
              /\ r.request >= MinGrant
  <2>1. MinGrant \in Nat BY PositiveSizes
  <2> SUFFICES ASSUME pays
               PROVE  /\ MinGrant <= Available(r, h) /\ MinGrant <= Available(r, StartPools)
                      /\ r.request >= MinGrant
    OBVIOUS
  <2>2. r.request >= MinGrant /\ MinGrant <= (IF Protected(r) THEN g.total ELSE g.free)
    BY <1>1, <1>2, <2>1
  <2>3. CASE Protected(r) BY <1>2, <1>3, <1>4, <2>1, <2>2, <2>3, SMTT(30) DEF Available
  <2>4. CASE ~Protected(r) BY <1>2, <1>3, <1>4, <2>1, <2>2, <2>4, SMTT(30) DEF Available
  <2> QED BY <1>2, <2>3, <2>4
<1>8. r \in Searched
  BY <1>3, <1>4, <1>5, <1>6, <1>2, <1>7, SMTT(30) DEF Searched, Searchable
<1>9. ASSUME NEW p \in DOMAIN rows, rows[p] = r
      PROVE  Admits(h, p) /\ Follows(x, Include(h, p))
  <2>1. Admits(h, p) BY <1>3, <1>5, <1>9, <1>7 DEF Admits
  <2>2. p \notin Range(h.sel) BY <1>3, <1>9
  <2> DEFINE t == Include(h, p)
             e == Charge(r)
             v == IF Protected(r) THEN Least(a, g.prot) ELSE 0
             w == IF Protected(r) THEN Least(e, h.prot) ELSE 0
  <2>3. Sound(t) /\ Range(t.sel) = Range(h.sel) \cup {p} /\ Len(t.sel) = Len(h.sel) + 1
        /\ t.counts = [h.counts EXCEPT ![c] = @ + 1]
    BY <1>3, <1>9, <2>1, <2>2, IncludeSound, IncludeShape, IncludeCounted
  <2>4. t.prot = h.prot - w /\ t.free = h.free - (e - w) BY <1>9 DEF Include
  <2> HIDE DEF t
  <2>5. /\ e \in Nat /\ e <= a
        /\ a = e \/ a <= (IF Protected(r) THEN g.total ELSE g.free)
        /\ e <= (IF Protected(r) THEN h.prot + h.free ELSE h.free)
    BY <1>1, <1>2, <1>3, <1>4, PositiveSizes, SMTT(30) DEF Charge
  <2> HIDE DEF e
  <2>6. /\ NonNegative(g.free - (a - v)) <= h.free - (e - w)
        /\ NonNegative(g.total - a) <= (h.prot - w) + (h.free - (e - w))
        /\ g.prot - v <= h.prot - w \/ NonNegative(g.free - (a - v)) = 0
    <3>1. /\ Protected(r) \in BOOLEAN
          /\ g.total \in Nat /\ g.prot \in Nat /\ g.free \in Nat
          /\ h.prot \in Nat /\ h.free \in Nat /\ a \in Nat /\ e \in Nat
      BY <1>2, <1>4, <2>5
    <3>2. /\ g.free <= h.free /\ g.total <= h.prot + h.free
          /\ g.prot <= h.prot \/ g.free = 0
      BY <1>3
    <3>3. /\ NoRicher(g.total, g.prot, g.free, h.prot, h.free)
          /\ Afford(Protected(r), g.total, g.free, h.prot, h.free, a, e)
      BY <2>5, <3>2 DEF NoRicher, Afford
    <3>4. /\ v = (IF Protected(r) THEN Least(a, g.prot) ELSE 0)
          /\ w = (IF Protected(r) THEN Least(e, h.prot) ELSE 0)
      OBVIOUS
    <3> HIDE DEF v, w
    <3>5. NoRicher(NonNegative(g.total - a), g.prot - v, NonNegative(g.free - (a - v)),
                   h.prot - w, h.free - (e - w))
      BY ONLY <3>1, <3>3, <3>4, PoolsFollow, ZenonT(30)
    <3> QED BY <3>5 DEF NoRicher
  <2>7. x.total = NonNegative(g.total - a) /\ x.prot = g.prot - v
        /\ x.free = NonNegative(g.free - (a - v))
        /\ x.sel = g.sel \cup {r} /\ x.counts = [g.counts EXCEPT ![c] = @ + 1]
    BY <1>1
  <2> HIDE DEF v, w
  <2>8. x.free <= t.free /\ x.total <= t.prot + t.free /\ (x.prot <= t.prot \/ x.free = 0)
    BY <2>4, <2>6, <2>7
  <2>9. x.sel = {rows[q] : q \in Range(t.sel)} BY <1>3, <1>9, <2>3, <2>7
  <2>10. Cardinality(x.sel) = Len(t.sel)
    <3>1. IsFiniteSet(g.sel) BY CandidatesType, FS_Subset DEF Walks
    <3>2. Cardinality(g.sel \cup {r}) = Cardinality(g.sel) + 1 BY <3>1, FS_AddElement
    <3> QED BY <1>3, <2>3, <2>7, <3>2
  <2>11. x.counts = t.counts BY <1>3, <2>3, <2>7
  <2>12. Follows(x, t) BY <2>3, <2>8, <2>9, <2>10, <2>11 DEF Follows
  <2> QED BY <2>1, <2>12 DEF t
<1> QED BY <1>8, <1>9

\* The next row the walk accepts is the next of the greedy wave.
LEMMA NextGreedyRow ==
  ASSUME Placed, NEW k \in Nat, k + 1 <= Len(Everything),
         NEW j \in 0..Len(GreedyPositions), InStep(k, j),
         NEW p \in GreedyRows, rows[p] = Everything[k + 1]
  PROVE  j + 1 \in 1..Len(GreedyPositions) /\ GreedyPositions[j + 1] = p
<1> DEFINE P == GreedyPositions
           n == Len(P)
           r == Everything[k + 1]
           N == Len(Everything)
<1>1. ProblemType /\ p \in DOMAIN rows BY ProblemTyped DEF GreedyRows
<1>2. /\ n \in Nat /\ \A i \in 1..n : P[i] \in GreedyRows
      /\ \A q \in GreedyRows : \E i \in 1..n : P[i] = q
      /\ \A a, b \in 1..n : a < b => P[a] < P[b]
  BY <1>1, GreedyPositionsType
<1>3. /\ N \in Nat /\ k + 1 \in 1..N /\ k \in 0..N
      /\ Lists(Everything, wave.candidates) /\ Lists(rows, Searched)
  BY CandidatesType DEF Placed
<1>4. Walk[k].sel = {s \in Greedy : \E i \in 1..k : Everything[i] = s} BY <1>3, WalkSel
<1>5. \A a, b \in 1..N : Everything[a] = Everything[b] => a = b BY <1>3 DEF Lists
<1>6. r \notin Walk[k].sel BY <1>4, <1>3, <1>5
<1>7. {P[i] : i \in 1..j} = {q \in GreedyRows : rows[q] \in Walk[k].sel} BY DEF InStep
<1>8. PICK m \in 1..n : P[m] = p BY <1>2
<1>9. m > j /\ j + 1 \in 1..n BY <1>6, <1>7, <1>8, <1>2
<1>10. ASSUME j + 1 # m PROVE FALSE
  <2> DEFINE e == P[j + 1]
             s == rows[e]
  <2>1. e \in GreedyRows /\ e < p BY <1>2, <1>8, <1>9, <1>10
  <2>2. e \in DOMAIN rows /\ s \in Greedy /\ s \in wave.candidates /\ r \in wave.candidates
        /\ LexLess(OrderKey(s), OrderKey(r))
    BY <2>1, <1>1, <1>3 DEF GreedyRows, ProblemType, Lists
  <2>3. PICK i \in 1..N : Everything[i] = s BY <1>3, <2>2 DEF Lists
  <2>4. OrderKey(s) \in Seq(Int) /\ OrderKey(r) \in Seq(Int)
    BY <2>2, CandidatesType, RowType
  <2>5. i \in 1..k
    <3>1. CASE i = k + 1 BY <2>2, <2>3, <2>4, <3>1, LexIrreflexive
    <3>2. CASE i > k + 1
      <4>1. LexLess(OrderKey(r), OrderKey(s)) BY <1>3, <2>3, <3>2 DEF Lists
      <4>2. LexLess(OrderKey(s), OrderKey(s)) BY ONLY <2>2, <2>4, <4>1, LexTransitive
      <4> QED BY <2>4, <4>2, LexIrreflexive
    <3> QED BY <1>3, <3>1, <3>2
  <2>6. e \in {P[i_1] : i_1 \in 1..j} BY <1>4, <2>2, <2>3, <2>5, <1>7, <2>1
  <2>7. PICK a \in 1..j : P[a] = P[j + 1] BY <2>6
  <2>8. a \in 1..n /\ a < j + 1 /\ P[j + 1] \in Int
    BY <1>1, <1>2, <1>9, SMTT(30) DEF GreedyRows, ProblemType
  <2> QED BY <1>2, <1>9, <2>7, <2>8
<1> QED BY <1>8, <1>9, <1>10

\* Before the first candidate the two are in step.
LEMMA InStepStarts == ASSUME Placed PROVE InStep(0, 0)
<1>1. Walk[0] = GreedyStart /\ Rebuilt[0] = Start /\ GreedyStart.sel = {}
  BY WalkSteps, RebuiltSteps, GreedyStartType
<1>2. Follows(Walk[0], Rebuilt[0]) BY <1>1, FollowsStart
<1> QED BY <1>1, <1>2 DEF InStep

\* And they stay in step.
LEMMA InStepGoesOn ==
  ASSUME Placed, NEW k \in Nat, k + 1 <= Len(Everything),
         NEW j \in 0..Len(GreedyPositions), InStep(k, j)
  PROVE  \E i \in 0..Len(GreedyPositions) : InStep(k + 1, i)
<1> DEFINE P == GreedyPositions
           n == Len(P)
           r == Everything[k + 1]
           g == Walk[k]
           x == Walk[k + 1]
<1>1. ProblemType /\ Len(Everything) \in Nat /\ n \in Nat /\ j \in Nat
      /\ k \in 0..Len(Everything) /\ k + 1 \in 1..Len(Everything)
      /\ k + 1 \in 0..Len(Everything) /\ (k + 1) - 1 = k
  BY ProblemTyped, CandidatesType, GreedyPositionsType
<1>2. /\ g \in Walks /\ x \in Walks /\ r \in wave.candidates
      /\ x = g \/ Accepts(g, x, r)
  BY <1>1, WalkSteps, CandidatesType
<1>3. CASE x = g BY <1>3 DEF InStep
<1>4. CASE Accepts(g, x, r)
  <2>1. x.sel = g.sel \cup {r} BY <1>4 DEF Accepts
  <2>2. r \notin g.sel BY <1>1, WalkSel, CandidatesType DEF Lists
  <2>3. r \in Greedy BY <1>1, WalkSel, <2>1
  <2>4. /\ r \in Searched
        /\ \A q \in DOMAIN rows :
             rows[q] = r => Admits(Rebuilt[j], q) /\ Follows(x, Include(Rebuilt[j], q))
    <3>1. Follows(g, Rebuilt[j]) BY DEF InStep
    <3> HIDE DEF g, x, r
    <3> QED BY <1>2, <1>4, <2>2, <3>1, FollowsStep
  <2>5. PICK p \in DOMAIN rows : rows[p] = r BY <1>1, <2>4 DEF Placed, Lists, ProblemType
  <2>6. p \in GreedyRows BY <2>3, <2>5 DEF GreedyRows
  <2>7. j + 1 \in 1..n /\ P[j + 1] = p BY <2>5, <2>6, NextGreedyRow
  <2>8. Rebuilt[j + 1] = Include(Rebuilt[j], p) BY <1>1, <2>7, RebuiltSteps
  <2>9. Follows(x, Rebuilt[j + 1]) BY <2>4, <2>5, <2>8
  <2>10. ASSUME NEW i \in 1..(j + 1) PROVE Admits(Rebuilt[i - 1], P[i])
    BY <1>1, <2>4, <2>5, <2>7 DEF InStep
  <2>11. {P[i] : i \in 1..(j + 1)} = {q \in GreedyRows : rows[q] \in x.sel}
    <3>1. 1..(j + 1) = 1..j \cup {j + 1} BY <1>1
    <3>2. {P[i] : i \in 1..(j + 1)} = {P[i] : i \in 1..j} \cup {p} BY <2>7, <3>1
    <3>3. {P[i] : i \in 1..j} = {q \in GreedyRows : rows[q] \in g.sel} BY DEF InStep
    <3>4. \A q \in GreedyRows : rows[q] = r <=> q = p
      BY <1>1, <2>5 DEF ProblemType, GreedyRows
    <3>5. {q \in GreedyRows : rows[q] \in x.sel}
            = {q \in GreedyRows : rows[q] \in g.sel} \cup {p}
      <4> HIDE DEF g, x, r
      <4> QED BY <2>1, <2>6, <3>4
    <3> QED BY <3>2, <3>3, <3>5
  <2>12. InStep(k + 1, j + 1) BY <2>9, <2>10, <2>11 DEF InStep
  <2> QED BY <2>7, <2>12
<1> QED BY <1>2, <1>3, <1>4

(* The greedy wave always fits the search: each of its rows is admitted in  *)
(* turn, so the search never has to refuse it.                              *)
LEMMA GreedyFits == ASSUME Placed PROVE GreedyAdmissible
<1> DEFINE P == GreedyPositions
           n == Len(P)
           N == Len(Everything)
           X == {k \in Nat : k <= N => \E j \in 0..n : InStep(k, j)}
<1>1. ProblemType /\ N \in Nat /\ n \in Nat /\ DOMAIN P = 1..n
      /\ \A i \in 1..n : P[i] \in GreedyRows
      /\ \A a, b \in 1..n : a < b => P[a] < P[b]
  BY ProblemTyped, CandidatesType, GreedyPositionsType
<1>2. 0 \in X BY <1>1, InStepStarts
<1>3. ASSUME NEW k \in Nat, k \in X PROVE k + 1 \in X BY <1>1, <1>3, InStepGoesOn
<1>4. PICK j \in 0..n : InStep(N, j)
  <2>1. \A k \in Nat : k \in X
    <3> HIDE DEF X
    <3> QED BY <1>2, <1>3, Induct
  <2> QED BY <1>1, <2>1
<1>5. j = n
  <2>0. n \in Nat /\ j \in 0..n BY <1>1, <1>4
  <2> SUFFICES ASSUME j < n PROVE FALSE BY <2>0
  <2>1. n \in 1..n BY <2>0
  <2>2. rows[P[n]] \in Walk[N].sel BY <1>1, <2>1 DEF GreedyRows, Greedy
  <2>3. P[n] \in {P[i] : i \in 1..j} BY <1>1, <1>4, <2>1, <2>2 DEF InStep
  <2>4. PICK i \in 1..j : P[i] = P[n] BY <2>3
  <2>5. i \in 1..n /\ i < n /\ P[n] \in Int BY <1>1, <2>1 DEF GreedyRows, ProblemType
  <2> QED BY <1>1, <2>1, <2>4, <2>5
<1> QED BY <1>1, <1>4, <1>5 DEF InStep, GreedyAdmissible

(* A search that has its problem placed is never refused.                   *)
LEMMA NeverRefused == Spec => [](phase # "refused")
<1> DEFINE I == phase # "refused"
<1>1. SearchInv /\ I /\ [Next]_vars => I'
  BY GreedyFits DEF SearchInv, Next, Layer, CompareGreedy, Expand, EndCompletion, Allocate,
       Finished, vars
<1>2. Init => I BY DEF Init
<1> QED BY <1>1, <1>2, SearchSound, PTL DEF Spec

(* The search never does worse than the greedy policy it replaced, whose    *)
(* wave always fits it: the error raised otherwise never is.                *)
THEOREM GreedyBound == Spec => []GreedyLowerBound
<1>1. SearchInv /\ phase # "refused" => GreedyLowerBound
  BY DEF SearchInv, Compared, GreedyLowerBound
<1> QED BY <1>1, SearchSound, NeverRefused, PTL

-----------------------------------------------------------------------------

(* Objectives are compared component by component. *)

\* The members of a sequence of integers are integers.
LEMMA IntegerMembers ==
  ASSUME NEW a \in Seq(Int) PROVE \A i \in 1..Len(a) : a[i] \in Int
  OBVIOUS

(* A tuple of four is at most another when the first component in which     *)
(* they differ is less, as Python compares the scores of two waves.         *)
LEMMA LexFour ==
  ASSUME NEW a \in Tuples(4), NEW b \in Tuples(4)
  PROVE  LexAtMost(a, b) <=>
           \/ a[1] < b[1]
           \/ a[1] = b[1] /\ a[2] < b[2]
           \/ a[1] = b[1] /\ a[2] = b[2] /\ a[3] < b[3]
           \/ a[1] = b[1] /\ a[2] = b[2] /\ a[3] = b[3] /\ a[4] <= b[4]
<1>1. /\ a \in Seq(Int) /\ b \in Seq(Int) /\ Len(a) = 4 /\ Len(b) = 4
      /\ a[1] \in Int /\ a[2] \in Int /\ a[3] \in Int /\ a[4] \in Int
      /\ b[1] \in Int /\ b[2] \in Int /\ b[3] \in Int /\ b[4] \in Int
  <2>1. a \in Seq(Int) /\ b \in Seq(Int) /\ Len(a) = 4 /\ Len(b) = 4 BY DEF Tuples
  <2>2. (\A i \in 1..Len(a) : a[i] \in Int) /\ (\A i \in 1..Len(b) : b[i] \in Int)
    BY <2>1, IntegerMembers, Zenon
  <2> QED BY <2>1, <2>2
<1>2. a = b <=> a[1] = b[1] /\ a[2] = b[2] /\ a[3] = b[3] /\ a[4] = b[4]
  <2>1. ASSUME a[1] = b[1], a[2] = b[2], a[3] = b[3], a[4] = b[4] PROVE a = b
    <3>1. 1..4 = {1, 2, 3, 4} OBVIOUS
    <3>2. \A i \in 1..Len(a) : a[i] = b[i] BY <1>1, <2>1, <3>1
    <3> QED BY <1>1, <3>2, SeqEqual
  <2> QED BY <2>1
<1>3. LexLess(a, b) <=>
           \/ a[1] < b[1]
           \/ a[1] = b[1] /\ a[2] < b[2]
           \/ a[1] = b[1] /\ a[2] = b[2] /\ a[3] < b[3]
           \/ a[1] = b[1] /\ a[2] = b[2] /\ a[3] = b[3] /\ a[4] < b[4]
  BY <1>1 DEF LexLess
<1>4. LexAtMost(a, b) <=> a = b \/ LexLess(a, b) BY DEF LexAtMost
<1> QED BY ONLY <1>1, <1>2, <1>3, <1>4, SMTT(30)

\* The order of triples, component by component.
LEMMA LexThree ==
  ASSUME NEW a \in Tuples(3), NEW b \in Tuples(3)
  PROVE  LexAtMost(a, b) <=>
           \/ a[1] < b[1]
           \/ a[1] = b[1] /\ a[2] < b[2]
           \/ a[1] = b[1] /\ a[2] = b[2] /\ a[3] <= b[3]
<1>1. /\ a \in Seq(Int) /\ b \in Seq(Int) /\ Len(a) = 3 /\ Len(b) = 3
      /\ a[1] \in Int /\ a[2] \in Int /\ a[3] \in Int
      /\ b[1] \in Int /\ b[2] \in Int /\ b[3] \in Int
  BY IntegerMembers DEF Tuples
<1>2. a = b <=> a[1] = b[1] /\ a[2] = b[2] /\ a[3] = b[3]
  <2>1. ASSUME a[1] = b[1], a[2] = b[2], a[3] = b[3] PROVE a = b
    <3>1. 1..3 = {1, 2, 3} OBVIOUS
    <3>2. \A i \in 1..Len(a) : a[i] = b[i] BY <1>1, <2>1, <3>1
    <3> QED BY <1>1, <3>2, SeqEqual
  <2> QED BY <2>1
<1>3. LexLess(a, b) <=>
           \/ a[1] < b[1]
           \/ a[1] = b[1] /\ a[2] < b[2]
           \/ a[1] = b[1] /\ a[2] = b[2] /\ a[3] < b[3]
  BY <1>1 DEF LexLess
<1> QED BY <1>1, <1>2, <1>3 DEF LexAtMost

\* The order of pairs, component by component.
LEMMA LexTwo ==
  ASSUME NEW a1 \in Int, NEW a2 \in Int, NEW b1 \in Int, NEW b2 \in Int
  PROVE  /\ LexLess(<<a1, a2>>, <<b1, b2>>) <=> a1 < b1 \/ (a1 = b1 /\ a2 < b2)
         /\ <<a1, a2>> = <<b1, b2>> <=> a1 = b1 /\ a2 = b2
<1> DEFINE a == <<a1, a2>>
           b == <<b1, b2>>
<1>1. Len(a) = 2 /\ Len(b) = 2 /\ a[1] = a1 /\ a[2] = a2 /\ b[1] = b1 /\ b[2] = b2 OBVIOUS
<1>2. LexLess(a, b) <=> \E i \in 1..2 : (\A j \in 1..(i - 1) : a[j] = b[j]) /\ a[i] < b[i]
  <2>1. \A i \in 1..2 : i - 1 <= Len(a) /\ ~(i > Len(a)) BY <1>1
  <2> HIDE DEF a, b
  <2> QED BY <1>1, <2>1 DEF LexLess
<1>3. 1..2 = {1, 2} /\ 1..(1 - 1) = {} /\ 1..(2 - 1) = {1} OBVIOUS
<1>4. LexLess(a, b) <=> a[1] < b[1] \/ (a[1] = b[1] /\ a[2] < b[2])
  <2> HIDE DEF a, b
  <2> QED BY <1>2, <1>3
<1> QED BY <1>1, <1>4

\* NoWorse is a total preorder, the complement of being worse.
LEMMA NoWorseOrder ==
  ASSUME NEW v1 \in Seq(Int), NEW i1 \in Seq(Int), NEW v2 \in Seq(Int), NEW i2 \in Seq(Int)
  PROVE  /\ NoWorse(v1, i1, v2, i2) \/ NoWorse(v2, i2, v1, i1)
         /\ NoWorse(v1, i1, v1, i1)
         /\ NoWorse(v1, i1, v2, i2) <=>
              ~(LexLess(v1, v2) \/ (v1 = v2 /\ LexLess(i2, i1)))
         /\ NoWorse(v1, i1, v2, i2) => LexAtMost(v2, v1)
<1>1. /\ v1 = v2 \/ LexLess(v1, v2) \/ LexLess(v2, v1)
      /\ i1 = i2 \/ LexLess(i1, i2) \/ LexLess(i2, i1)
  BY LexTotal
<1>2. /\ ~(LexLess(v1, v2) /\ LexLess(v2, v1)) /\ ~(LexLess(i1, i2) /\ LexLess(i2, i1))
      /\ ~LexLess(v1, v1) /\ ~LexLess(i1, i1)
  BY LexTransitive, LexIrreflexive
<1> QED BY <1>1, <1>2 DEF NoWorse, LexAtMost

\* Being at most is transitive, and strictness carries over.
LEMMA LexAtMostTransitive ==
  ASSUME NEW a \in Seq(Int), NEW b \in Seq(Int), NEW c \in Seq(Int),
         LexAtMost(a, b), LexAtMost(b, c)
  PROVE  LexAtMost(a, c) /\ (LexLess(a, b) \/ LexLess(b, c) => LexLess(a, c))
  BY LexTransitive DEF LexAtMost

\* Being no worse is transitive.
LEMMA NoWorseTransitive ==
  ASSUME NEW v1 \in Seq(Int), NEW i1 \in Seq(Int), NEW v2 \in Seq(Int), NEW i2 \in Seq(Int),
         NEW v3 \in Seq(Int), NEW i3 \in Seq(Int),
         NoWorse(v1, i1, v2, i2), NoWorse(v2, i2, v3, i3)
  PROVE  NoWorse(v1, i1, v3, i3)
<1>1. LexLess(v2, v1) \/ (v1 = v2 /\ LexAtMost(i1, i2)) BY DEF NoWorse
<1>2. LexLess(v3, v2) \/ (v2 = v3 /\ LexAtMost(i2, i3)) BY DEF NoWorse
<1>3. LexLess(v3, v2) /\ LexLess(v2, v1) => LexLess(v3, v1) BY LexTransitive
<1>4. LexAtMost(i1, i2) /\ LexAtMost(i2, i3) => LexAtMost(i1, i3) BY LexAtMostTransitive
<1> QED BY <1>1, <1>2, <1>3, <1>4 DEF NoWorse

-----------------------------------------------------------------------------

(* What sets of rows weigh, and what they cost. *)

\* A sum of naturals is a natural.
LEMMA SumNatural ==
  ASSUME NEW S, IsFiniteSet(S), NEW f, \A x \in S : f[x] \in Nat
  PROVE  SumFunctionOnSet(f, S) \in Nat
<1> DEFINE g == [x \in S |-> 0]
<1>1. SumFunctionOnSet(g, S) = 0 * Cardinality(S)
  <2>1. 0 \in Int /\ \A x \in S : g[x] = 0 OBVIOUS
  <2> HIDE DEF g
  <2> QED BY ONLY <2>1, IsFiniteSet(S), SumConstant
<1>2. SumFunctionOnSet(g, S) <= SumFunctionOnSet(f, S) BY SumAtMost
<1>3. SumFunctionOnSet(f, S) \in Int /\ Cardinality(S) \in Nat
  BY SumType, FS_CardinalityType
<1> QED BY <1>1, <1>2, <1>3

\* A sum is that of one element and the others.
LEMMA SumRemove ==
  ASSUME NEW S, IsFiniteSet(S), NEW f, \A x \in S : f[x] \in Int, NEW y \in S
  PROVE  SumFunctionOnSet(f, S) = f[y] + SumFunctionOnSet(f, S \ {y})
<1>1. IsFiniteSet(S \ {y}) /\ y \notin S \ {y} BY FS_Subset
<1>2. (S \ {y}) \cup {y} = S OBVIOUS
<1>3. SumFunctionOnSet(f, (S \ {y}) \cup {y}) = f[y] + SumFunctionOnSet(f, S \ {y})
  <2>1. \A x \in (S \ {y}) \cup {y} : f[x] \in Int OBVIOUS
  <2> QED BY ONLY <1>1, <2>1, SumAdd
<1> QED BY <1>2, <1>3

\* What a row weighs and costs, by its position.
LEMMA RowAmounts ==
  ASSUME ProblemType
  PROVE  \A p \in DOMAIN rows :
           /\ Weights[p] = Weight(rows[p]) /\ Weights[p] \in Nat
           /\ Priorities[p] = Priority(rows[p]) /\ Priorities[p] \in Nat
           /\ Charges[p] = Charge(rows[p]) /\ Charges[p] \in Nat
           /\ CapacityClass(rows[p]) \in Capacities
           /\ Protected(rows[p]) \in BOOLEAN
  BY RowType DEF ProblemType, Weights, Priorities, Charges

(* The amounts of a set of rows are natural numbers, and what the protected *)
(* and the unprotected rows cost adds up.                                   *)
LEMMA AmountsType ==
  ASSUME ProblemType, NEW R \in SUBSET DOMAIN rows
  PROVE  /\ IsFiniteSet(R) /\ Cardinality(R) \in Nat
         /\ Fair(R) \in Nat /\ Prio(R) \in Nat /\ Bill(R) \in Nat
         /\ Bill(Unprotected(R)) \in Nat /\ Bill(Guarded(R)) \in Nat
         /\ Bill(R) = Bill(Unprotected(R)) + Bill(Guarded(R))
         /\ \A c : IsFiniteSet(InClass(R, c)) /\ Cardinality(InClass(R, c)) \in Nat
<1>1. IsFiniteSet(R) BY FS_Subset DEF ProblemType
<1>2. /\ \A p \in R : Weights[p] \in Nat /\ Priorities[p] \in Nat /\ Charges[p] \in Nat
      /\ \A p \in R : Charges[p] \in Int
  BY RowAmounts
<1>3. /\ IsFiniteSet(Unprotected(R)) /\ IsFiniteSet(Guarded(R))
      /\ \A c : IsFiniteSet(InClass(R, c))
      /\ Unprotected(R) \subseteq R /\ Guarded(R) \subseteq R /\ R \ Unprotected(R) = Guarded(R)
  BY <1>1, FS_Subset DEF Unprotected, Guarded, InClass
<1>4. Fair(R) \in Nat /\ Prio(R) \in Nat /\ Bill(R) \in Nat
  BY <1>1, <1>2, SumNatural DEF Fair, Prio, Bill
<1>5. Bill(Unprotected(R)) \in Nat /\ Bill(Guarded(R)) \in Nat
  BY <1>2, <1>3, SumNatural DEF Bill
<1>6. Bill(R) = Bill(Unprotected(R)) + Bill(Guarded(R))
  BY <1>1, <1>2, <1>3, SumSplit DEF Bill
<1> QED BY <1>1, <1>3, <1>4, <1>5, <1>6, FS_CardinalityType

(* What one row contributes. *)
LEMMA AmountsRemove ==
  ASSUME ProblemType, NEW R \in SUBSET DOMAIN rows, NEW x \in R
  PROVE  LET T == R \ {x} IN
         /\ T \in SUBSET DOMAIN rows
         /\ Fair(R) = Weight(rows[x]) + Fair(T)
         /\ Prio(R) = Priority(rows[x]) + Prio(T)
         /\ Bill(R) = Charge(rows[x]) + Bill(T)
         /\ Cardinality(R) = 1 + Cardinality(T)
         /\ Bill(Unprotected(R)) =
              (IF Protected(rows[x]) THEN 0 ELSE Charge(rows[x])) + Bill(Unprotected(T))
         /\ Bill(Guarded(R)) =
              (IF Protected(rows[x]) THEN Charge(rows[x]) ELSE 0) + Bill(Guarded(T))
         /\ \A c : Cardinality(InClass(R, c)) =
              (IF c = CapacityClass(rows[x]) THEN 1 ELSE 0) + Cardinality(InClass(T, c))
<1> DEFINE T == R \ {x}
<1>0. T \in SUBSET DOMAIN rows /\ x \in DOMAIN rows OBVIOUS
<1>1. /\ IsFiniteSet(R) /\ IsFiniteSet(Unprotected(R)) /\ IsFiniteSet(Guarded(R))
      /\ \A c : IsFiniteSet(InClass(R, c))
  BY AmountsType, FS_Subset DEF Unprotected, Guarded, InClass
<1>2. /\ \A p \in R : Weights[p] \in Int /\ Priorities[p] \in Int /\ Charges[p] \in Int
      /\ Weights[x] = Weight(rows[x]) /\ Priorities[x] = Priority(rows[x])
      /\ Charges[x] = Charge(rows[x]) /\ Charges[x] \in Nat
  BY RowAmounts
<1>3. /\ Fair(R) = Weight(rows[x]) + Fair(T)
      /\ Prio(R) = Priority(rows[x]) + Prio(T)
      /\ Bill(R) = Charge(rows[x]) + Bill(T)
  BY <1>1, <1>2, SumRemove DEF Fair, Prio, Bill
<1>4. Cardinality(R) = 1 + Cardinality(T)
  <2>1. Cardinality(T) = Cardinality(R) - 1 /\ Cardinality(R) \in Nat
    BY <1>1, FS_RemoveElement, FS_CardinalityType
  <2> QED BY <2>1
<1>5. Bill(Unprotected(R)) =
              (IF Protected(rows[x]) THEN 0 ELSE Charge(rows[x])) + Bill(Unprotected(T))
  BY <1>0, AmountsType, <1>2, <1>1, SumRemove DEF Unprotected, Bill
<1>6. Bill(Guarded(R)) =
              (IF Protected(rows[x]) THEN Charge(rows[x]) ELSE 0) + Bill(Guarded(T))
  <2>0. Bill(Guarded(T)) \in Nat BY <1>0, AmountsType
  <2>1. CASE ~Protected(rows[x])
    <3>1. Guarded(R) = Guarded(T) BY <2>1 DEF Guarded
    <3> QED BY <2>0, <2>1, <3>1
  <2>2. CASE Protected(rows[x]) BY <1>2, <2>2, <1>1, SumRemove DEF Guarded, Bill
  <2> QED BY <2>1, <2>2
<1>7. ASSUME NEW c
      PROVE  Cardinality(InClass(R, c)) =
              (IF c = CapacityClass(rows[x]) THEN 1 ELSE 0) + Cardinality(InClass(T, c))
  <2>0. Cardinality(InClass(T, c)) \in Nat BY <1>0, AmountsType
  <2>1. CASE c # CapacityClass(rows[x]) BY <2>1, <2>0 DEF InClass
  <2>2. CASE c = CapacityClass(rows[x])
    <3>1. InClass(R, c) \ {x} = InClass(T, c) /\ x \in InClass(R, c) BY <2>2 DEF InClass
    <3>2. /\ Cardinality(InClass(R, c) \ {x}) = Cardinality(InClass(R, c)) - 1
          /\ Cardinality(InClass(R, c)) \in Nat
      BY <1>1, <3>1, FS_RemoveElement, FS_CardinalityType
    <3>3. Cardinality(InClass(T, c)) = Cardinality(InClass(R, c) \ {x}) BY <3>1, Zenon
    <3> HIDE DEF T
    <3> QED BY <2>0, <2>2, <3>2, <3>3
  <2> QED BY <2>1, <2>2
<1> QED BY <1>0, <1>3, <1>4, <1>5, <1>6, <1>7

(* Nothing weighs and costs nothing. *)
LEMMA AmountsEmpty ==
  /\ Fair({}) = 0 /\ Prio({}) = 0 /\ Bill({}) = 0 /\ Cardinality({}) = 0
  /\ Unprotected({}) = {} /\ Guarded({}) = {} /\ \A c : InClass({}, c) = {}
  BY SumEmpty, FS_EmptySet DEF Fair, Prio, Bill, Unprotected, Guarded, InClass

(* Two sets of rows without a common row. *)
LEMMA AmountsUnion ==
  ASSUME ProblemType, NEW A \in SUBSET DOMAIN rows, NEW B \in SUBSET DOMAIN rows,
         A \cap B = {}
  PROVE  /\ Fair(A \cup B) = Fair(A) + Fair(B)
         /\ Prio(A \cup B) = Prio(A) + Prio(B)
         /\ Bill(A \cup B) = Bill(A) + Bill(B)
         /\ Cardinality(A \cup B) = Cardinality(A) + Cardinality(B)
         /\ Bill(Unprotected(A \cup B)) = Bill(Unprotected(A)) + Bill(Unprotected(B))
         /\ Bill(Guarded(A \cup B)) = Bill(Guarded(A)) + Bill(Guarded(B))
         /\ \A c : Cardinality(InClass(A \cup B, c))
                     = Cardinality(InClass(A, c)) + Cardinality(InClass(B, c))
<1> DEFINE U == A \cup B
<1>1. /\ IsFiniteSet(U) /\ A \in SUBSET U /\ U \ A = B
      /\ IsFiniteSet(Unprotected(U)) /\ Unprotected(A) \in SUBSET Unprotected(U)
      /\ Unprotected(U) \ Unprotected(A) = Unprotected(B)
      /\ IsFiniteSet(Guarded(U)) /\ Guarded(A) \in SUBSET Guarded(U)
      /\ Guarded(U) \ Guarded(A) = Guarded(B)
  BY AmountsType, FS_Subset DEF Unprotected, Guarded
<1>2. /\ \A p \in U : Weights[p] \in Int /\ Priorities[p] \in Int /\ Charges[p] \in Int
      /\ \A p \in Unprotected(U) : Charges[p] \in Int
      /\ \A p \in Guarded(U) : Charges[p] \in Int
  BY RowAmounts DEF Unprotected, Guarded
<1>3. /\ SumFunctionOnSet(Weights, U)
           = SumFunctionOnSet(Weights, A) + SumFunctionOnSet(Weights, U \ A)
      /\ SumFunctionOnSet(Priorities, U)
           = SumFunctionOnSet(Priorities, A) + SumFunctionOnSet(Priorities, U \ A)
      /\ SumFunctionOnSet(Charges, U)
           = SumFunctionOnSet(Charges, A) + SumFunctionOnSet(Charges, U \ A)
  <2> HIDE DEF U
  <2> QED BY <1>1, <1>2, SumSplit
<1>4. SumFunctionOnSet(Charges, Unprotected(U))
           = SumFunctionOnSet(Charges, Unprotected(A))
               + SumFunctionOnSet(Charges, Unprotected(U) \ Unprotected(A))
  BY <1>1, <1>2, SumSplit
<1>5. SumFunctionOnSet(Charges, Guarded(U))
           = SumFunctionOnSet(Charges, Guarded(A))
               + SumFunctionOnSet(Charges, Guarded(U) \ Guarded(A))
  BY <1>1, <1>2, SumSplit
<1>6. Cardinality(U) = Cardinality(A) + Cardinality(B)
  <2>1. IsFiniteSet(A) /\ IsFiniteSet(B) /\ Cardinality(A) \in Nat /\ Cardinality(B) \in Nat
        /\ Cardinality(A \cap B) = 0
    BY AmountsType, FS_EmptySet
  <2>2. Cardinality(U) = Cardinality(A) + Cardinality(B) - Cardinality(A \cap B)
    BY <2>1, FS_Union
  <2> QED BY <2>1, <2>2
<1>7. ASSUME NEW c
      PROVE  Cardinality(InClass(U, c)) = Cardinality(InClass(A, c)) + Cardinality(InClass(B, c))
  <2> DEFINE Ac == InClass(A, c)
             Bc == InClass(B, c)
  <2>1. IsFiniteSet(Ac) /\ IsFiniteSet(Bc) /\ Cardinality(Ac) \in Nat /\ Cardinality(Bc) \in Nat
    BY AmountsType
  <2>2. InClass(U, c) = Ac \cup Bc /\ Ac \cap Bc = {} BY DEF InClass
  <2> HIDE DEF Ac, Bc
  <2>3. Cardinality(Ac \cup Bc) = Cardinality(Ac) + Cardinality(Bc) - Cardinality(Ac \cap Bc)
    BY <2>1, FS_Union
  <2>4. Cardinality(Ac \cap Bc) = 0 BY <2>2, FS_EmptySet
  <2>5. Cardinality(InClass(U, c)) = Cardinality(Ac \cup Bc) BY <2>2, Zenon
  <2>6. Cardinality(InClass(U, c)) = Cardinality(Ac) + Cardinality(Bc)
    <3> HIDE DEF U
    <3> QED BY <2>1, <2>3, <2>4, <2>5
  <2> QED BY <2>6 DEF Ac, Bc
<1> QED BY <1>1, <1>3, <1>4, <1>5, <1>6, <1>7 DEF Fair, Prio, Bill

-----------------------------------------------------------------------------

(* Enumerations in a strict order are unique. *)

\* The element at place k has k - 1 elements before it.
LEMMA EnumerationRanks ==
  ASSUME NEW S, IsFiniteSet(S), NEW D, Orders(S, D), NEW q, Enumerates(q, S, D),
         NEW k \in 1..Len(q)
  PROVE  Cardinality(D[q[k]]) = k - 1 /\ q[k] \in S
<1>1. /\ q \in Seq(S) /\ Len(q) \in Nat /\ \A j \in 1..Len(q) : q[j] \in S
      /\ \A a \in S : \E j \in 1..Len(q) : q[j] = a
      /\ \A i, j \in 1..Len(q) : i < j => q[i] \in D[q[j]]
  BY DEF Enumerates
<1>2. /\ D \in [S -> SUBSET S]
      /\ \A a \in S : a \notin D[a]
      /\ \A a, b \in S : a \in D[b] => D[a] \subseteq D[b]
  BY DEF Orders
<1>3. D[q[k]] = {q[j] : j \in 1..(k - 1)}
  <2>1. ASSUME NEW j \in 1..(k - 1) PROVE q[j] \in D[q[k]]
    <3>1. j \in 1..Len(q) /\ j < k BY <1>1
    <3> QED BY <1>1, <3>1
  <2>2. ASSUME NEW a \in D[q[k]] PROVE \E j \in 1..(k - 1) : q[j] = a
    <3>1. q[k] \in S /\ a \in S BY <1>1, <1>2
    <3>2. PICK j \in 1..Len(q) : q[j] = a BY <1>1, <3>1
    <3>3. j # k BY <1>2, <3>1, <3>2
    <3>4. ~(k < j) BY <1>1, <3>2, <1>2, <3>1
    <3>5. j \in 1..(k - 1) BY <1>1, <3>3, <3>4
    <3> QED BY <3>2, <3>5
  <2> QED BY <2>1, <2>2
<1>4. \A i, j \in 1..(k - 1) : q[i] = q[j] => i = j
  <2> SUFFICES ASSUME NEW i \in 1..(k - 1), NEW j \in 1..(k - 1), q[i] = q[j], i < j PROVE FALSE
    OBVIOUS
  <2>1. i \in 1..Len(q) /\ j \in 1..Len(q)
    <3>1. Len(q) \in Nat /\ k \in 1..Len(q) BY <1>1
    <3> QED BY ONLY <3>1, i \in 1..(k - 1), j \in 1..(k - 1)
  <2>2. q[i] \in D[q[j]] /\ q[j] \in S BY <1>1, <2>1
  <2> QED BY <1>2, <2>2
<1>5. Cardinality({q[j] : j \in 1..(k - 1)}) = Cardinality(1..(k - 1))
  <2>1. IsFiniteSet(1..(k - 1)) BY FS_Interval
  <2> QED BY <1>4, <2>1, ImageCount
<1>6. Cardinality(1..(k - 1)) = k - 1 BY <1>1, FS_Interval
<1> QED BY <1>1, <1>3, <1>5, <1>6

\* So a set has one enumeration in a strict order.
LEMMA EnumerationUnique ==
  ASSUME NEW S, IsFiniteSet(S), NEW D, Orders(S, D),
         NEW q, Enumerates(q, S, D), NEW w, Enumerates(w, S, D)
  PROVE  q = w
<1>1. q \in Seq(S) /\ w \in Seq(S) /\ Len(q) = Len(w) BY DEF Enumerates
<1>2. ASSUME NEW k \in 1..Len(q) PROVE q[k] = w[k]
  <2>1. Cardinality(D[q[k]]) = k - 1 /\ q[k] \in S BY EnumerationRanks
  <2>2. Cardinality(D[w[k]]) = k - 1 /\ w[k] \in S BY <1>1, EnumerationRanks
  <2>3. Ranked(S, D) BY Ranking
  <2>4. \A a, b \in S : a \in D[b] => Cardinality(D[a]) < Cardinality(D[b])
    BY <2>3 DEF Ranked
  <2>5. q[k] = w[k] \/ q[k] \in D[w[k]] \/ w[k] \in D[q[k]] BY <2>1, <2>2 DEF Orders
  <2>6. ~(k - 1 < k - 1) OBVIOUS
  <2> QED BY <2>1, <2>2, <2>4, <2>5, <2>6
<1> QED BY <1>1, <1>2, SeqEqual

(* Increasing integers that list S are its sorted sequence. *)
LEMMA SortedUnique ==
  ASSUME NEW S, IsFiniteSet(S), S \subseteq Int,
         NEW q \in Seq(S), Len(q) = Cardinality(S),
         \A a \in S : \E k \in 1..Len(q) : q[k] = a,
         \A j, k \in 1..Len(q) : j < k => q[j] < q[k]
  PROVE  q = Sorted(S, <)
<1>1. \A k \in 1..Len(q) : q[k] \in S OBVIOUS
<1>2. Enumerates(q, S, Smaller(S)) BY <1>1 DEF Enumerates, Smaller
<1> QED BY <1>2, SmallerOrders, EnumerationUnique

(* The least element comes first, and the others follow. *)
LEMMA SortedLeast ==
  ASSUME NEW S, IsFiniteSet(S), S \subseteq Int, NEW n \in S, \A a \in S \ {n} : n < a
  PROVE  Sorted(S, <) = <<n>> \o Sorted(S \ {n}, <)
<1> DEFINE T == S \ {n}
           w == Sorted(T, <)
           q == <<n>> \o w
<1>1. IsFiniteSet(T) /\ T \subseteq Int /\ n \in Int BY FS_Subset
<1>2. Cardinality(S) = Cardinality(T) + 1 /\ Cardinality(T) \in Nat
  BY FS_RemoveElement, FS_CardinalityType, <1>1
<1>3. /\ w \in Seq(T) /\ Len(w) = Cardinality(T)
      /\ \A a \in T : \E k \in 1..Cardinality(T) : w[k] = a
      /\ \A j, k \in 1..Cardinality(T) : j < k => w[j] < w[k]
  <2> HIDE DEF T
  <2> QED BY <1>1, SortedIntegers
<1> HIDE DEF w
<1>4. \A k \in 1..Len(w) : w[k] \in T
  <2> HIDE DEF T
  <2> QED BY <1>3
<1>5. w \in Seq(S) BY <1>3
<1>6. /\ q \in Seq(S) /\ Len(q) = Len(w) + 1 /\ q[1] = n
      /\ \A k \in 2..(Len(w) + 1) : q[k] = w[k - 1]
  BY <1>5
<1> HIDE DEF q
<1>7. Len(q) = Cardinality(S) /\ Len(w) \in Nat BY <1>2, <1>3, <1>6
<1>8. \A a \in S : \E k \in 1..Len(q) : q[k] = a
  <2> SUFFICES ASSUME NEW a \in S PROVE \E k \in 1..Len(q) : q[k] = a OBVIOUS
  <2>1. CASE a = n BY <1>6, <1>7, <2>1
  <2>2. CASE a \in T
    <3>1. PICK k \in 1..Len(w) : w[k] = a BY <1>3, <2>2
    <3>2. k + 1 \in 2..(Len(w) + 1) /\ k + 1 \in 1..Len(q) /\ (k + 1) - 1 = k BY <1>6, <1>7
    <3> QED BY <1>6, <3>1, <3>2
  <2> QED BY <2>1, <2>2
<1>9. \A j, k \in 1..Len(q) : j < k => q[j] < q[k]
  <2> SUFFICES ASSUME NEW j \in 1..Len(q), NEW k \in 1..Len(q), j < k PROVE q[j] < q[k]
    OBVIOUS
  <2>1. k \in 2..(Len(w) + 1) /\ k - 1 \in 1..Len(w) BY <1>6, <1>7
  <2>2. q[k] = w[k - 1] /\ w[k - 1] \in T BY <1>4, <1>6, <2>1
  <2>3. CASE j = 1 BY <1>6, <2>2, <2>3
  <2>4. CASE j > 1
    <3>1. j \in 2..(Len(w) + 1) /\ j - 1 \in 1..Len(w) /\ j - 1 < k - 1 BY <1>6, <1>7, <2>4
    <3>2. q[j] = w[j - 1] BY <1>6, <3>1
    <3> QED BY <1>3, <2>1, <2>2, <3>1, <3>2
  <2> QED BY <2>3, <2>4
<1>10. q = Sorted(S, <) BY <1>6, <1>7, <1>8, <1>9, SortedUnique
<1> QED BY <1>10 DEF q, w

-----------------------------------------------------------------------------

(* The completions of a partial wave. *)

(* The bitset index excludes the later rows that conflict, and no others.   *)
LEMMA BlocksConflict ==
  ASSUME NEW p \in DOMAIN rows, NEW q \in (p + 1)..Len(rows)
  PROVE  q \in Blocks(p) <=> Conflict(rows[p], rows[q])
<1> DEFINE r == rows[p]
           t == rows[q]
<1>1. q \in Blocks(p) <=>
         \/ Exclusive(r) \/ Exclusive(t)
         \/ Identity(r) = Identity(t)
         \/ /\ SameRoute(r, t)
            /\ \/ t.class \in Certification
               \/ r.class \in Certification
               \/ r.class \in Discovery /\ t.class = r.class
         \/ r.class = "verification" /\ t.class = "integration"
         \/ r.class = "integration" /\ t.class = "verification"
         \/ /\ SameTarget(r, t)
            /\ \/ /\ r.class \in Certification
                  /\ t.class \in Certification \union Discovery
               \/ r.class \in Discovery /\ t.class \in Certification
  BY DEF Blocks
<1> HIDE DEF r, t
<1>2. /\ {r.class, t.class} \intersect Certification # {}
           <=> (t.class \in Certification \/ r.class \in Certification)
      /\ {r.class, t.class} = Certification
           <=> \/ r.class = "verification" /\ t.class = "integration"
               \/ r.class = "integration" /\ t.class = "verification"
      /\ {r.class, t.class} \subseteq Certification
           <=> r.class \in Certification /\ t.class \in Certification
  BY DEF Certification
<1>3. Conflict(r, t) <=>
         \/ Exclusive(r) \/ Exclusive(t)
         \/ Identity(r) = Identity(t)
         \/ /\ SameRoute(r, t)
            /\ \/ t.class \in Certification
               \/ r.class \in Certification
               \/ r.class \in Discovery /\ t.class = r.class
         \/ r.class = "verification" /\ t.class = "integration"
         \/ r.class = "integration" /\ t.class = "verification"
         \/ /\ SameTarget(r, t)
            /\ \/ /\ r.class \in Certification
                  /\ t.class \in Certification \union Discovery
               \/ r.class \in Discovery /\ t.class \in Certification
  BY <1>2 DEF Conflict, Structural, Ownership
<1> QED BY <1>1, <1>3 DEF r, t

\* The pools after one more charge, from either side.
LEMMA PoolsAfter ==
  ASSUME NEW SP, NEW SF, NEW U, NEW G, NEW p, NEW f, PoolsExact(SP, SF, U, G, p, f),
         NEW C \in Nat
  PROVE  /\ f - (C - Least(C, p)) = SF - U - NonNegative((C + G) - SP)
         /\ f - (C - 0) = SF - (C + U) - NonNegative(G - SP)
<1>1. CASE C < p BY <1>1 DEF Least, NonNegative, PoolsExact
<1>2. CASE ~(C < p) BY <1>2 DEF Least, NonNegative, PoolsExact
<1> QED BY <1>1, <1>2

\* And the others can still be paid after it.
LEMMA PoolsServe ==
  ASSUME NEW U, NEW G, NEW C, NEW p, NEW f, U \in Nat, G \in Nat, C \in Nat,
         PoolsPay(U, C + G, p, f)
  PROVE  /\ C <= p + f
         /\ U + NonNegative(G - (p - Least(C, p))) <= f - (C - Least(C, p))
  BY DEF NonNegative, Least, PoolsPay

\* What is known of a partial wave that is ready.
LEMMA ReadyType ==
  ASSUME Placed, NEW s, NEW n, Ready(s, n)
  PROVE  /\ ProblemType
         /\ s.sel \in Seq(DOMAIN rows) /\ Len(s.sel) \in Nat
         /\ Range(s.sel) \in SUBSET DOMAIN rows
         /\ Cardinality(Range(s.sel)) = Len(s.sel)
         /\ s.counts \in [Capacities -> Nat]
         /\ s.prot \in Nat /\ s.free \in Nat /\ s.fair \in Nat /\ s.prio \in Nat
         /\ s.prot + s.free + Bill(Range(s.sel)) = StartPools.prot + StartPools.free
         /\ n \in Nat \ {0} /\ n <= Len(rows) + 1 /\ Len(rows) \in Nat
         /\ (n..Len(rows)) \in SUBSET DOMAIN rows
         /\ wave.caps \in [Capacities -> Nat] /\ MaxCompanions \in Nat
         /\ s.ids \in Seq(Int) /\ Len(s.ids) = Len(s.sel)
<1>1. ProblemType BY ProblemTyped
<1>2. /\ s.sel \in Seq(DOMAIN rows) /\ s.fair \in Nat /\ s.prio \in Nat
      /\ Cardinality(Range(s.sel)) = Len(s.sel)
      /\ s.counts \in [Capacities -> Nat]
      /\ s.prot \in Nat /\ s.free \in Nat
      /\ s.prot + s.free + Bill(Range(s.sel)) = StartPools.prot + StartPools.free
  BY DEF Ready, Sound, Shaped, Counted, Paid, Bill
<1>3. Range(s.sel) \subseteq DOMAIN rows /\ Len(s.sel) \in Nat BY <1>2, RangeOf
<1>4. Len(rows) \in Nat /\ DOMAIN rows = 1..Len(rows) /\ n \in 1..(Len(rows) + 1)
      /\ wave.caps \in [Capacities -> Nat] /\ MaxCompanions \in Nat
  BY <1>1 DEF Ready, ProblemType
<1>5. s.ids \in Seq(Int) /\ Len(s.ids) = Len(s.sel) BY ScoreType DEF Ready
<1> QED BY <1>1, <1>2, <1>3, <1>4, <1>5

(* The primary action alone has decided nothing. *)
LEMMA StartReady == ASSUME Placed PROVE Ready(Start, 1)
<1>1. ProblemType /\ Sound(Start) BY ProblemTyped, StartSound
<1>2. Range(Start.sel) = {} /\ Start.sel = <<>> BY DEF Start, Range
<1>3. Fair({}) = 0 /\ Prio({}) = 0 /\ Bill(Unprotected({})) = 0 /\ Bill(Guarded({})) = 0
  BY AmountsEmpty
<1>4. StartPools.free \in Nat /\ StartPools.prot \in Nat /\ Len(rows) \in Nat
  BY <1>1 DEF ProblemType
<1>5. Start.fair = 0 /\ Start.prio = 0 /\ Start.blocks = {} /\ Start.free = StartPools.free
  BY DEF Start
<1>6. Exact(Start) BY <1>2, <1>4, <1>3, <1>5 DEF Rising, NonNegative, Exact
<1> QED BY <1>1, <1>2, <1>4, <1>6 DEF Ready

(* Admitting the next row keeps a partial wave exact.                       *)
LEMMA IncludeReady ==
  ASSUME Placed, NEW s, NEW n, Ready(s, n), n <= Len(rows), Admits(s, n)
  PROVE  Ready(Include(s, n), n + 1)
<1> DEFINE t == Include(s, n)
           R == Range(s.sel)
           r == rows[n]
           v == IF Protected(r) THEN Least(Charge(r), s.prot) ELSE 0
<1>1. /\ ProblemType
      /\ s.sel \in Seq(DOMAIN rows) /\ Len(s.sel) \in Nat
      /\ R \in SUBSET DOMAIN rows
      /\ s.prot \in Nat /\ s.free \in Nat /\ s.fair \in Nat /\ s.prio \in Nat
      /\ s.prot + s.free + Bill(R) = StartPools.prot + StartPools.free
      /\ n \in Nat \ {0} /\ n <= Len(rows) + 1 /\ Len(rows) \in Nat
  BY ReadyType
<1>2. n \in DOMAIN rows /\ n \notin R /\ \A p \in R : p < n BY <1>1 DEF ProblemType, Ready
<1>3. Sound(t) BY <1>2, IncludeSound DEF Ready
<1>4. Range(t.sel) = R \cup {n} /\ t.sel = Append(s.sel, n) /\ Len(t.sel) = Len(s.sel) + 1
  BY <1>2, IncludeShape DEF Ready, Include
<1>5. /\ t.fair = s.fair + Weight(r) /\ t.prio = s.prio + Priority(r)
      /\ t.blocks = s.blocks \cup Blocks(n) /\ t.free = s.free - (Charge(r) - v)
  BY DEF Include
<1>6. LET V == R \cup {n} IN
      /\ Fair(V) = Weight(r) + Fair(R)
      /\ Prio(V) = Priority(r) + Prio(R)
      /\ Bill(Unprotected(V)) =
           (IF Protected(r) THEN 0 ELSE Charge(r)) + Bill(Unprotected(R))
      /\ Bill(Guarded(V)) =
           (IF Protected(r) THEN Charge(r) ELSE 0) + Bill(Guarded(R))
  <2> DEFINE V == R \cup {n}
  <2>1. V \in SUBSET DOMAIN rows /\ n \in V /\ V \ {n} = R BY <1>1, <1>2
  <2> HIDE DEF V
  <2>2. /\ Fair(V) = Weight(rows[n]) + Fair(V \ {n})
        /\ Prio(V) = Priority(rows[n]) + Prio(V \ {n})
        /\ Bill(Unprotected(V)) =
             (IF Protected(rows[n]) THEN 0 ELSE Charge(rows[n])) + Bill(Unprotected(V \ {n}))
        /\ Bill(Guarded(V)) =
             (IF Protected(rows[n]) THEN Charge(rows[n]) ELSE 0) + Bill(Guarded(V \ {n}))
    BY <1>1, <2>1, AmountsRemove
  <2>3. /\ Fair(V) = Weight(rows[n]) + Fair(R)
        /\ Prio(V) = Priority(rows[n]) + Prio(R)
        /\ Bill(Unprotected(V)) =
             (IF Protected(rows[n]) THEN 0 ELSE Charge(rows[n])) + Bill(Unprotected(R))
        /\ Bill(Guarded(V)) =
             (IF Protected(rows[n]) THEN Charge(rows[n]) ELSE 0) + Bill(Guarded(R))
    BY <2>1, <2>2, Zenon
  <2> QED BY <2>3 DEF V
<1>7. /\ s.fair = Fair(R) /\ s.prio = Prio(R)
      /\ s.blocks = UNION {Blocks(p) : p \in R}
      /\ s.free = StartPools.free - Bill(Unprotected(R))
                    - NonNegative(Bill(Guarded(R)) - StartPools.prot)
      /\ Rising(s.sel)
  BY DEF Ready, Exact
<1>8. /\ Fair(R) \in Nat /\ Prio(R) \in Nat /\ Weight(r) \in Nat /\ Priority(r) \in Nat
      /\ Charge(r) \in Nat /\ Protected(r) \in BOOLEAN
      /\ Bill(Unprotected(R)) \in Nat /\ Bill(Guarded(R)) \in Nat
      /\ Bill(R) = Bill(Unprotected(R)) + Bill(Guarded(R))
      /\ StartPools.prot \in Nat /\ StartPools.free \in Nat
  BY <1>1, <1>2, AmountsType, RowType DEF ProblemType
<1>9. t.free = StartPools.free - Bill(Unprotected(R \cup {n}))
                - NonNegative(Bill(Guarded(R \cup {n})) - StartPools.prot)
  <2> DEFINE U == Bill(Unprotected(R))
             G == Bill(Guarded(R))
             C == Charge(r)
  <2>1. /\ s.prot + s.free + (U + G) = StartPools.prot + StartPools.free
        /\ s.free = StartPools.free - U - NonNegative(G - StartPools.prot)
        /\ StartPools.prot \in Nat /\ StartPools.free \in Nat
        /\ U \in Nat /\ G \in Nat /\ C \in Nat /\ s.prot \in Nat /\ s.free \in Nat
    BY <1>1, <1>7, <1>8
  <2>2. CASE Protected(r)
    <3>1. v = Least(C, s.prot) BY <2>2
    <3>2. Bill(Unprotected(R \cup {n})) = U /\ Bill(Guarded(R \cup {n})) = C + G
      BY <1>6, <2>1, <2>2
    <3>3. s.free - (C - Least(C, s.prot))
            = StartPools.free - U - NonNegative((C + G) - StartPools.prot)
      <4>1. PoolsExact(StartPools.prot, StartPools.free, U, G, s.prot, s.free) /\ C \in Nat
        BY <2>1 DEF PoolsExact
      <4> HIDE DEF U, G, C
      <4> QED BY ONLY <4>1, PoolsAfter
    <3> QED BY <1>5, <3>1, <3>2, <3>3
  <2>3. CASE ~Protected(r)
    <3>1. v = 0 BY <2>3
    <3>2. Bill(Unprotected(R \cup {n})) = C + U /\ Bill(Guarded(R \cup {n})) = G
      BY <1>6, <2>1, <2>3
    <3>3. s.free - (C - 0)
            = StartPools.free - (C + U) - NonNegative(G - StartPools.prot)
      <4>1. PoolsExact(StartPools.prot, StartPools.free, U, G, s.prot, s.free) /\ C \in Nat
        BY <2>1 DEF PoolsExact
      <4> HIDE DEF U, G, C
      <4> QED BY ONLY <4>1, PoolsAfter
    <3>4. t.free = s.free - (C - 0) BY <1>5, <3>1
    <3> HIDE DEF U, G, C, v, t
    <3> QED BY <3>2, <3>3, <3>4
  <2> QED BY <2>2, <2>3
<1>10. t.blocks = UNION {Blocks(p) : p \in R \cup {n}} BY <1>5, <1>7
<1>11. Rising(t.sel)
  <2> SUFFICES ASSUME NEW j \in 1..Len(t.sel), NEW k \in 1..Len(t.sel), j < k
               PROVE  t.sel[j] < t.sel[k]
    BY DEF Rising
  <2> HIDE DEF t
  <2>1. \A i \in 1..Len(s.sel) : t.sel[i] = s.sel[i] /\ s.sel[i] \in R
    <3>1. \A i \in 1..Len(s.sel) : s.sel[i] \in R
      <4>1. Range(s.sel) = {s.sel[k2] : k2 \in 1..Len(s.sel)} BY <1>1, RangeOf
      <4> QED BY <4>1
    <3> QED BY <1>1, <1>2, <1>4, <3>1
  <2>2. t.sel[Len(s.sel) + 1] = n BY <1>1, <1>2, <1>4
  <2>3. j \in 1..Len(s.sel) BY <1>1, <1>4
  <2>4. CASE k \in 1..Len(s.sel) BY <1>7, <2>1, <2>3, <2>4 DEF Rising
  <2>5. CASE k = Len(s.sel) + 1 BY <1>2, <2>1, <2>2, <2>3, <2>5
  <2>6. k \in 1..Len(s.sel) \/ k = Len(s.sel) + 1
    <3>1. Len(t.sel) = Len(s.sel) + 1 /\ Len(s.sel) \in Nat BY <1>1, <1>4
    <3> QED BY <3>1
  <2> QED BY <2>4, <2>5, <2>6
<1>12. Exact(t)
  <2>1. t.fair = Fair(R \cup {n}) /\ t.prio = Prio(R \cup {n}) BY <1>5, <1>6, <1>7, <1>8
  <2> HIDE DEF t
  <2> QED BY <1>4, <1>9, <1>10, <1>11, <2>1 DEF Exact
<1>13. n + 1 \in 1..(Len(rows) + 1) /\ \A p \in R \cup {n} : p < n + 1
  <2>1. \A p \in R : p \in Int BY <1>1 DEF ProblemType
  <2> QED BY <1>1, <1>2, <2>1
<1> HIDE DEF t
<1>14. Ready(t, n + 1) BY <1>3, <1>4, <1>12, <1>13 DEF Ready
<1> QED BY <1>14 DEF t

(* Leaving the next row out changes nothing. *)
LEMMA SkipReady ==
  ASSUME Placed, NEW s, NEW n, Ready(s, n), n <= Len(rows)
  PROVE  Ready(s, n + 1)
<1>1. n \in Nat \ {0} /\ Len(rows) \in Nat /\ Range(s.sel) \in SUBSET DOMAIN rows /\ ProblemType
  BY ReadyType
<1>2. \A p \in Range(s.sel) : p \in Int /\ p < n BY <1>1 DEF Ready, ProblemType
<1>3. \A p \in Range(s.sel) : p < n + 1 BY <1>1, <1>2
<1> QED BY <1>1, <1>3 DEF Ready

-----------------------------------------------------------------------------

(* How completions follow the decision of the next row. *)

\* The identifiers of a set of rows, one for each row.
LEMMA IdentsType ==
  ASSUME ProblemType, NEW R \in SUBSET DOMAIN rows
  PROVE  /\ Sorted(R, <) \in Seq(R) /\ Len(Sorted(R, <)) = Cardinality(R)
         /\ Idents(R) \in Seq(Int) /\ Len(Idents(R)) = Cardinality(R)
         /\ \A k \in 1..Cardinality(R) :
              Idents(R)[k] = rows[Sorted(R, <)[k]].id /\ Sorted(R, <)[k] \in R
<1>1. IsFiniteSet(R) /\ Cardinality(R) \in Nat /\ R \subseteq Int
  BY AmountsType DEF ProblemType
<1>2. Sorted(R, <) \in Seq(R) /\ Len(Sorted(R, <)) = Cardinality(R) BY <1>1, SortedIntegers
<1> DEFINE q == Sorted(R, <)
<1>3. \A k \in 1..Cardinality(R) : q[k] \in R
  <2>1. q \in Seq(R) /\ Len(q) = Cardinality(R) BY <1>2
  <2> HIDE DEF q
  <2> QED BY <2>1, ElementOfSeq
<1>4. \A k \in 1..Cardinality(R) : rows[q[k]].id \in Int
  <2>1. \A p \in R : rows[p].id \in Int BY RowType DEF ProblemType
  <2> HIDE DEF q
  <2> QED BY <1>3, <2>1
<1>5. Idents(R) = [k \in 1..Cardinality(R) |-> rows[q[k]].id] BY DEF Idents
<1>6. Idents(R) \in Seq(Int) /\ Len(Idents(R)) = Cardinality(R)
      /\ \A k \in 1..Cardinality(R) : Idents(R)[k] = rows[q[k]].id
  <2> HIDE DEF q
  <2> QED BY <1>1, <1>4, <1>5
<1> QED BY <1>2, <1>3, <1>6

(* The identifier of the first row comes first. *)
LEMMA IdentsLeast ==
  ASSUME ProblemType, NEW R \in SUBSET DOMAIN rows, NEW n \in R, \A a \in R \ {n} : n < a
  PROVE  Idents(R) = <<rows[n].id>> \o Idents(R \ {n})
<1> DEFINE T == R \ {n}
           x == Idents(T)
           y == Idents(R)
           q == Sorted(T, <)
           w == Sorted(R, <)
           m == Cardinality(T)
           z == <<rows[n].id>> \o x
<1>1. IsFiniteSet(R) /\ R \subseteq Int /\ T \in SUBSET DOMAIN rows
  BY AmountsType DEF ProblemType
<1>2. w = <<n>> \o q BY <1>1, SortedLeast
<1>3. /\ q \in Seq(T) /\ Len(q) = m
      /\ x \in Seq(Int) /\ Len(x) = m
      /\ \A k \in 1..m : x[k] = rows[q[k]].id
  <2> HIDE DEF T
  <2> QED BY <1>1, IdentsType
<1>4. /\ w \in Seq(R) /\ Len(w) = Cardinality(R)
      /\ y \in Seq(Int) /\ Len(y) = Cardinality(R)
      /\ \A k \in 1..Cardinality(R) : y[k] = rows[w[k]].id
  BY IdentsType
<1>5. m \in Nat /\ Cardinality(R) = m + 1
  <2>1. Cardinality(R) = 1 + m BY AmountsRemove
  <2>2. m \in Nat BY <1>1, AmountsType
  <2> HIDE DEF m
  <2> QED BY <2>1, <2>2
<1>6. rows[n].id \in Int BY RowType DEF ProblemType
<1> HIDE DEF T, x, y, q, w, m
<1>7. q \in Seq(Int) BY <1>1, <1>3 DEF T
<1>8. w[1] = n /\ \A k \in 2..(m + 1) : w[k] = q[k - 1] BY <1>1, <1>2, <1>3, <1>5, <1>7
<1>9. /\ z \in Seq(Int) /\ Len(z) = m + 1 /\ z[1] = rows[n].id
      /\ \A k \in 2..(m + 1) : z[k] = x[k - 1]
  BY <1>3, <1>5, <1>6
<1> HIDE DEF z
<1>10. ASSUME NEW k \in 1..(m + 1) PROVE y[k] = z[k]
  <2>1. y[k] = rows[w[k]].id BY <1>4, <1>5
  <2>2. CASE k = 1 BY <1>8, <1>9, <2>1, <2>2
  <2>3. CASE k # 1 BY <1>5, <2>3, <1>3, <1>8, <1>9, <2>1
  <2> QED BY <2>2, <2>3
<1>11. y = z BY <1>4, <1>5, <1>9, <1>10, SeqEqual
<1> QED BY <1>11 DEF x, y, z, T

\* What is known of a completion.
LEMMA CompletionType ==
  ASSUME Placed, NEW s, NEW n, Ready(s, n), NEW R, Completion(R, s, n)
  PROVE  /\ R \in SUBSET DOMAIN rows /\ IsFiniteSet(R) /\ Cardinality(R) \in Nat
         /\ R \subseteq Int /\ \A p \in R : p >= n /\ p \in Nat
         /\ Fair(R) \in Nat /\ Prio(R) \in Nat /\ Bill(R) \in Nat
         /\ Bill(Unprotected(R)) \in Nat /\ Bill(Guarded(R)) \in Nat
         /\ Total(s, R) \in Tuples(4)
         /\ Idents(R) \in Seq(Int) /\ Len(Idents(R)) = Cardinality(R)
         /\ Listing(s, R) \in Seq(Int)
<1>1. /\ ProblemType /\ n \in Nat \ {0} /\ Len(rows) \in Nat
      /\ (n..Len(rows)) \in SUBSET DOMAIN rows
      /\ s.fair \in Nat /\ s.prio \in Nat /\ s.prot \in Nat /\ s.free \in Nat
      /\ Len(s.sel) \in Nat /\ s.ids \in Seq(Int)
  BY ReadyType
<1>2. R \subseteq n..Len(rows) BY DEF Completion
<1>3. R \in SUBSET DOMAIN rows /\ R \subseteq Int /\ \A p \in R : p >= n /\ p \in Nat
  BY <1>1, <1>2
<1>4. /\ IsFiniteSet(R) /\ Cardinality(R) \in Nat
      /\ Fair(R) \in Nat /\ Prio(R) \in Nat /\ Bill(R) \in Nat
      /\ Bill(Unprotected(R)) \in Nat /\ Bill(Guarded(R)) \in Nat
  BY <1>1, <1>3, AmountsType
<1>5. Total(s, R) \in Tuples(4)
  <2> DEFINE a == s.fair + Fair(R)
             b == s.prio + Prio(R)
             c == Len(s.sel) + Cardinality(R)
             d == s.prot + s.free - Bill(R)
  <2>1. a \in Int BY <1>1, <1>4
  <2>2. b \in Int BY <1>1, <1>4
  <2>3. c \in Int BY <1>1, <1>4
  <2>4. d \in Int BY <1>1, <1>4
  <2> HIDE DEF a, b, c, d
  <2>5. <<a, b, c, d>> \in Seq(Int) /\ Len(<<a, b, c, d>>) = 4 BY <2>1, <2>2, <2>3, <2>4
  <2> QED BY <2>5 DEF Tuples, Total, a, b, c, d
<1>6. Idents(R) \in Seq(Int) /\ Len(Idents(R)) = Cardinality(R) BY <1>1, <1>3, IdentsType
<1>7. Listing(s, R) \in Seq(Int) BY <1>1, <1>6 DEF Listing
<1> QED BY <1>3, <1>4, <1>5, <1>6, <1>7

(* A completion without the next row completes what leaves it out.          *)
LEMMA CompletionSkip ==
  ASSUME Placed, NEW s, NEW n, Ready(s, n), NEW R, Completion(R, s, n), n \notin R
  PROVE  Completion(R, s, n + 1)
<1>1. n \in Nat /\ Len(rows) \in Nat BY ReadyType
<1>2. R \subseteq n..Len(rows) /\ R \cap Blocked(s, n) = {} BY DEF Completion
<1>3. R \subseteq (n + 1)..Len(rows) BY <1>1, <1>2
<1>4. R \cap Blocked(s, n + 1) = {} BY <1>2, <1>1, <1>3 DEF Blocked
<1> QED BY <1>3, <1>4 DEF Completion

(* The next row, when a completion holds it, can be admitted.               *)
LEMMA CompletionAdmits ==
  ASSUME Placed, NEW s, NEW n, Ready(s, n), NEW R, Completion(R, s, n), n \in R
  PROVE  Admits(s, n) /\ n <= Len(rows) /\ n \in DOMAIN rows
<1> DEFINE r == rows[n]
           T == R \ {n}
<1>1. /\ ProblemType /\ n \in Nat \ {0} /\ Len(rows) \in Nat
      /\ s.prot \in Nat /\ s.free \in Nat /\ Len(s.sel) \in Nat
      /\ s.counts \in [Capacities -> Nat] /\ MaxCompanions \in Nat
      /\ wave.caps \in [Capacities -> Nat]
      /\ Range(s.sel) \in SUBSET DOMAIN rows
  BY ReadyType
<1>2. R \in SUBSET DOMAIN rows /\ n \in DOMAIN rows /\ n <= Len(rows)
  BY <1>1, CompletionType DEF ProblemType
<1>3. /\ IsRow(r) /\ Searchable(r) /\ Charge(r) \in Nat /\ CapacityClass(r) \in Capacities
  BY <1>1, <1>2, RowType DEF ProblemType
<1>4. /\ T \in SUBSET DOMAIN rows
      /\ Cardinality(R) = 1 + Cardinality(T)
      /\ Bill(Unprotected(R)) =
           (IF Protected(r) THEN 0 ELSE Charge(r)) + Bill(Unprotected(T))
      /\ Bill(Guarded(R)) =
           (IF Protected(r) THEN Charge(r) ELSE 0) + Bill(Guarded(T))
      /\ Cardinality(InClass(R, CapacityClass(r))) =
           1 + Cardinality(InClass(T, CapacityClass(r)))
  BY <1>1, <1>2, AmountsRemove
<1>5. /\ Cardinality(T) \in Nat /\ Bill(Unprotected(T)) \in Nat /\ Bill(Guarded(T)) \in Nat
      /\ Cardinality(InClass(T, CapacityClass(r))) \in Nat
  BY <1>1, <1>4, AmountsType
<1>6. ASSUME NEW q \in Range(s.sel) PROVE ~Conflict(r, rows[q])
  <2>1. q \in DOMAIN rows /\ q < n /\ q \in Nat BY <1>1, <1>6 DEF Ready, ProblemType
  <2>2. n \notin Blocks(q) BY <1>1, <1>6 DEF Completion, Ready, Exact, Blocked
  <2>3. n \in (q + 1)..Len(rows) BY <1>1, <1>2, <2>1
  <2>4. ~Conflict(rows[q], r) BY <2>1, <2>2, <2>3, BlocksConflict
  <2> QED BY <2>4, ConflictSymmetric
<1>7. Len(s.sel) < MaxCompanions BY <1>1, <1>4, <1>5 DEF Completion
<1>8. s.counts[CapacityClass(r)] < wave.caps[CapacityClass(r)]
  <2>1. s.counts[CapacityClass(r)] + Cardinality(InClass(R, CapacityClass(r)))
          <= wave.caps[CapacityClass(r)]
    BY DEF Completion
  <2>2. s.counts[CapacityClass(r)] \in Nat /\ wave.caps[CapacityClass(r)] \in Nat
    BY <1>1, <1>3
  <2> HIDE DEF r, T
  <2> QED BY <1>4, <1>5, <2>1, <2>2
<1>9. ASSUME wave.enforced, r.request > 0
      PROVE  r.request >= MinGrant /\ Available(r, s) >= MinGrant
  <2>1. r.request >= MinGrant BY <1>3, <1>9 DEF Searchable, IsRow
  <2>2. Charge(r) = MinGrant /\ MinGrant \in Nat BY <1>9, PositiveSizes DEF Charge
  <2>3. Bill(Unprotected(R)) + NonNegative(Bill(Guarded(R)) - s.prot) <= s.free
    BY DEF Completion
  <2>4. CASE Protected(r)
    <3>1. Bill(Guarded(R)) >= MinGrant /\ Bill(Guarded(R)) \in Nat
          /\ Bill(Unprotected(R)) \in Nat
      BY <1>4, <1>5, <2>2, <2>4
    <3>2. s.prot + s.free >= MinGrant BY <1>1, <2>2, <2>3, <3>1 DEF NonNegative
    <3> QED BY <2>1, <2>4, <3>2 DEF Available
  <2>5. CASE ~Protected(r)
    <3>1. Bill(Guarded(R)) \in Nat /\ Bill(Unprotected(R)) >= MinGrant
          /\ Bill(Unprotected(R)) \in Nat
      BY <1>4, <1>5, <2>2, <2>5
    <3>2. s.free >= MinGrant BY <1>1, <2>2, <2>3, <3>1 DEF NonNegative
    <3> QED BY <2>1, <2>5, <3>2 DEF Available
  <2> QED BY <2>4, <2>5
<1> QED BY <1>2, <1>6, <1>7, <1>8, <1>9 DEF Admits

(* What is left of the completion then completes the larger wave, to the    *)
(* same worth and the same identifiers.                                     *)
LEMMA CompletionTake ==
  ASSUME Placed, NEW s, NEW n, Ready(s, n), NEW R, Completion(R, s, n), n \in R
  PROVE  /\ Completion(R \ {n}, Include(s, n), n + 1)
         /\ Total(Include(s, n), R \ {n}) = Total(s, R)
         /\ Listing(Include(s, n), R \ {n}) = Listing(s, R)
<1> DEFINE t == Include(s, n)
           r == rows[n]
           T == R \ {n}
           v == IF Protected(r) THEN Least(Charge(r), s.prot) ELSE 0
<1>1. /\ ProblemType /\ n \in Nat \ {0} /\ Len(rows) \in Nat
      /\ s.prot \in Nat /\ s.free \in Nat /\ Len(s.sel) \in Nat
      /\ s.fair \in Nat /\ s.prio \in Nat
      /\ s.counts \in [Capacities -> Nat]
      /\ s.ids \in Seq(Int)
  BY ReadyType
<1>2. /\ R \in SUBSET DOMAIN rows /\ n \in DOMAIN rows /\ IsFiniteSet(R) /\ R \subseteq Int
      /\ \A p \in R : p >= n /\ p \in Nat
  BY CompletionType
<1>3. IsRow(r) /\ Charge(r) \in Nat /\ CapacityClass(r) \in Capacities
      /\ Weight(r) \in Nat /\ Priority(r) \in Nat /\ Protected(r) \in BOOLEAN /\ r.id \in Int
  BY <1>1, <1>2, RowType DEF ProblemType
<1>4. /\ T \in SUBSET DOMAIN rows
      /\ Fair(R) = Weight(r) + Fair(T)
      /\ Prio(R) = Priority(r) + Prio(T)
      /\ Bill(R) = Charge(r) + Bill(T)
      /\ Cardinality(R) = 1 + Cardinality(T)
      /\ Bill(Unprotected(R)) =
           (IF Protected(r) THEN 0 ELSE Charge(r)) + Bill(Unprotected(T))
      /\ Bill(Guarded(R)) =
           (IF Protected(r) THEN Charge(r) ELSE 0) + Bill(Guarded(T))
      /\ \A c : Cardinality(InClass(R, c)) =
           (IF c = CapacityClass(r) THEN 1 ELSE 0) + Cardinality(InClass(T, c))
  BY <1>1, <1>2, AmountsRemove
<1>5. /\ Cardinality(T) \in Nat /\ Bill(Unprotected(T)) \in Nat /\ Bill(Guarded(T)) \in Nat
      /\ Fair(T) \in Nat /\ Prio(T) \in Nat /\ Bill(T) \in Nat
      /\ \A c : Cardinality(InClass(T, c)) \in Nat
  BY <1>1, <1>4, AmountsType
<1>6. /\ t.sel = Append(s.sel, n) /\ t.ids = Append(s.ids, r.id)
      /\ t.fair = s.fair + Weight(r) /\ t.prio = s.prio + Priority(r)
      /\ t.blocks = s.blocks \cup Blocks(n)
      /\ t.prot = s.prot - v /\ t.free = s.free - (Charge(r) - v)
      /\ t.counts = [s.counts EXCEPT ![CapacityClass(r)] = @ + 1]
  BY DEF Include
<1>7. Len(t.sel) = Len(s.sel) + 1 BY <1>1, <1>2, IncludeShape DEF Ready
<1>8. v \in Nat BY <1>1, <1>3 DEF Least
<1> HIDE DEF t, T, v
<1>9. Completion(T, t, n + 1)
  <2>1. T \subseteq (n + 1)..Len(rows)
    <3>1. R \subseteq n..Len(rows) /\ n \in Nat /\ Len(rows) \in Nat
      BY <1>1 DEF Completion, ProblemType
    <3> QED BY <3>1 DEF T
  <2>2. T \cap Blocked(t, n + 1) = {}
    BY <1>1, <2>1, <1>2, BlocksConflict, <1>6 DEF Blocked, T, Completion
  <2>3. \A p, q \in T : p # q => ~Conflict(rows[p], rows[q]) BY DEF Completion, T
  <2>4. Len(t.sel) + Cardinality(T) <= MaxCompanions
    <3>1. Len(s.sel) + Cardinality(R) <= MaxCompanions BY DEF Completion
    <3>2. Len(t.sel) + Cardinality(T) = Len(s.sel) + Cardinality(R)
      <4>1. Cardinality(R) = 1 + Cardinality(T) /\ Cardinality(T) \in Nat /\ Len(s.sel) \in Nat
        BY <1>1, <1>4, <1>5
      <4> QED BY ONLY <1>7, <4>1
    <3> QED BY <3>1, <3>2
  <2>5. ASSUME NEW p \in T
        PROVE  t.counts[CapacityClass(rows[p])]
                    + Cardinality(InClass(T, CapacityClass(rows[p])))
                      <= wave.caps[CapacityClass(rows[p])]
    <3> DEFINE c == CapacityClass(rows[p])
    <3>1. c \in Capacities BY <1>1, <1>4, RowType DEF ProblemType
    <3>2. s.counts[c] + Cardinality(InClass(R, c)) <= wave.caps[c] BY <2>5 DEF Completion, T
    <3> HIDE DEF c
    <3>3. s.counts[c] \in Nat BY <1>1, <3>1
    <3>4. t.counts[c] + Cardinality(InClass(T, c)) = s.counts[c] + Cardinality(InClass(R, c))
      <4>1. CASE c = CapacityClass(r)
        <5>1. t.counts[c] = s.counts[c] + 1 BY <1>1, <1>6, <3>1, <4>1
        <5>2. Cardinality(InClass(R, c)) = 1 + Cardinality(InClass(T, c)) BY <1>4, <4>1
        <5>3. Cardinality(InClass(T, c)) \in Nat BY <1>5
        <5> QED BY <3>3, <5>1, <5>2, <5>3
      <4>2. CASE c # CapacityClass(r) BY <1>1, <1>6, <3>1, <4>2, <1>4, <1>5, <3>3
      <4> QED BY <4>1, <4>2
    <3>5. t.counts[c] + Cardinality(InClass(T, c)) <= wave.caps[c] BY <3>2, <3>4
    <3> QED BY <3>5 DEF c
  <2>6. Bill(Unprotected(T)) + NonNegative(Bill(Guarded(T)) - t.prot) <= t.free
    <3> DEFINE U == Bill(Unprotected(T))
               G == Bill(Guarded(T))
               C == Charge(r)
    <3>1. Bill(Unprotected(R)) + NonNegative(Bill(Guarded(R)) - s.prot) <= s.free
      BY DEF Completion
    <3>2. U \in Nat /\ G \in Nat /\ C \in Nat /\ s.prot \in Nat /\ s.free \in Nat
      BY <1>1, <1>3, <1>5
    <3>3. CASE Protected(r)
      <4>1. v = Least(C, s.prot) BY <3>3 DEF v
      <4>2. Bill(Unprotected(R)) = U /\ Bill(Guarded(R)) = C + G BY <1>4, <3>2, <3>3
      <4>3. PoolsPay(U, C + G, s.prot, s.free) BY <3>1, <3>2, <4>2 DEF PoolsPay
      <4> HIDE DEF U, G, C
      <4>4. U + NonNegative(G - (s.prot - Least(C, s.prot))) <= s.free - (C - Least(C, s.prot))
        BY ONLY <3>2, <4>3, PoolsServe
      <4>5. t.prot = s.prot - Least(C, s.prot) /\ t.free = s.free - (C - Least(C, s.prot))
        BY <1>6, <4>1 DEF C
      <4> QED BY <4>4, <4>5 DEF U, G
    <3>4. CASE ~Protected(r) BY <3>4, <1>4, <3>2, <1>6, <3>1 DEF v, NonNegative
    <3> QED BY <3>3, <3>4
  <2> QED BY <2>1, <2>2, <2>3, <2>4, <2>5, <2>6 DEF Completion
<1>10. Total(t, T) = Total(s, R)
  <2>1. t.fair + Fair(T) = s.fair + Fair(R)
    <3>1. t.fair = s.fair + Weight(r) /\ Fair(R) = Weight(r) + Fair(T) BY <1>4, <1>6
    <3>2. s.fair \in Nat /\ Weight(r) \in Nat /\ Fair(T) \in Nat BY <1>1, <1>3, <1>5
    <3> QED BY ONLY <3>1, <3>2
  <2>2. t.prio + Prio(T) = s.prio + Prio(R)
    <3>1. t.prio = s.prio + Priority(r) /\ Prio(R) = Priority(r) + Prio(T) BY <1>4, <1>6
    <3>2. s.prio \in Nat /\ Priority(r) \in Nat /\ Prio(T) \in Nat BY <1>1, <1>3, <1>5
    <3> QED BY ONLY <3>1, <3>2
  <2>3. Len(t.sel) + Cardinality(T) = Len(s.sel) + Cardinality(R)
    <3>1. Cardinality(R) = 1 + Cardinality(T) /\ Cardinality(T) \in Nat /\ Len(s.sel) \in Nat
      BY <1>1, <1>4, <1>5
    <3> QED BY ONLY <1>7, <3>1
  <2>4. t.prot + t.free - Bill(T) = s.prot + s.free - Bill(R)
    <3>1. t.prot = s.prot - v /\ t.free = s.free - (Charge(r) - v)
          /\ Bill(R) = Charge(r) + Bill(T)
      BY <1>4, <1>6
    <3>2. s.prot \in Nat /\ s.free \in Nat /\ Charge(r) \in Nat /\ Bill(T) \in Nat
      BY <1>1, <1>3, <1>5
    <3> QED BY ONLY <1>8, <3>1, <3>2
  <2> QED BY <2>1, <2>2, <2>3, <2>4 DEF Total
<1>11. Listing(t, T) = Listing(s, R)
  <2>1. Idents(R) = <<r.id>> \o Idents(T)
    <3>1. \A a \in R \ {n} : n < a BY <1>1, <1>2
    <3> QED BY <1>1, <1>2, <3>1, IdentsLeast DEF T
  <2>2. Idents(T) \in Seq(Int) /\ <<r.id>> \in Seq(Int) BY <1>1, <1>3, <1>4, IdentsType
  <2>3. t.ids = s.ids \o <<r.id>>
    <3>1. \A q \in Seq(Int) : \A e \in Int : Append(q, e) = q \o <<e>> BY AppendIsConcat
    <3> QED BY <1>1, <1>3, <1>6, <3>1
  <2>4. (s.ids \o <<r.id>>) \o Idents(T) = s.ids \o (<<r.id>> \o Idents(T))
    <3>1. \A a, b, c \in Seq(Int) : (a \o b) \o c = a \o (b \o c) BY ConcatAssociative
    <3> HIDE DEF r
    <3> QED BY <1>1, <2>2, <3>1, Zenon
  <2> QED BY <2>1, <2>3, <2>4 DEF Listing
<1> QED BY <1>9, <1>10, <1>11 DEF t, T

-----------------------------------------------------------------------------

(* What a partial wave can reach, and when another reaches as much. *)

\* The members of a concatenation.
LEMMA ConcatMembers ==
  ASSUME NEW a \in Seq(Int), NEW b \in Seq(Int)
  PROVE  /\ a \o b \in Seq(Int) /\ Len(a \o b) = Len(a) + Len(b)
         /\ Len(a) \in Nat /\ Len(b) \in Nat
         /\ \A k \in 1..Len(a) : (a \o b)[k] = a[k]
         /\ \A k \in (Len(a) + 1)..(Len(a) + Len(b)) : (a \o b)[k] = b[k - Len(a)]
  OBVIOUS

\* Sequences of one length compare as before when the same follows both.
LEMMA LexConcatRight ==
  ASSUME NEW a \in Seq(Int), NEW b \in Seq(Int), NEW x \in Seq(Int),
         Len(a) = Len(b), LexAtMost(a, b)
  PROVE  LexAtMost(a \o x, b \o x)
<1>1. CASE a = b BY <1>1 DEF LexAtMost
<1>2. CASE LexLess(a, b)
  <2>1. PICK i \in 1..Len(b) : /\ i - 1 <= Len(a) /\ \A j \in 1..(i - 1) : a[j] = b[j]
                               /\ i > Len(a) \/ a[i] < b[i]
    BY <1>2 DEF LexLess
  <2> DEFINE u == a \o x
             w == b \o x
  <2>2. /\ Len(u) = Len(a) + Len(x) /\ Len(w) = Len(b) + Len(x)
        /\ Len(a) \in Nat /\ Len(x) \in Nat
        /\ \A k \in 1..Len(a) : u[k] = a[k]
        /\ \A k \in 1..Len(b) : w[k] = b[k]
    BY ConcatMembers
  <2> HIDE DEF u, w
  <2>3. i \in 1..Len(w) /\ i - 1 <= Len(u) /\ i \in 1..Len(a) BY <2>1, <2>2
  <2>4. u[i] < w[i] BY <2>1, <2>2, <2>3
  <2>5. \A j \in 1..(i - 1) : u[j] = w[j] BY <2>1, <2>2, <2>3
  <2>6. LexLess(u, w) BY <2>3, <2>4, <2>5 DEF LexLess
  <2> QED BY <2>6 DEF LexAtMost, u, w
<1> QED BY <1>1, <1>2 DEF LexAtMost

\* And when both follow the same.
LEMMA LexConcatLeft ==
  ASSUME NEW a \in Seq(Int), NEW x \in Seq(Int), NEW y \in Seq(Int), LexAtMost(x, y)
  PROVE  LexAtMost(a \o x, a \o y)
<1>1. CASE x = y BY <1>1 DEF LexAtMost
<1>2. CASE LexLess(x, y)
  <2>1. PICK i \in 1..Len(y) : /\ i - 1 <= Len(x) /\ \A j \in 1..(i - 1) : x[j] = y[j]
                               /\ i > Len(x) \/ x[i] < y[i]
    BY <1>2 DEF LexLess
  <2> DEFINE u == a \o x
             w == a \o y
             L == Len(a)
             m == Len(a) + i
  <2>2. /\ Len(u) = L + Len(x) /\ Len(w) = L + Len(y)
        /\ L \in Nat /\ Len(x) \in Nat /\ Len(y) \in Nat
        /\ \A k \in 1..L : u[k] = a[k] /\ w[k] = a[k]
        /\ \A k \in (L + 1)..(L + Len(x)) : u[k] = x[k - L]
        /\ \A k \in (L + 1)..(L + Len(y)) : w[k] = y[k - L]
    BY ConcatMembers
  <2>3. m = L + i OBVIOUS
  <2> HIDE DEF u, w, L, m
  <2>4. i \in Nat /\ i >= 1 /\ i <= Len(y) /\ m - L = i BY <2>2, <2>3
  <2>5. m \in 1..Len(w) /\ m \in (L + 1)..(L + Len(y)) /\ m - 1 <= Len(u) /\ w[m] = y[i]
    <3>1. /\ Len(u) = L + Len(x) /\ Len(w) = L + Len(y) /\ L \in Nat /\ Len(x) \in Nat
          /\ Len(y) \in Nat /\ m = L + i /\ i - 1 <= Len(x)
      BY <2>1, <2>2, <2>3
    <3>2. m \in 1..Len(w) /\ m \in (L + 1)..(L + Len(y)) /\ m - 1 <= Len(u)
      BY ONLY <2>4, <3>1
    <3> QED BY <2>2, <2>4, <3>2
  <2>6. m > Len(u) \/ u[m] < w[m]
    <3>1. CASE i > Len(x) BY <2>2, <2>3, <2>4, <3>1
    <3>2. CASE i <= Len(x)
      <4>1. m \in (L + 1)..(L + Len(x)) BY <2>2, <2>3, <2>4, <3>2
      <4>2. u[m] = x[i] BY <2>2, <2>4, <4>1
      <4>3. x[i] < y[i] BY <2>1, <2>2, <2>4, <3>2
      <4> QED BY <2>5, <4>2, <4>3
    <3> QED BY <2>2, <2>4, <3>1, <3>2
  <2>7. ASSUME NEW j \in 1..(m - 1) PROVE u[j] = w[j] BY <2>2, <2>1, <2>3, <2>4
  <2>8. LexLess(u, w) BY <2>5, <2>6, <2>7 DEF LexLess
  <2> QED BY <2>8 DEF LexAtMost, u, w
<1> QED BY <1>1, <1>2 DEF LexAtMost

\* What reaches an objective reaches every worse one.
LEMMA ReachTransitive ==
  ASSUME Placed, NEW s, NEW n, Ready(s, n),
         NEW v \in Seq(Int), NEW i \in Seq(Int), NEW w \in Seq(Int), NEW j \in Seq(Int),
         Reach(s, n, v, i), NoWorse(v, i, w, j)
  PROVE  Reach(s, n, w, j)
<1>1. PICK R \in SUBSET DOMAIN rows :
        Completion(R, s, n) /\ NoWorse(Total(s, R), Listing(s, R), v, i)
  BY DEF Reach
<1>2. Total(s, R) \in Seq(Int) /\ Listing(s, R) \in Seq(Int)
  BY <1>1, CompletionType DEF Tuples
<1>3. NoWorse(Total(s, R), Listing(s, R), w, j) BY <1>1, <1>2, NoWorseTransitive
<1> QED BY <1>1, <1>3 DEF Reach

(* Whatever a partial wave reaches, it reaches by leaving out or admitting  *)
(* the next row.                                                            *)
LEMMA ReachStep ==
  ASSUME Placed, NEW s, NEW n, Ready(s, n), n <= Len(rows), NEW v, NEW i, Reach(s, n, v, i)
  PROVE  Reach(s, n + 1, v, i) \/ (Admits(s, n) /\ Reach(Include(s, n), n + 1, v, i))
<1>1. PICK R \in SUBSET DOMAIN rows :
        Completion(R, s, n) /\ NoWorse(Total(s, R), Listing(s, R), v, i)
  BY DEF Reach
<1>2. CASE n \notin R BY <1>1, <1>2, CompletionSkip DEF Reach
<1>3. CASE n \in R
  <2>1. Admits(s, n) BY <1>1, <1>3, CompletionAdmits
  <2>2. /\ Completion(R \ {n}, Include(s, n), n + 1)
        /\ Total(Include(s, n), R \ {n}) = Total(s, R)
        /\ Listing(Include(s, n), R \ {n}) = Listing(s, R)
    BY <1>1, <1>3, CompletionTake
  <2>3. R \ {n} \in SUBSET DOMAIN rows OBVIOUS
  <2>4. NoWorse(Total(Include(s, n), R \ {n}), Listing(Include(s, n), R \ {n}), v, i)
    BY <1>1, <2>2, Zenon
  <2> QED BY <2>1, <2>2, <2>3, <2>4 DEF Reach
<1> QED BY <1>2, <1>3

(* When every row is decided it reaches what it is.                         *)
LEMMA ReachEnd ==
  ASSUME Placed, NEW s, Ready(s, Len(rows) + 1), NEW v, NEW i,
         Reach(s, Len(rows) + 1, v, i)
  PROVE  NoWorse(Score(s), s.ids, v, i)
<1>1. PICK R \in SUBSET DOMAIN rows :
        Completion(R, s, Len(rows) + 1) /\ NoWorse(Total(s, R), Listing(s, R), v, i)
  BY DEF Reach
<1>2. /\ ProblemType /\ Len(rows) \in Nat
      /\ s.fair \in Nat /\ s.prio \in Nat /\ s.prot \in Nat /\ s.free \in Nat
      /\ Len(s.sel) \in Nat /\ s.ids \in Seq(Int)
  BY ReadyType
<1>3. R = {} BY <1>1, <1>2 DEF Completion
<1>4. Fair({}) = 0 /\ Prio({}) = 0 /\ Bill({}) = 0 /\ Cardinality({}) = 0 BY AmountsEmpty
<1>5. Total(s, {}) = Score(s) BY <1>2, <1>4 DEF Total, Score
<1>6. Listing(s, {}) = s.ids
  <2>1. Idents({}) \in Seq(Int) /\ Len(Idents({})) = 0 BY <1>2, IdentsType, <1>4
  <2>2. Idents({}) = <<>> BY <2>1
  <2>3. s.ids \o <<>> = s.ids BY <1>2, ConcatEmptySeq
  <2> QED BY <2>2, <2>3 DEF Listing
<1> QED BY <1>1, <1>3, <1>5, <1>6

(* A dominated partial wave reaches nothing the dominating one does not.    *)
LEMMA CompletionDominated ==
  ASSUME Placed, NEW a, NEW b, NEW n, Ready(a, n), Ready(b, n), Dominates(a, b, n),
         NEW R, Completion(R, b, n)
  PROVE  /\ Completion(R, a, n)
         /\ NoWorse(Total(a, R), Listing(a, R), Total(b, R), Listing(b, R))
<1>1. /\ LexAtMost(Score(b), Score(a))
      /\ Len(a.sel) <= Len(b.sel)
      /\ \A c \in Capacities : a.counts[c] <= b.counts[c]
      /\ a.prot >= b.prot /\ a.free >= b.free
      /\ Blocked(a, n) \subseteq Blocked(b, n)
      /\ Score(a) = Score(b) => LexAtMost(a.ids, b.ids)
  BY DEF Dominates
<1>2. /\ ProblemType
      /\ a.fair \in Nat /\ a.prio \in Nat /\ a.prot \in Nat /\ a.free \in Nat
      /\ Len(a.sel) \in Nat /\ a.ids \in Seq(Int) /\ Len(a.ids) = Len(a.sel)
      /\ a.counts \in [Capacities -> Nat] /\ MaxCompanions \in Nat
      /\ wave.caps \in [Capacities -> Nat]
  BY ReadyType
<1>3. /\ b.fair \in Nat /\ b.prio \in Nat /\ b.prot \in Nat /\ b.free \in Nat
      /\ Len(b.sel) \in Nat /\ b.ids \in Seq(Int) /\ Len(b.ids) = Len(b.sel)
      /\ b.counts \in [Capacities -> Nat]
  BY ReadyType
<1>4. /\ R \in SUBSET DOMAIN rows /\ Cardinality(R) \in Nat
      /\ Fair(R) \in Nat /\ Prio(R) \in Nat /\ Bill(R) \in Nat
      /\ Bill(Unprotected(R)) \in Nat /\ Bill(Guarded(R)) \in Nat
      /\ Total(b, R) \in Tuples(4) /\ Idents(R) \in Seq(Int)
  BY CompletionType
<1>5. Completion(R, a, n)
  <2>1. R \cap Blocked(a, n) = {} BY <1>1 DEF Completion
  <2>2. Len(a.sel) + Cardinality(R) <= MaxCompanions
    <3>1. Len(b.sel) + Cardinality(R) <= MaxCompanions BY DEF Completion
    <3>2. /\ Len(a.sel) \in Nat /\ Len(b.sel) \in Nat /\ Len(a.sel) <= Len(b.sel)
          /\ MaxCompanions \in Nat /\ Cardinality(R) \in Nat
      BY <1>1, <1>2, <1>3, <1>4, Zenon
    <3> QED BY ONLY <3>1, <3>2
  <2>3. ASSUME NEW p \in R
        PROVE  a.counts[CapacityClass(rows[p])]
                    + Cardinality(InClass(R, CapacityClass(rows[p])))
                      <= wave.caps[CapacityClass(rows[p])]
    <3> DEFINE c == CapacityClass(rows[p])
    <3>1. c \in Capacities BY <1>2, <1>4, RowType DEF ProblemType
    <3>2. b.counts[c] + Cardinality(InClass(R, c)) <= wave.caps[c] BY DEF Completion
    <3> HIDE DEF c
    <3>3. Cardinality(InClass(R, c)) \in Nat BY <1>2, <1>4, AmountsType
    <3>4. a.counts[c] \in Nat /\ b.counts[c] \in Nat /\ a.counts[c] <= b.counts[c]
          /\ wave.caps[c] \in Nat
      BY <1>1, <1>2, <1>3, <3>1
    <3>5. a.counts[c] + Cardinality(InClass(R, c)) <= wave.caps[c] BY ONLY <3>2, <3>3, <3>4
    <3> QED BY <3>5 DEF c
  <2>4. Bill(Unprotected(R)) + NonNegative(Bill(Guarded(R)) - a.prot) <= a.free
    <3>1. Bill(Unprotected(R)) + NonNegative(Bill(Guarded(R)) - b.prot) <= b.free
      BY DEF Completion
    <3> DEFINE U == Bill(Unprotected(R))
               G == Bill(Guarded(R))
    <3> HIDE DEF U, G
    <3>2. U \in Nat /\ G \in Nat /\ U + NonNegative(G - b.prot) <= b.free
      BY <1>4, <3>1 DEF U, G
    <3> DEFINE P == a.prot
               Q == b.prot
               F == a.free
               H == b.free
    <3>4. /\ P \in Nat /\ Q \in Nat /\ F \in Nat /\ H \in Nat /\ P >= Q /\ F >= H
          /\ U + NonNegative(G - Q) <= H /\ U \in Nat /\ G \in Nat
      BY <1>1, <1>2, <1>3, <3>2
    <3> HIDE DEF P, Q, F, H
    <3>5. U + NonNegative(G - P) <= F BY ONLY <3>4 DEF NonNegative
    <3>3. U + NonNegative(G - a.prot) <= a.free BY <3>5 DEF P, F
    <3> QED BY <3>3 DEF U, G
  <2> QED BY <2>1, <2>2, <2>3, <2>4 DEF Completion
<1>6. Total(a, R) \in Tuples(4) BY <1>5, CompletionType
<1>7. Score(a) \in Tuples(4) /\ Score(b) \in Tuples(4) BY ScoreType DEF Ready
<1>8. /\ Total(a, R)[1] = a.fair + Fair(R) /\ Total(b, R)[1] = b.fair + Fair(R)
      /\ Total(a, R)[2] = a.prio + Prio(R) /\ Total(b, R)[2] = b.prio + Prio(R)
      /\ Total(a, R)[3] = Len(a.sel) + Cardinality(R)
      /\ Total(b, R)[3] = Len(b.sel) + Cardinality(R)
      /\ Total(a, R)[4] = a.prot + a.free - Bill(R)
      /\ Total(b, R)[4] = b.prot + b.free - Bill(R)
  BY DEF Total
<1>9. /\ Score(a)[1] = a.fair /\ Score(b)[1] = b.fair
      /\ Score(a)[2] = a.prio /\ Score(b)[2] = b.prio
      /\ Score(a)[3] = Len(a.sel) /\ Score(b)[3] = Len(b.sel)
      /\ Score(a)[4] = a.prot + a.free /\ Score(b)[4] = b.prot + b.free
  BY DEF Score
<1>10. LexAtMost(Total(b, R), Total(a, R)) /\ (Total(a, R) = Total(b, R) => Score(a) = Score(b))
  <2>1. \/ b.fair < a.fair
        \/ b.fair = a.fair /\ b.prio < a.prio
        \/ b.fair = a.fair /\ b.prio = a.prio /\ Len(b.sel) < Len(a.sel)
        \/ b.fair = a.fair /\ b.prio = a.prio /\ Len(b.sel) = Len(a.sel)
             /\ b.prot + b.free <= a.prot + a.free
    BY <1>1, <1>7, <1>9, LexFour
  <2> DEFINE x == Fair(R)
             y == Prio(R)
             z == Cardinality(R)
             k == Bill(R)
             pa == a.prot + a.free
             pb == b.prot + b.free
             la == Len(a.sel)
             lb == Len(b.sel)
             ta == Total(a, R)
             tb == Total(b, R)
  <2>2. /\ x \in Nat /\ y \in Nat /\ z \in Nat /\ k \in Nat
        /\ la \in Nat /\ lb \in Nat /\ pa \in Nat /\ pb \in Nat
        /\ a.fair \in Nat /\ b.fair \in Nat /\ a.prio \in Nat /\ b.prio \in Nat
    <3>1. /\ a.prot \in Nat /\ a.free \in Nat /\ b.prot \in Nat /\ b.free \in Nat
      BY <1>2, <1>3, Zenon
    <3>2. a.prot + a.free \in Nat /\ b.prot + b.free \in Nat BY ONLY <3>1
    <3> QED BY <1>2, <1>3, <1>4, <3>2, Zenon
  <2>3. /\ ta[1] = a.fair + x /\ tb[1] = b.fair + x
        /\ ta[2] = a.prio + y /\ tb[2] = b.prio + y
        /\ ta[3] = la + z /\ tb[3] = lb + z
        /\ ta[4] = pa - k /\ tb[4] = pb - k
    <3>1. /\ a.prot \in Nat /\ a.free \in Nat /\ b.prot \in Nat /\ b.free \in Nat
          /\ k \in Nat
      BY <1>2, <1>3, <1>4, Zenon
    <3>2. /\ a.prot + (a.free - k) = (a.prot + a.free) - k
          /\ b.prot + (b.free - k) = (b.prot + b.free) - k
      <4> HIDE DEF k
      <4> QED BY ONLY <3>1
    <3> QED BY <1>8, <3>2
  <2>4. \/ b.fair < a.fair
        \/ b.fair = a.fair /\ b.prio < a.prio
        \/ b.fair = a.fair /\ b.prio = a.prio /\ lb < la
        \/ b.fair = a.fair /\ b.prio = a.prio /\ lb = la /\ pb <= pa
    BY <2>1
  <2>5. Score(a) = <<a.fair, a.prio, la, pa>> /\ Score(b) = <<b.fair, b.prio, lb, pb>>
    BY DEF Score
  <2>6. ta \in Tuples(4) /\ tb \in Tuples(4) BY <1>4, <1>6
  <2> HIDE DEF x, y, z, k, pa, pb, la, lb, ta, tb
  <2>7. \/ tb[1] < ta[1]
        \/ tb[1] = ta[1] /\ tb[2] < ta[2]
        \/ tb[1] = ta[1] /\ tb[2] = ta[2] /\ tb[3] < ta[3]
        \/ tb[1] = ta[1] /\ tb[2] = ta[2] /\ tb[3] = ta[3] /\ tb[4] <= ta[4]
    BY ONLY <2>2, <2>3, <2>4
  <2>8. LexAtMost(tb, ta) BY <2>6, <2>7, LexFour
  <2>9. ASSUME ta = tb PROVE Score(a) = Score(b)
    <3>1. /\ a.fair + x = b.fair + x /\ a.prio + y = b.prio + y /\ la + z = lb + z
          /\ pa - k = pb - k
      BY <2>3, <2>9
    <3>2. a.fair = b.fair /\ a.prio = b.prio /\ la = lb /\ pa = pb BY ONLY <2>2, <3>1
    <3> QED BY <2>5, <3>2
  <2> QED BY <2>8, <2>9 DEF ta, tb
<1>11. NoWorse(Total(a, R), Listing(a, R), Total(b, R), Listing(b, R))
  BY <1>1, <1>10, <1>2, <1>3, <1>9, <1>4, LexConcatRight DEF NoWorse, Listing, LexAtMost
<1> QED BY <1>5, <1>11

\* A dominating partial wave reaches what the dominated one does.
LEMMA ReachDominated ==
  ASSUME Placed, NEW a, NEW b, NEW n, Ready(a, n), Ready(b, n), Dominates(a, b, n),
         NEW v \in Seq(Int), NEW i \in Seq(Int), Reach(b, n, v, i)
  PROVE  Reach(a, n, v, i)
<1>1. PICK R \in SUBSET DOMAIN rows :
        Completion(R, b, n) /\ NoWorse(Total(b, R), Listing(b, R), v, i)
  BY DEF Reach
<1>2. /\ Completion(R, a, n)
      /\ NoWorse(Total(a, R), Listing(a, R), Total(b, R), Listing(b, R))
  BY <1>1, CompletionDominated
<1>3. /\ Total(b, R) \in Seq(Int) /\ Listing(b, R) \in Seq(Int)
  BY <1>1, CompletionType DEF Tuples
<1>4. /\ Total(a, R) \in Seq(Int) /\ Listing(a, R) \in Seq(Int)
  BY <1>2, CompletionType DEF Tuples
<1>5. NoWorse(Total(a, R), Listing(a, R), v, i) BY <1>1, <1>2, <1>3, <1>4, NoWorseTransitive
<1> QED BY <1>2, <1>5 DEF Reach

(* Equal keys and no greater identifiers: the quotient is a dominance.      *)
LEMMA EqualKeysDominate ==
  ASSUME Placed, NEW a, NEW b, NEW n, Ready(a, n), Ready(b, n),
         FutureKey(a, n) = FutureKey(b, n), LexAtMost(a.ids, b.ids)
  PROVE  Dominates(a, b, n)
<1>1. /\ Score(a) = Score(b) /\ a.counts = b.counts /\ a.prot = b.prot /\ a.free = b.free
      /\ Blocked(a, n) = Blocked(b, n)
  BY DEF FutureKey
<1>2. Len(a.sel) = Len(b.sel) BY <1>1 DEF Score
<1>3. Len(a.sel) \in Nat /\ a.prot \in Nat /\ a.free \in Nat
      /\ a.counts \in [Capacities -> Nat]
  BY ReadyType
<1>4. \A c \in Capacities : a.counts[c] <= b.counts[c] BY <1>3, <1>1
<1>5. LexAtMost(Score(b), Score(a)) BY <1>1 DEF LexAtMost
<1> QED BY <1>1, <1>2, <1>3, <1>4, <1>5 DEF Dominates

\* Domination is transitive.
LEMMA DominatesTransitive ==
  ASSUME Placed, NEW a, NEW b, NEW c, NEW n, Ready(a, n), Ready(b, n), Ready(c, n),
         Dominates(a, b, n), Dominates(b, c, n)
  PROVE  Dominates(a, c, n)
<1>1. /\ Score(a) \in Seq(Int) /\ Score(b) \in Seq(Int) /\ Score(c) \in Seq(Int)
      /\ a.ids \in Seq(Int) /\ b.ids \in Seq(Int) /\ c.ids \in Seq(Int)
  BY ScoreType DEF Ready, Tuples
<1>2. /\ Len(a.sel) \in Nat /\ a.prot \in Nat /\ a.free \in Nat
      /\ a.counts \in [Capacities -> Nat]
  BY ReadyType
<1>3. /\ Len(b.sel) \in Nat /\ b.prot \in Nat /\ b.free \in Nat
      /\ b.counts \in [Capacities -> Nat]
  BY ReadyType
<1>4. /\ Len(c.sel) \in Nat /\ c.prot \in Nat /\ c.free \in Nat
      /\ c.counts \in [Capacities -> Nat]
  BY ReadyType
<1>5. LexAtMost(Score(c), Score(a)) BY <1>1, LexAtMostTransitive DEF Dominates
<1>6. Len(a.sel) <= Len(c.sel) /\ a.prot >= c.prot /\ a.free >= c.free
  BY <1>2, <1>3, <1>4 DEF Dominates
<1>7. \A k \in Capacities : a.counts[k] <= c.counts[k] BY <1>2, <1>3, <1>4 DEF Dominates
<1>8. Blocked(a, n) \subseteq Blocked(c, n) BY DEF Dominates
<1>9. ASSUME Score(a) = Score(c) PROVE LexAtMost(a.ids, c.ids)
  BY <1>9, <1>1, LexTransitive, LexIrreflexive, LexAtMostTransitive DEF Dominates, LexAtMost
<1> QED BY <1>5, <1>6, <1>7, <1>8, <1>9 DEF Dominates

(* What is kept of a layer dominates all of it.                             *)
LEMMA KeptDominates ==
  ASSUME Placed, NEW S, IsFiniteSet(S), NEW n, \A s \in S : Ready(s, n), Unlike(S),
         NEW s \in S
  PROVE  \E t \in Nondominated(Quotient(S, n), n) : t = s \/ Dominates(t, s, n)
<1> DEFINE A == {t \in S : t = s \/ Dominates(t, s, n)}
           m == Best(A)
<1>1. IsFiniteSet(A) /\ A # {} /\ (\A t \in A : Sound(t)) /\ Unlike(A)
  BY FS_Subset DEF Ready, Unlike
<1>2. m \in A /\ \A t \in A \ {m} : Better(m, t)
  <2> HIDE DEF A
  <2> QED BY <1>1, BestExists
<1> HIDE DEF m
<1>3. m \in S /\ Ready(m, n) /\ Sound(m) BY <1>2 DEF Ready
<1>4. ASSUME NEW t \in S, Dominates(t, m, n) PROVE t \in A
  BY <1>4, <1>3, DominatesTransitive, <1>2
<1> HIDE DEF A
<1>5. ASSUME NEW t \in S, t # m, Dominates(t, m, n) PROVE FALSE
  BY <1>2, <1>4, <1>5, <1>3, ScoreType, LexTransitive, LexIrreflexive DEF Dominates, Ready,
       Tuples, Better, LexAtMost
<1>6. m \in Quotient(S, n)
  BY <1>3, EqualKeysDominate, ScoreType, LexIrreflexive, <1>5 DEF Quotient, LexAtMost
<1>7. m \in Nondominated(Quotient(S, n), n) BY <1>5, <1>6 DEF Nondominated, Quotient
<1> QED BY <1>2, <1>7 DEF A

-----------------------------------------------------------------------------

(* The waves that may run are the completions of the empty one. *)

\* A sum over distinct images is the sum over what they are images of.
LEMMA SumImage ==
  ASSUME NEW S, IsFiniteSet(S), NEW f, \A x, y \in S : f[x] = f[y] => x = y,
         NEW g, NEW h, \A x \in S : g[f[x]] \in Int /\ h[x] = g[f[x]]
  PROVE  SumFunctionOnSet(g, {f[x] : x \in S}) = SumFunctionOnSet(h, S)
<1> DEFINE I(T) == {f[x] : x \in T}
           X == {T \in SUBSET S : SumFunctionOnSet(g, I(T)) = SumFunctionOnSet(h, T)}
<1>1. {} \in X BY SumEmpty
<1>2. ASSUME NEW T \in SUBSET S, NEW y \in S \ T, T \in X PROVE T \cup {y} \in X
  <2>1. IsFiniteSet(T) /\ T \cup {y} \in SUBSET S /\ y \notin T BY FS_Subset
  <2>2. IsFiniteSet(I(T)) BY <2>1, ImageCount
  <2>3. I(T \cup {y}) = I(T) \cup {f[y]} /\ f[y] \notin I(T) OBVIOUS
  <2>4. (\A x \in T \cup {y} : h[x] \in Int) /\ (\A z \in I(T) \cup {f[y]} : g[z] \in Int)
    OBVIOUS
  <2>5. SumFunctionOnSet(g, I(T)) = SumFunctionOnSet(h, T) /\ h[y] = g[f[y]] BY <1>2
  <2> HIDE DEF I
  <2>6. SumFunctionOnSet(h, T \cup {y}) = h[y] + SumFunctionOnSet(h, T)
    BY <2>1, <2>4, SumAdd
  <2>7. SumFunctionOnSet(g, I(T) \cup {f[y]}) = g[f[y]] + SumFunctionOnSet(g, I(T))
    BY <2>2, <2>3, <2>4, SumAdd
  <2>8. SumFunctionOnSet(g, I(T \cup {y})) = SumFunctionOnSet(h, T \cup {y})
    BY <2>3, <2>5, <2>6, <2>7, Zenon
  <2> QED BY <2>1, <2>8
<1> HIDE DEF X
<1>3. S \in X BY <1>1, <1>2, InductOnSets
<1> QED BY <1>3 DEF X

\* Distinct rows are distinct positions.
LEMMA RowsDistinct ==
  ASSUME ProblemType, NEW R \in SUBSET DOMAIN rows
  PROVE  /\ \A p, q \in DOMAIN rows : rows[p] = rows[q] => p = q
         /\ IsFiniteSet(RowsAt(R)) /\ Cardinality(RowsAt(R)) = Cardinality(R)
<1>1. \A p, q \in DOMAIN rows : rows[p] = rows[q] => p = q BY DEF ProblemType
<1>2. IsFiniteSet(R) /\ \A p, q \in R : rows[p] = rows[q] => p = q
  BY <1>1, FS_Subset DEF ProblemType
<1> QED BY <1>1, <1>2, ImageCount DEF RowsAt

(* The objective of a wave is what its rows add to the empty one.           *)
LEMMA WorthOfRows ==
  ASSUME Placed, NEW R \in SUBSET DOMAIN rows
  PROVE  Worth(RowsAt(R)) = Total(Start, R)
<1> DEFINE Q == RowsAt(R)
           wt == [r \in Q |-> Weight(r)]
           pr == [r \in Q |-> Priority(r)]
<1>1. ProblemType /\ IsFiniteSet(R) /\ \A p, q \in R : rows[p] = rows[q] => p = q
  BY ProblemTyped, RowsDistinct, FS_Subset DEF ProblemType
<1>2. IsFiniteSet(Q) /\ Cardinality(Q) = Cardinality(R) /\ Cardinality(R) \in Nat
  BY <1>1, RowsDistinct, FS_CardinalityType
<1>3. SumFunction(wt) = Fair(R)
  <2>1. \A x \in R : wt[rows[x]] \in Int /\ Weights[x] = wt[rows[x]]
    <3> SUFFICES ASSUME NEW x \in R PROVE wt[rows[x]] \in Int /\ Weights[x] = wt[rows[x]]
      OBVIOUS
    <3>1. rows[x] \in Q BY DEF RowsAt
    <3>2. Weights[x] = Weight(rows[x]) /\ Weights[x] \in Nat BY <1>1, RowAmounts
    <3> HIDE DEF Q
    <3> QED BY <3>1, <3>2
  <2> HIDE DEF wt
  <2>2. SumFunctionOnSet(wt, {rows[x] : x \in R}) = SumFunctionOnSet(Weights, R)
    BY <1>1, <2>1, SumImage
  <2>3. DOMAIN wt = {rows[x] : x \in R} BY DEF wt, RowsAt
  <2> QED BY <2>2, <2>3 DEF SumFunction, Fair
<1>4. SumFunction(pr) = Prio(R)
  <2>1. \A x \in R : pr[rows[x]] \in Int /\ Priorities[x] = pr[rows[x]]
    <3> SUFFICES ASSUME NEW x \in R PROVE pr[rows[x]] \in Int /\ Priorities[x] = pr[rows[x]]
      OBVIOUS
    <3>1. rows[x] \in Q BY DEF RowsAt
    <3>2. Priorities[x] = Priority(rows[x]) /\ Priorities[x] \in Nat BY <1>1, RowAmounts
    <3> HIDE DEF Q
    <3> QED BY <3>1, <3>2
  <2> HIDE DEF pr
  <2>2. SumFunctionOnSet(pr, {rows[x] : x \in R}) = SumFunctionOnSet(Priorities, R)
    BY <1>1, <2>1, SumImage
  <2>3. DOMAIN pr = {rows[x] : x \in R} BY DEF pr, RowsAt
  <2> QED BY <2>2, <2>3 DEF SumFunction, Prio
<1>5. MinGrant * Cardinality({r \in Q : wave.enforced /\ r.request > 0}) = Bill(R)
  <2> DEFINE A == {p \in R : wave.enforced /\ rows[p].request > 0}
  <2>1. {r \in Q : wave.enforced /\ r.request > 0} = RowsAt(A) /\ A \in SUBSET DOMAIN rows
    BY DEF RowsAt
  <2>2. Cardinality(RowsAt(A)) = Cardinality(A)
    <3> HIDE DEF A
    <3> QED BY <1>1, <2>1, RowsDistinct
  <2>3. Bill(R) = MinGrant * Cardinality(A) BY <1>1, ChargesCount DEF Bill
  <2> HIDE DEF A, Q
  <2>4. Cardinality({r \in Q : wave.enforced /\ r.request > 0}) = Cardinality(RowsAt(A))
    BY <2>1, Zenon
  <2> QED BY <2>2, <2>3, <2>4
<1>6. Worth(Q) = <<Fair(R), Prio(R), Cardinality(R),
                   StartPools.prot + StartPools.free - Bill(R)>>
  <2> HIDE DEF Q
  <2> QED BY <1>2, <1>3, <1>4, <1>5 DEF Worth, wt, pr
<1>7. /\ Start.fair + Fair(R) = Fair(R) /\ Start.prio + Prio(R) = Prio(R)
      /\ Len(Start.sel) + Cardinality(R) = Cardinality(R)
  BY <1>1, AmountsType, <1>2 DEF Start
<1>8. Start.prot = StartPools.prot /\ Start.free = StartPools.free BY DEF Start
<1> QED BY <1>6, <1>7, <1>8 DEF Total

(* The identifiers of a wave, in admission order, are those of its rows in  *)
(* the order of their positions.                                            *)
LEMMA NamesOfRows ==
  ASSUME Placed, NEW R \in SUBSET DOMAIN rows
  PROVE  Names(RowsAt(R)) = Idents(R) /\ Listing(Start, R) = Idents(R)
<1> DEFINE Q == RowsAt(R)
           m == Cardinality(R)
           z == Sorted(R, <)
           w == [k \in 1..m |-> rows[z[k]]]
           o == Ordered(Q)
<1>1. /\ ProblemType /\ IsFiniteSet(R) /\ R \subseteq Int /\ DOMAIN rows = 1..Len(rows)
      /\ \A p, q \in R : rows[p] = rows[q] => p = q
  BY ProblemTyped, RowsDistinct, FS_Subset DEF ProblemType
<1>2. IsFiniteSet(Q) /\ Cardinality(Q) = m /\ m \in Nat
  BY <1>1, RowsDistinct, FS_CardinalityType
<1>3. (\A r \in Q : IsRow(r)) /\ (\A r, q \in Q : r.id = q.id => r = q)
  BY <1>1 DEF ProblemType, RowsAt
<1>4. Orders(Q, Earlier(Q))
  <2> HIDE DEF Q
  <2> QED BY <1>3, KeysOrder
<1>5. Enumerates(o, Q, Earlier(Q))
  <2> HIDE DEF Q
  <2> QED BY <1>2, <1>3, OrderedRows
<1>6. /\ z \in Seq(R) /\ Len(z) = m
      /\ \A a \in R : \E k \in 1..m : z[k] = a
      /\ \A j, k \in 1..m : j < k => z[j] < z[k]
  BY <1>1, SortedIntegers
<1>7. \A k \in 1..m : z[k] \in R BY <1>6, ElementOfSeq
<1> HIDE DEF z, m
<1>8. Enumerates(w, Q, Earlier(Q))
  <2>1. ASSUME NEW k \in 1..m PROVE w[k] = rows[z[k]] /\ w[k] \in Q BY <1>7 DEF RowsAt
  <2>2. w \in [1..m -> Q]
    <3> HIDE DEF Q
    <3> QED BY <2>1
  <2> HIDE DEF w
  <2>3. w \in Seq(Q) /\ Len(w) = m
    <3> HIDE DEF Q
    <3> QED BY <1>2, <2>2
  <2>4. ASSUME NEW a \in Q PROVE \E k \in 1..Len(w) : w[k] = a
    BY <1>6, <2>1, <2>3 DEF RowsAt
  <2>5. ASSUME NEW j \in 1..Len(w), NEW k \in 1..Len(w), j < k PROVE w[j] \in Earlier(Q)[w[k]]
    BY <2>3, <1>1, <1>6, <1>7, <2>5, <2>1 DEF Placed, Lists, Earlier
  <2> QED BY <1>2, <2>3, <2>4, <2>5 DEF Enumerates
<1>9. o = w
  <2> HIDE DEF Q, o, w
  <2> QED BY <1>2, <1>4, <1>5, <1>8, EnumerationUnique
<1>10. Names(Q) = Idents(R)
  <2>1. DOMAIN w = 1..m /\ \A k \in 1..m : w[k].id = rows[z[k]].id OBVIOUS
  <2>2. Names(Q) = [k \in DOMAIN w |-> w[k].id] BY <1>9 DEF Names
  <2>3. Idents(R) = [k \in 1..m |-> rows[z[k]].id] BY DEF Idents, m, z
  <2> HIDE DEF w, Q
  <2> QED BY <2>1, <2>2, <2>3
<1>11. Listing(Start, R) = Idents(R)
  <2>1. Start.ids = <<>> /\ Idents(R) \in Seq(Int) BY <1>1, IdentsType DEF Start
  <2>2. <<>> \o Idents(R) = Idents(R)
    <3> DEFINE i == Idents(R)
    <3>1. i \in Seq(Int) BY <2>1
    <3> HIDE DEF i
    <3>2. <<>> \o i = i BY <3>1
    <3> QED BY <3>2 DEF i
  <2> QED BY <2>1, <2>2 DEF Listing
<1> QED BY <1>10, <1>11

(* What a wave holds of a capacity class: its rows, and the primary action. *)
LEMMA ClassWithPrimary ==
  ASSUME ProblemType, NEW Q, IsFiniteSet(Q), wave.primary \notin Q, NEW c \in Capacities
  PROVE  /\ Cardinality({q \in Q \union {wave.primary} : CapacityClass(q) = c})
              = StartCounts[c] + Cardinality({q \in Q : CapacityClass(q) = c})
         /\ Cardinality({q \in Q : CapacityClass(q) = c}) \in Nat
<1> DEFINE A == {q \in Q : CapacityClass(q) = c}
           Z == {q \in Q \union {wave.primary} : CapacityClass(q) = c}
<1>1. IsFiniteSet(A) /\ wave.primary \notin A BY FS_Subset
<1>2. Cardinality(A) \in Nat BY <1>1, FS_CardinalityType
<1>3. CASE CapacityClass(wave.primary) = c
  <2>1. Z = A \cup {wave.primary} BY <1>3
  <2>2. StartCounts[c] = 1 BY <1>3 DEF StartCounts
  <2> HIDE DEF A, Z
  <2>3. Cardinality(A \cup {wave.primary}) = Cardinality(A) + 1 BY <1>1, FS_AddElement
  <2>4. Cardinality(Z) = Cardinality(A \cup {wave.primary}) BY <2>1, Zenon
  <2>5. Cardinality(Z) = StartCounts[c] + Cardinality(A) BY <1>2, <2>2, <2>3, <2>4
  <2> QED BY <1>2, <2>5 DEF A, Z
<1>4. CASE CapacityClass(wave.primary) # c
  <2>1. Z = A BY <1>4
  <2>2. StartCounts[c] = 0 BY <1>4 DEF StartCounts
  <2> HIDE DEF A, Z
  <2>3. Cardinality(Z) = StartCounts[c] + Cardinality(A) BY <1>2, <2>1, <2>2
  <2> QED BY <1>2, <2>3 DEF A, Z
<1> QED BY <1>3, <1>4

(* A wave that may run needs only searched rows.                            *)
LEMMA FeasibleSearched ==
  ASSUME Placed, NEW Q \in SUBSET wave.candidates, Feasible(Q)
  PROVE  /\ IsFiniteSet(Q) /\ wave.primary \notin Q
         /\ \A r \in Q : IsRow(r) /\ Searchable(r)
<1>1. ProblemType /\ IsFiniteSet(Q) /\ Cardinality(Q) \in Nat /\ \A r \in Q : IsRow(r)
  BY ProblemTyped, FS_Subset, FS_CardinalityType, WavesAssumption DEF Placed
<1> DEFINE paying == {r \in Q : wave.enforced /\ r.request > 0}
           kept == {r \in paying : Protected(r)}
           open == {r \in paying : ~Protected(r)}
           owed == MinGrant * Cardinality(kept)
<1>2. /\ Cardinality(Q) < wave.total \/ Q = {}
      /\ \A r \in Q : r.allowed /\ ~Conflict(r, wave.primary)
      /\ \A r \in Q : Cardinality({q \in Q \union {wave.primary} :
                        CapacityClass(q) = CapacityClass(r)})
                          <= wave.caps[CapacityClass(r)]
      /\ \A r \in paying : r.request >= MinGrant
      /\ MinGrant * Cardinality(open) + NonNegative(owed - StartPools.prot) <= StartPools.free
           \/ paying = {}
  BY DEF Feasible
<1>3. wave.primary \notin Q BY <1>2 DEF Conflict, Structural
<1>4. IsFiniteSet(kept) /\ IsFiniteSet(open) /\ Cardinality(kept) \in Nat /\ Cardinality(open) \in Nat
  BY <1>1, FS_Subset, FS_CardinalityType
<1>5. ASSUME NEW r \in Q PROVE Searchable(r)
  <2>1. MaxCompanions > 0
    BY <1>1, FS_EmptySet, <1>2, WavesAssumption DEF Placed, MaxCompanions
  <2>2. StartCounts[CapacityClass(r)] < wave.caps[CapacityClass(r)]
    <3> DEFINE c == CapacityClass(r)
               A == {q \in Q : CapacityClass(q) = c}
               Z == {q \in Q \union {wave.primary} : CapacityClass(q) = c}
    <3>1. c \in Capacities BY <1>1, RowType
    <3>2. IsFiniteSet(A) /\ A # {} BY <1>1, FS_Subset
    <3>3. Cardinality(Z) <= wave.caps[c] BY <1>2
    <3>4. wave.caps[c] \in Nat /\ StartCounts[c] \in Nat BY <1>1, <3>1 DEF ProblemType
    <3> HIDE DEF c
    <3>5. Cardinality(Z) = StartCounts[c] + Cardinality(A) /\ Cardinality(A) \in Nat
      BY <1>1, <1>3, <3>1, ClassWithPrimary
    <3> HIDE DEF A, Z
    <3>6. Cardinality(A) # 0 BY <3>2, FS_EmptySet
    <3>7. StartCounts[c] < wave.caps[c] BY <3>3, <3>4, <3>5, <3>6
    <3> QED BY <3>7 DEF c
  <2>3. ASSUME wave.enforced, r.request # 0
        PROVE  r.request >= MinGrant /\ Available(r, StartPools) >= MinGrant
    <3>1. r \in paying BY <1>1, <2>3 DEF IsRow
    <3>2. /\ MinGrant \in Nat /\ StartPools.prot \in Nat /\ StartPools.free \in Nat
          /\ MinGrant * Cardinality(open) + NonNegative(owed - StartPools.prot)
               <= StartPools.free
      BY <1>1, <1>2, <3>1, PositiveSizes DEF ProblemType
    <3> DEFINE x == Cardinality(open)
               y == Cardinality(kept)
    <3>3. x \in Nat /\ y \in Nat BY <1>4
    <3>4. /\ MinGrant * x + NonNegative(MinGrant * y - StartPools.prot) <= StartPools.free
      BY <3>2
    <3>5. CASE Protected(r)
      <4>1. kept # {} BY <3>1, <3>5
      <4> HIDE DEF kept
      <4>2. y # 0 BY <1>4, <4>1, FS_EmptySet
      <4> HIDE DEF x, y
      <4>3. MinGrant * x >= 0 /\ MinGrant * y >= MinGrant /\ MinGrant * x \in Nat
            /\ MinGrant * y \in Nat
        BY <3>2, <3>3, <4>2
      <4>4. StartPools.prot + StartPools.free >= MinGrant
        BY <3>2, <3>4, <4>3 DEF NonNegative
      <4> QED BY <1>2, <3>1, <3>5, <4>4 DEF Available
    <3>6. CASE ~Protected(r)
      <4>1. open # {} BY <3>1, <3>6
      <4> HIDE DEF open
      <4>2. x # 0 BY <1>4, <4>1, FS_EmptySet
      <4> HIDE DEF x, y
      <4>3. MinGrant * x >= MinGrant /\ MinGrant * x \in Nat
            /\ MinGrant * y \in Nat
        BY <3>2, <3>3, <4>2
      <4>4. StartPools.free >= MinGrant BY <3>2, <3>4, <4>3 DEF NonNegative
      <4> QED BY <1>2, <3>1, <3>6, <4>4 DEF Available
    <3> QED BY <3>5, <3>6
  <2> QED BY <1>2, <2>1, <2>2, <2>3 DEF Searchable
<1> QED BY <1>1, <1>3, <1>5

(* A wave that may run is a completion of the empty one.                    *)
LEMMA FeasibleCompletes ==
  ASSUME Placed, NEW Q \in SUBSET wave.candidates, Feasible(Q),
         NEW R, R = {p \in DOMAIN rows : rows[p] \in Q}
  PROVE  R \in SUBSET DOMAIN rows /\ Q = RowsAt(R) /\ Completion(R, Start, 1)
<1>1. /\ ProblemType /\ DOMAIN rows = 1..Len(rows)
      /\ IsFiniteSet(Q) /\ Cardinality(Q) \in Nat /\ wave.primary \notin Q
      /\ \A r \in Q : IsRow(r) /\ Searchable(r)
  BY ProblemTyped, FeasibleSearched, FS_CardinalityType DEF ProblemType
<1>2. R \in SUBSET DOMAIN rows OBVIOUS
<1>3. Q = RowsAt(R) BY <1>1 DEF RowsAt, Searched, Placed, Lists
<1>4. \A S \in SUBSET R : /\ Cardinality(RowsAt(S)) = Cardinality(S)
                          /\ IsFiniteSet(S) /\ Cardinality(S) \in Nat
  BY <1>2, <1>1, RowsDistinct, FS_Subset, FS_CardinalityType DEF ProblemType
<1>5. Cardinality(Q) = Cardinality(R) BY <1>3, <1>4
<1> DEFINE paying == {r \in Q : wave.enforced /\ r.request > 0}
           kept == {r \in paying : Protected(r)}
           open == {r \in paying : ~Protected(r)}
           owed == MinGrant * Cardinality(kept)
<1>6. /\ Cardinality(Q) < wave.total \/ Q = {}
      /\ \A r \in Q : \A q \in Q \ {r} : ~Conflict(r, q)
      /\ \A r \in Q : Cardinality({q \in Q \union {wave.primary} :
                        CapacityClass(q) = CapacityClass(r)})
                          <= wave.caps[CapacityClass(r)]
      /\ MinGrant * Cardinality(open) + NonNegative(owed - StartPools.prot) <= StartPools.free
           \/ paying = {}
  BY DEF Feasible
<1>7. /\ Start.sel = <<>> /\ Len(Start.sel) = 0 /\ Start.counts = StartCounts
      /\ Start.prot = StartPools.prot /\ Start.free = StartPools.free /\ Start.blocks = {}
  BY DEF Start
<1>8. R \subseteq 1..Len(rows) /\ R \cap Blocked(Start, 1) = {}
  BY <1>1, <1>2, <1>7 DEF Blocked
<1>9. \A p, q \in R : p # q => ~Conflict(rows[p], rows[q]) BY <1>1, <1>2, RowsDistinct, <1>6
<1>10. Len(Start.sel) + Cardinality(R) <= MaxCompanions
  BY WavesAssumption, <1>1, FS_EmptySet, <1>5, <1>7, <1>6 DEF Placed, ProblemType,
       MaxCompanions
<1>11. ASSUME NEW p \in R
       PROVE  Start.counts[CapacityClass(rows[p])]
                    + Cardinality(InClass(R, CapacityClass(rows[p])))
                      <= wave.caps[CapacityClass(rows[p])]
  <2> DEFINE c == CapacityClass(rows[p])
             A == {q \in Q : CapacityClass(q) = c}
             Z == {q \in Q \union {wave.primary} : CapacityClass(q) = c}
  <2>1. rows[p] \in Q /\ c \in Capacities BY <1>1, RowType
  <2>2. Cardinality(Z) <= wave.caps[c] BY <1>6, <2>1
  <2> HIDE DEF c
  <2>3. A = RowsAt(InClass(R, c)) /\ InClass(R, c) \in SUBSET R BY <1>3 DEF RowsAt, InClass
  <2>4. Cardinality(Z) = StartCounts[c] + Cardinality(A) BY <1>1, <2>1, ClassWithPrimary
  <2> HIDE DEF A, Z
  <2>5. Cardinality(A) = Cardinality(InClass(R, c)) BY <1>4, <2>3
  <2>6. Start.counts[c] + Cardinality(InClass(R, c)) <= wave.caps[c]
    BY <1>7, <2>2, <2>4, <2>5
  <2> QED BY <2>6 DEF c
<1>12. Bill(Unprotected(R)) = MinGrant * Cardinality(open)
       /\ Bill(Guarded(R)) = MinGrant * Cardinality(kept)
  <2> DEFINE U == {p \in Unprotected(R) : wave.enforced /\ rows[p].request > 0}
             G == {p \in Guarded(R) : wave.enforced /\ rows[p].request > 0}
  <2>1. U \in SUBSET R /\ G \in SUBSET R /\ open = RowsAt(U) /\ kept = RowsAt(G)
    BY <1>3 DEF RowsAt, Unprotected, Guarded
  <2>2. Unprotected(R) \in SUBSET DOMAIN rows /\ Guarded(R) \in SUBSET DOMAIN rows
    BY DEF Unprotected, Guarded
  <2>3. Bill(Unprotected(R)) = MinGrant * Cardinality(U)
    BY <1>1, <2>2, ChargesCount DEF Bill
  <2>4. Bill(Guarded(R)) = MinGrant * Cardinality(G) BY <1>1, <2>2, ChargesCount DEF Bill
  <2> HIDE DEF U, G, open, kept
  <2>5. Cardinality(open) = Cardinality(U) /\ Cardinality(kept) = Cardinality(G)
    BY <1>4, <2>1
  <2> QED BY <2>3, <2>4, <2>5
<1>13. Bill(Unprotected(R)) + NonNegative(Bill(Guarded(R)) - Start.prot) <= Start.free
  <2>1. CASE paying = {}
    <3>1. open = {} /\ kept = {} BY <2>1
    <3>2. Cardinality(open) = 0 /\ Cardinality(kept) = 0 BY <3>1, FS_EmptySet
    <3>3. MinGrant \in Nat /\ StartPools.prot \in Nat /\ StartPools.free \in Nat
      BY <1>1, PositiveSizes DEF ProblemType
    <3> HIDE DEF open, kept
    <3>4. Bill(Unprotected(R)) = 0 /\ Bill(Guarded(R)) = 0 BY <1>12, <3>2, <3>3
    <3> QED BY <1>7, <3>3, <3>4 DEF NonNegative
  <2>2. CASE MinGrant * Cardinality(open) + NonNegative(owed - StartPools.prot)
               <= StartPools.free
    BY <1>7, <1>12, <2>2
  <2> QED BY <1>6, <2>1, <2>2
<1> QED BY <1>2, <1>3, <1>8, <1>9, <1>10, <1>11, <1>13 DEF Completion

(* What completes the empty wave to one that holds a partial wave, completes *)
(* the partial wave, to the same worth.                                     *)
LEMMA CompletionExtends ==
  ASSUME Placed, NEW s, NEW n, Ready(s, n), NEW R \in SUBSET (n..Len(rows)),
         Completion(Range(s.sel) \cup R, Start, 1)
  PROVE  Completion(R, s, n) /\ Total(s, R) = Total(Start, Range(s.sel) \cup R)
<1> DEFINE A == Range(s.sel)
           V == A \cup R
<1>1. /\ ProblemType /\ A \in SUBSET DOMAIN rows /\ Cardinality(A) = Len(s.sel)
      /\ R \in SUBSET DOMAIN rows
      /\ s.prot \in Nat /\ s.free \in Nat /\ Len(s.sel) \in Nat
      /\ s.counts \in [Capacities -> Nat]
      /\ s.prot + s.free + Bill(A) = StartPools.prot + StartPools.free
      /\ n \in Nat \ {0} /\ Len(rows) \in Nat
  BY ReadyType
<1>2. A \cap R = {} /\ \A p \in A : p < n
  <2>1. \A p \in A : p < n BY DEF Ready
  <2>2. \A p \in A : p \in 1..Len(rows) BY <1>1 DEF ProblemType
  <2>3. \A p \in R : p \in n..Len(rows) OBVIOUS
  <2> HIDE DEF A
  <2> QED BY <1>1, <2>1, <2>2, <2>3
<1>3. /\ s.fair = Fair(A) /\ s.prio = Prio(A)
      /\ s.blocks = UNION {Blocks(p) : p \in A}
      /\ s.free = StartPools.free - Bill(Unprotected(A))
                    - NonNegative(Bill(Guarded(A)) - StartPools.prot)
  BY DEF Ready, Exact
<1>4. /\ Start.fair = 0 /\ Start.prio = 0 /\ Len(Start.sel) = 0 /\ Start.counts = StartCounts
      /\ Start.prot = StartPools.prot /\ Start.free = StartPools.free
      /\ StartPools.prot \in Nat /\ StartPools.free \in Nat
  BY <1>1 DEF Start, ProblemType
<1>5. \A c \in Capacities : s.counts[c] = StartCounts[c] + Cardinality(InClass(A, c))
  BY DEF Ready, Sound, Counted
<1> HIDE DEF A
<1>6. /\ Fair(V) = Fair(A) + Fair(R)
      /\ Prio(V) = Prio(A) + Prio(R)
      /\ Bill(V) = Bill(A) + Bill(R)
      /\ Cardinality(V) = Cardinality(A) + Cardinality(R)
      /\ Bill(Unprotected(V)) = Bill(Unprotected(A)) + Bill(Unprotected(R))
      /\ Bill(Guarded(V)) = Bill(Guarded(A)) + Bill(Guarded(R))
      /\ \A c : Cardinality(InClass(V, c))
                  = Cardinality(InClass(A, c)) + Cardinality(InClass(R, c))
  BY <1>1, <1>2, AmountsUnion
<1>7. /\ Cardinality(R) \in Nat /\ Fair(R) \in Nat /\ Prio(R) \in Nat /\ Bill(R) \in Nat
      /\ Bill(Unprotected(R)) \in Nat /\ Bill(Guarded(R)) \in Nat
      /\ Bill(R) = Bill(Unprotected(R)) + Bill(Guarded(R))
      /\ \A c : Cardinality(InClass(R, c)) \in Nat
  BY <1>1, AmountsType
<1>8. /\ Cardinality(A) \in Nat /\ Fair(A) \in Nat /\ Prio(A) \in Nat /\ Bill(A) \in Nat
      /\ Bill(Unprotected(A)) \in Nat /\ Bill(Guarded(A)) \in Nat
      /\ Bill(A) = Bill(Unprotected(A)) + Bill(Guarded(A))
      /\ \A c : Cardinality(InClass(A, c)) \in Nat
  BY <1>1, AmountsType
<1>9. Completion(V, Start, 1) BY DEF A
<1> HIDE DEF V
<1>10. /\ \A p, q \in V : p # q => ~Conflict(rows[p], rows[q])
       /\ Len(Start.sel) + Cardinality(V) <= MaxCompanions
       /\ \A p \in V : Start.counts[CapacityClass(rows[p])]
                    + Cardinality(InClass(V, CapacityClass(rows[p])))
                      <= wave.caps[CapacityClass(rows[p])]
       /\ Bill(Unprotected(V)) + NonNegative(Bill(Guarded(V)) - Start.prot) <= Start.free
  BY <1>9 DEF Completion
<1>11. R \cap Blocked(s, n) = {}
  BY <1>3, <1>2, <1>1, <1>10, BlocksConflict DEF Blocked, V, Blocks
<1>12. Len(s.sel) + Cardinality(R) <= MaxCompanions BY <1>1, <1>4, <1>6, <1>7, <1>10
<1>13. ASSUME NEW p \in R
       PROVE  s.counts[CapacityClass(rows[p])]
                    + Cardinality(InClass(R, CapacityClass(rows[p])))
                      <= wave.caps[CapacityClass(rows[p])]
  <2> DEFINE c == CapacityClass(rows[p])
  <2>1. c \in Capacities BY <1>1, RowAmounts
  <2>2. p \in V BY DEF V
  <2>3. StartCounts[c] + Cardinality(InClass(V, c)) <= wave.caps[c] BY <1>4, <1>10, <2>2
  <2> HIDE DEF c
  <2>4. /\ s.counts[c] = StartCounts[c] + Cardinality(InClass(A, c))
        /\ Cardinality(InClass(V, c)) = Cardinality(InClass(A, c)) + Cardinality(InClass(R, c))
        /\ Cardinality(InClass(A, c)) \in Nat /\ Cardinality(InClass(R, c)) \in Nat
        /\ StartCounts[c] \in Nat /\ wave.caps[c] \in Nat
    BY <1>1, <1>5, <1>6, <1>7, <1>8, <2>1 DEF ProblemType
  <2>5. s.counts[c] + Cardinality(InClass(R, c)) <= wave.caps[c] BY ONLY <2>3, <2>4
  <2> QED BY <2>5 DEF c
<1>14. Bill(Unprotected(R)) + NonNegative(Bill(Guarded(R)) - s.prot) <= s.free
  <2> DEFINE UA == Bill(Unprotected(A))
             GA == Bill(Guarded(A))
             UR == Bill(Unprotected(R))
             GR == Bill(Guarded(R))
             SP == StartPools.prot
             SF == StartPools.free
             p == s.prot
             f == s.free
  <2>1. /\ UA \in Nat /\ GA \in Nat /\ UR \in Nat /\ GR \in Nat /\ SP \in Nat /\ SF \in Nat
        /\ p \in Nat /\ f \in Nat
    BY <1>1, <1>4, <1>7, <1>8
  <2>2. /\ f = SF - UA - NonNegative(GA - SP)
        /\ p + f + (UA + GA) = SP + SF
    BY <1>1, <1>3, <1>8
  <2>3. (UA + UR) + NonNegative((GA + GR) - SP) <= SF BY <1>4, <1>6, <1>10
  <2> HIDE DEF UA, GA, UR, GR, SP, SF, p, f
  <2>4. UR + NonNegative(GR - p) <= f BY ONLY <2>1, <2>2, <2>3 DEF NonNegative
  <2> QED BY <2>4 DEF UR, GR, p, f
<1>15. Total(s, R) = Total(Start, V)
  <2>1. /\ s.fair + Fair(R) = Start.fair + Fair(V)
        /\ s.prio + Prio(R) = Start.prio + Prio(V)
        /\ Len(s.sel) + Cardinality(R) = Len(Start.sel) + Cardinality(V)
    <3>1. /\ Fair(A) \in Nat /\ Fair(R) \in Nat /\ Prio(A) \in Nat /\ Prio(R) \in Nat
          /\ Cardinality(A) \in Nat /\ Cardinality(R) \in Nat
          /\ Start.fair = 0 /\ Start.prio = 0 /\ Len(Start.sel) = 0
          /\ s.fair = Fair(A) /\ s.prio = Prio(A) /\ Cardinality(A) = Len(s.sel)
          /\ Fair(V) = Fair(A) + Fair(R) /\ Prio(V) = Prio(A) + Prio(R)
          /\ Cardinality(V) = Cardinality(A) + Cardinality(R)
      BY <1>1, <1>3, <1>4, <1>6, <1>7, <1>8, Zenon
    <3> QED BY ONLY <3>1
  <2>2. s.prot + s.free - Bill(R) = Start.prot + Start.free - Bill(V)
    <3>1. /\ Bill(A) \in Nat /\ Bill(R) \in Nat /\ s.prot \in Nat /\ s.free \in Nat
          /\ s.prot + s.free + Bill(A) = StartPools.prot + StartPools.free
          /\ StartPools.prot \in Nat /\ StartPools.free \in Nat
          /\ Start.prot = StartPools.prot /\ Start.free = StartPools.free
          /\ Bill(V) = Bill(A) + Bill(R)
      BY <1>1, <1>4, <1>6, <1>7, <1>8, Zenon
    <3> DEFINE a == Bill(A)
               b == Bill(R)
               p == s.prot
               f == s.free
               P == StartPools.prot
               F == StartPools.free
    <3>2. /\ a \in Nat /\ b \in Nat /\ p \in Nat /\ f \in Nat /\ P \in Nat /\ F \in Nat
          /\ p + f + a = P + F
      BY <3>1, Zenon
    <3>3. Start.prot = P /\ Start.free = F /\ Bill(V) = a + b BY <3>1, Zenon
    <3> HIDE DEF a, b, p, f, P, F
    <3>4. p + f - b = P + F - (a + b) BY ONLY <3>2
    <3>5. s.prot + s.free - Bill(R) = StartPools.prot + StartPools.free - (a + b)
      BY <3>4 DEF b, p, f, P, F
    <3> QED BY <3>3, <3>5 DEF P, F
  <2> QED BY <2>1, <2>2 DEF Total
<1> QED BY <1>11, <1>12, <1>13, <1>14, <1>15, <1>10 DEF Completion, V, A

(* What a partial wave keeps is the objective of its rows, and their        *)
(* identifiers.                                                             *)
LEMMA ExactWorth ==
  ASSUME Placed, NEW s, Sound(s), Exact(s)
  PROVE  /\ Worth(RowsAt(Range(s.sel))) = Score(s)
         /\ Names(RowsAt(Range(s.sel))) = s.ids
<1> DEFINE A == Range(s.sel)
<1>1. /\ ProblemType /\ A \in SUBSET DOMAIN rows /\ Cardinality(A) = Len(s.sel)
      /\ s.sel \in Seq(DOMAIN rows)
      /\ s.prot + s.free + Bill(A) = StartPools.prot + StartPools.free
      /\ s.prot \in Nat /\ s.free \in Nat
      /\ s.ids = [k \in 1..Len(s.sel) |-> rows[s.sel[k]].id]
  BY ProblemTyped, SelType DEF Sound, Counted, Paid, Shaped, Bill
<1>2. s.fair = Fair(A) /\ s.prio = Prio(A) /\ Rising(s.sel) BY DEF Exact
<1>3. A = {s.sel[k] : k \in 1..Len(s.sel)} BY <1>1, RangeOf
<1> HIDE DEF A
<1>4. Worth(RowsAt(A)) = Total(Start, A) /\ Names(RowsAt(A)) = Idents(A)
  BY <1>1, WorthOfRows, NamesOfRows
<1>5. Total(Start, A) = Score(s)
  <2>1. /\ Start.fair = 0 /\ Start.prio = 0 /\ Len(Start.sel) = 0
        /\ Start.prot = StartPools.prot /\ Start.free = StartPools.free
        /\ StartPools.prot \in Nat /\ StartPools.free \in Nat
    BY <1>1 DEF Start, ProblemType
  <2>2. Fair(A) \in Nat /\ Prio(A) \in Nat /\ Bill(A) \in Nat /\ Cardinality(A) \in Nat
    BY <1>1, AmountsType
  <2>3. /\ Start.fair + Fair(A) = s.fair /\ Start.prio + Prio(A) = s.prio
        /\ Len(Start.sel) + Cardinality(A) = Len(s.sel)
    BY <1>1, <1>2, <2>1, <2>2
  <2>4. Start.prot + Start.free - Bill(A) = s.prot + s.free
    <3>1. /\ Bill(A) \in Nat /\ s.prot \in Nat /\ s.free \in Nat
          /\ s.prot + s.free + Bill(A) = StartPools.prot + StartPools.free
          /\ StartPools.prot \in Nat /\ StartPools.free \in Nat
          /\ Start.prot = StartPools.prot /\ Start.free = StartPools.free
      BY <1>1, <2>1, <2>2, Zenon
    <3> QED BY ONLY <3>1
  <2> QED BY <2>3, <2>4 DEF Total, Score
<1>6. Idents(A) = s.ids
  <2>1. IsFiniteSet(A) /\ A \subseteq Int BY <1>1, FS_Subset DEF ProblemType
  <2>2. s.sel \in Seq(A) BY <1>3, <1>1
  <2>3. /\ \A a \in A : \E k \in 1..Len(s.sel) : s.sel[k] = a
        /\ \A j, k \in 1..Len(s.sel) : j < k => s.sel[j] < s.sel[k]
    BY <1>2, <1>3 DEF Rising
  <2>4. s.sel = Sorted(A, <)
    <3> DEFINE q == s.sel
    <3> HIDE DEF q
    <3>1. /\ q \in Seq(A) /\ Len(q) = Cardinality(A)
          /\ \A a \in A : \E k \in 1..Len(q) : q[k] = a
          /\ \A j, k \in 1..Len(q) : j < k => q[j] < q[k]
      BY <1>1, <2>2, <2>3 DEF q
    <3>2. q = Sorted(A, <) BY <2>1, <3>1, SortedUnique
    <3> QED BY <3>2 DEF q
  <2> QED BY <1>1, <2>4 DEF Idents
<1> QED BY <1>4, <1>5, <1>6 DEF A

-----------------------------------------------------------------------------

(* The optimistic bounds. *)

\* How often one number goes into another.
LEMMA GoesInto ==
  ASSUME NEW g \in Nat \ {0}, NEW k \in Nat, NEW x \in Nat, g * k <= x
  PROVE  k <= x \div g
<1> DEFINE d == x \div g
           m == x % g
<1>1. d \in Int /\ m \in 0..(g - 1) /\ x = g * d + m OBVIOUS
<1> HIDE DEF d, m
<1>2. SUFFICES ASSUME d < k PROVE FALSE BY <1>1 DEF d
<1>3. d + 1 <= k BY <1>1, <1>2
<1>4. g * (d + 1) <= g * k BY <1>1, <1>3
<1>5. g * (d + 1) = g * d + g BY <1>1
<1> QED BY <1>1, <1>4, <1>5

\* The members of a sequence with one more.
LEMMA AppendParts ==
  ASSUME NEW m \in Seq(Int), NEW k \in Int
  PROVE  /\ \A i \in 1..Len(m) : Append(m, k)[i] = m[i]
         /\ Append(m, k)[Len(m) + 1] = k
  OBVIOUS

\* The same for three and one.
LEMMA TriplePart ==
  ASSUME NEW m \in Seq(Int), Len(m) = 3, NEW k \in Int
  PROVE  /\ Append(m, k)[1] = m[1] /\ Append(m, k)[2] = m[2] /\ Append(m, k)[3] = m[3]
         /\ Append(m, k)[4] = k
<1>1. \A i \in 1..Len(m) : Append(m, k)[i] = m[i] BY AppendParts, Zenon
<1>2. Append(m, k)[Len(m) + 1] = k BY AppendParts, Zenon
<1>3. Len(m) + 1 = 4 /\ 1 \in 1..Len(m) /\ 2 \in 1..Len(m) /\ 3 \in 1..Len(m) OBVIOUS
<1>4. Append(m, k)[4] = k BY <1>2, <1>3, Zenon
<1> QED BY <1>1, <1>3, <1>4, Zenon

\* The gain of a set of rows, by its sums.
LEMMA GainOfRows ==
  ASSUME ProblemType, NEW R \in SUBSET DOMAIN rows
  PROVE  Gain(R) = <<Fair(R), Prio(R), Cardinality(R)>>
<1> DEFINE f == [p \in R |-> Weight(rows[p])]
           g == [p \in R |-> Priority(rows[p])]
<1>1. IsFiniteSet(R) /\ DOMAIN f = R /\ DOMAIN g = R BY FS_Subset DEF ProblemType
<1>2. \A p \in R : /\ Weights[p] \in Int /\ f[p] = Weights[p]
                   /\ Priorities[p] \in Int /\ g[p] = Priorities[p]
  BY RowAmounts
<1>3. Gain(R) = <<SumFunction(f), SumFunction(g), Cardinality(R)>> BY DEF Gain
<1> HIDE DEF f, g
<1>4. SumFunctionOnSet(f, R) = Fair(R) /\ SumFunctionOnSet(g, R) = Prio(R)
  BY <1>1, <1>2, SumAgree DEF Fair, Prio
<1> QED BY <1>1, <1>3, <1>4 DEF SumFunction

\* What the same is added to compares as before.
LEMMA PlusMonotone ==
  ASSUME NEW a \in Tuples(4), NEW b \in Tuples(4), NEW c \in Tuples(4), LexAtMost(b, c)
  PROVE  LexAtMost(Plus(a, b), Plus(a, c))
<1> DEFINE x == Plus(a, b)
           y == Plus(a, c)
<1>1. x \in Tuples(4) /\ y \in Tuples(4) BY PlusType
<1>2. /\ x[1] = a[1] + b[1] /\ x[2] = a[2] + b[2] /\ x[3] = a[3] + b[3] /\ x[4] = a[4] + b[4]
      /\ y[1] = a[1] + c[1] /\ y[2] = a[2] + c[2] /\ y[3] = a[3] + c[3] /\ y[4] = a[4] + c[4]
  BY PlusType
<1>3. /\ a[1] \in Int /\ a[2] \in Int /\ a[3] \in Int /\ a[4] \in Int
      /\ b[1] \in Int /\ b[2] \in Int /\ b[3] \in Int /\ b[4] \in Int
      /\ c[1] \in Int /\ c[2] \in Int /\ c[3] \in Int /\ c[4] \in Int
  <2>1. \A d \in Tuples(4) : d \in Seq(Int) /\ Len(d) = 4 BY DEF Tuples
  <2>2. \A d \in Tuples(4) : d[1] \in Int /\ d[2] \in Int /\ d[3] \in Int /\ d[4] \in Int
    BY <2>1, IntegerMembers
  <2> QED BY <2>2
<1>4. \/ b[1] < c[1]
      \/ b[1] = c[1] /\ b[2] < c[2]
      \/ b[1] = c[1] /\ b[2] = c[2] /\ b[3] < c[3]
      \/ b[1] = c[1] /\ b[2] = c[2] /\ b[3] = c[3] /\ b[4] <= c[4]
  BY LexFour
<1> HIDE DEF x, y
<1>5. \/ x[1] < y[1]
      \/ x[1] = y[1] /\ x[2] < y[2]
      \/ x[1] = y[1] /\ x[2] = y[2] /\ x[3] < y[3]
      \/ x[1] = y[1] /\ x[2] = y[2] /\ x[3] = y[3] /\ x[4] <= y[4]
  BY ONLY <1>2, <1>3, <1>4
<1>6. LexAtMost(x, y) BY <1>1, <1>5, LexFour
<1> QED BY <1>6 DEF x, y

\* The rows of a completion exclude none of those admitted.
LEMMA CompletionFree ==
  ASSUME Placed, NEW s, NEW n, Ready(s, n), NEW R, Completion(R, s, n),
         NEW p \in R, NEW q \in Range(s.sel)
  PROVE  ~Conflict(rows[p], rows[q]) /\ p # q /\ q \in DOMAIN rows /\ p \in DOMAIN rows
<1>1. /\ ProblemType /\ q \in DOMAIN rows /\ p \in DOMAIN rows /\ p \in n..Len(rows)
      /\ n \in Nat
  BY ReadyType DEF Completion
<1>2. q < n /\ DOMAIN rows = 1..Len(rows) /\ Len(rows) \in Nat
  BY <1>1 DEF Ready, ProblemType
<1>3. p \in (q + 1)..Len(rows) /\ p # q /\ p >= n BY <1>1, <1>2
<1>4. p \notin s.blocks BY <1>3 DEF Completion, Blocked
<1>5. p \notin Blocks(q) BY <1>4 DEF Ready, Exact
<1>6. ~Conflict(rows[q], rows[p]) BY <1>1, <1>3, <1>5, BlocksConflict
<1> QED BY <1>1, <1>3, <1>6, ConflictSymmetric

\* Verification and integration never run together.
LEMMA CertificationAlone ==
  ASSUME Placed, NEW s, NEW n, Ready(s, n), NEW R, Completion(R, s, n)
  PROVE  \E f \in Forbidden(s) : InClass(R, f) = {}
<1>1. /\ ProblemType /\ R \in SUBSET DOMAIN rows /\ Range(s.sel) \in SUBSET DOMAIN rows
      /\ s.counts \in [Capacities -> Nat]
  BY ReadyType, CompletionType
<1>2. \A a, b : {a.class, b.class} = Certification => Conflict(a, b)
  BY DEF Conflict, Ownership
<1>3. \A r : /\ CapacityClass(r) = "verification" <=> r.class = "verification"
             /\ CapacityClass(r) = "integration" <=> r.class = "integration"
  BY DEF CapacityClass, Discovery
<1>4. \A p \in R : ~Conflict(rows[p], wave.primary) BY <1>1 DEF ProblemType, Searchable
<1>5. ASSUME NEW c \in Certification, NEW d \in Certification, c # d, s.counts[c] > 0
      PROVE  InClass(R, d) = {}
  <2> SUFFICES ASSUME NEW p \in InClass(R, d) PROVE FALSE OBVIOUS
  <2>1. p \in R /\ rows[p].class = d BY <1>3 DEF InClass, Certification
  <2>2. \A r : r.class = c => {rows[p].class, r.class} = Certification
    BY <1>5, <2>1 DEF Certification
  <2>3. c \in Capacities BY DEF Capacities
  <2>4. s.counts[c] = StartCounts[c] + Cardinality(InClass(Range(s.sel), c))
    BY <2>3 DEF Ready, Sound, Counted
  <2>5. CASE InClass(Range(s.sel), c) # {}
    BY <2>5, <1>3, <2>1, CompletionFree, <1>2, <2>2 DEF InClass, Certification
  <2>6. CASE InClass(Range(s.sel), c) = {}
    BY <2>6, FS_EmptySet, <1>1, <2>3, <1>5, <2>4, <1>3, <1>2, <1>4, <2>1, <2>2 DEF
         ProblemType, StartCounts, Certification
  <2> QED BY <2>5, <2>6
<1>6. CASE s.counts["verification"] > 0 BY <1>5, <1>6 DEF Certification, Forbidden
<1>7. CASE ~(s.counts["verification"] > 0) /\ s.counts["integration"] > 0
  BY <1>5, <1>7 DEF Certification, Forbidden
<1>8. CASE ~(s.counts["verification"] > 0) /\ ~(s.counts["integration"] > 0)
  <2>1. Forbidden(s) = Certification BY <1>8 DEF Forbidden
  <2>2. CASE InClass(R, "verification") = {} BY <2>1, <2>2 DEF Certification
  <2>3. CASE InClass(R, "verification") # {}
    <3>1. PICK p \in R : rows[p].class = "verification" BY <2>3, <1>3 DEF InClass
    <3>2. ASSUME NEW q \in InClass(R, "integration") PROVE FALSE
      <4>1. q \in R /\ rows[q].class = "integration" BY <1>3 DEF InClass
      <4>2. Conflict(rows[p], rows[q]) /\ p # q BY <1>2, <3>1, <4>1 DEF Certification
      <4> QED BY <3>1, <4>1, <4>2 DEF Completion
    <3> QED BY <2>1, <3>2 DEF Certification
  <2> QED BY <2>2, <2>3
<1> QED BY <1>6, <1>7, <1>8

\* A completion fits the slots and the capacities that are left.
LEMMA CompletionFits ==
  ASSUME Placed, NEW s, NEW n, Ready(s, n), NEW R, Completion(R, s, n)
  PROVE  /\ Slots(s) \in Nat /\ Cardinality(R) <= Slots(s)
         /\ \A c \in Capacities : \A f : Room(s, c, f) \in Nat
         /\ \E f \in Forbidden(s) : \A c \in Capacities :
              Cardinality(InClass(R, c)) <= Room(s, c, f)
<1>1. /\ ProblemType /\ R \in SUBSET DOMAIN rows /\ Cardinality(R) \in Nat
      /\ s.counts \in [Capacities -> Nat] /\ wave.caps \in [Capacities -> Nat]
      /\ MaxCompanions \in Nat /\ Len(s.sel) \in Nat
  BY ReadyType, CompletionType
<1>2. Slots(s) \in Nat /\ Cardinality(R) <= Slots(s) BY <1>1 DEF Completion, Slots
<1>3. ASSUME NEW c \in Capacities, NEW f PROVE Room(s, c, f) \in Nat
  BY <1>1 DEF Room, NonNegative
<1>4. PICK f \in Forbidden(s) : InClass(R, f) = {} BY CertificationAlone
<1>5. ASSUME NEW c \in Capacities PROVE Cardinality(InClass(R, c)) <= Room(s, c, f)
  <2>1. CASE InClass(R, c) = {} BY <2>1, FS_EmptySet, <1>3
  <2>2. CASE InClass(R, c) # {}
    <3>1. PICK p \in R : CapacityClass(rows[p]) = c BY <2>2 DEF InClass
    <3>2. s.counts[c] + Cardinality(InClass(R, c)) <= wave.caps[c] BY <3>1 DEF Completion
    <3>3. c # f BY <1>4, <2>2
    <3>4. wave.caps[c] \in Nat /\ s.counts[c] \in Nat /\ Cardinality(InClass(R, c)) \in Nat
      BY <1>1, AmountsType
    <3> QED BY <3>2, <3>3, <3>4 DEF Room, NonNegative
  <2> QED BY <2>1, <2>2
<1> QED BY <1>2, <1>3, <1>5

\* It can be paid for from the two pools.
LEMMA CompletionPaid ==
  ASSUME Placed, NEW s, NEW n, Ready(s, n), NEW R, Completion(R, s, n),
         NEW A, A = {p \in R : Charge(rows[p]) > 0},
         NEW B, B = {p \in A : ~Protected(rows[p])}
  PROVE  /\ MinGrant * Cardinality(A) = Bill(R) /\ Cardinality(A) \in Nat
         /\ Cardinality(A) <= (s.prot + s.free) \div MinGrant
         /\ Cardinality(B) <= s.free \div MinGrant
<1>1. /\ ProblemType /\ R \in SUBSET DOMAIN rows /\ IsFiniteSet(R)
      /\ s.prot \in Nat /\ s.free \in Nat
      /\ Bill(R) \in Nat /\ Bill(Unprotected(R)) \in Nat /\ Bill(Guarded(R)) \in Nat
      /\ Bill(R) = Bill(Unprotected(R)) + Bill(Guarded(R))
  BY ReadyType, CompletionType, AmountsType
<1>2. MinGrant \in Nat \ {0} BY PositiveSizes
<1>3. \A p \in R : Charge(rows[p]) > 0 <=> wave.enforced /\ rows[p].request > 0
  BY <1>2 DEF Charge
<1>4. A = {p \in R : wave.enforced /\ rows[p].request > 0} BY <1>3
<1>5. B = {p \in Unprotected(R) : wave.enforced /\ rows[p].request > 0}
  BY <1>3 DEF Unprotected
<1>6. IsFiniteSet(A) /\ IsFiniteSet(B) /\ Unprotected(R) \in SUBSET DOMAIN rows
  BY <1>1, FS_Subset DEF Unprotected
<1>7. Cardinality(A) \in Nat /\ Cardinality(B) \in Nat BY <1>6, FS_CardinalityType
<1>8. MinGrant * Cardinality(A) = Bill(R) BY <1>1, <1>4, ChargesCount DEF Bill
<1>9. MinGrant * Cardinality(B) = Bill(Unprotected(R))
  BY <1>1, <1>5, <1>6, ChargesCount DEF Bill
<1>10. Bill(R) <= s.prot + s.free /\ Bill(Unprotected(R)) <= s.free
  <2>1. Bill(Unprotected(R)) + NonNegative(Bill(Guarded(R)) - s.prot) <= s.free
    BY DEF Completion
  <2> DEFINE u == Bill(Unprotected(R))
             g == Bill(Guarded(R))
  <2>2. u \in Nat /\ g \in Nat /\ Bill(R) = u + g /\ u + NonNegative(g - s.prot) <= s.free
        /\ s.prot \in Nat /\ s.free \in Nat
    BY <1>1, <2>1
  <2> HIDE DEF u, g
  <2>3. u + g <= s.prot + s.free /\ u <= s.free BY ONLY <2>2 DEF NonNegative
  <2> QED BY <2>2, <2>3 DEF u
<1>11. Cardinality(A) <= (s.prot + s.free) \div MinGrant
  BY <1>1, <1>8, <1>10, <1>2, <1>7, GoesInto
<1>12. Cardinality(B) <= s.free \div MinGrant BY <1>1, <1>2, <1>7, <1>9, <1>10, GoesInto
<1> QED BY <1>7, <1>8, <1>11, <1>12

\* The score a completion reaches, from what its rows add.
LEMMA TotalOfParts ==
  ASSUME Placed, NEW s, NEW n, Ready(s, n), NEW R, Completion(R, s, n),
         NEW e \in Tuples(4),
         e[1] = Fair(R), e[2] = Prio(R), e[3] = Cardinality(R), e[4] = -Bill(R)
  PROVE  Plus(Score(s), e) = Total(s, R)
<1>0. /\ Score(s) \in Tuples(4)
      /\ s.fair \in Nat /\ s.prio \in Nat /\ Len(s.sel) \in Nat
      /\ s.prot \in Nat /\ s.free \in Nat
  BY ProblemTyped, ScoreType, ReadyType DEF Ready
<1>12. Bill(R) \in Nat /\ Total(s, R) \in Tuples(4) BY CompletionType
<1>1. Plus(Score(s), e) \in Tuples(4) BY <1>0, PlusType
<1>2. \A i \in 1..4 : Plus(Score(s), e)[i] = Score(s)[i] + e[i] BY <1>0, PlusType
<1>3. /\ Score(s)[1] = s.fair /\ Score(s)[2] = s.prio /\ Score(s)[3] = Len(s.sel)
      /\ Score(s)[4] = s.prot + s.free
  BY DEF Score
<1>4. e[1] = Fair(R) /\ e[2] = Prio(R) /\ e[3] = Cardinality(R) /\ e[4] = -Bill(R) OBVIOUS
<1>5. /\ Total(s, R)[1] = s.fair + Fair(R) /\ Total(s, R)[2] = s.prio + Prio(R)
      /\ Total(s, R)[3] = Len(s.sel) + Cardinality(R)
      /\ Total(s, R)[4] = s.prot + s.free - Bill(R)
  BY DEF Total
<1>6. (s.prot + s.free) + -Bill(R) = s.prot + s.free - Bill(R) BY <1>0, <1>12
<1>7. \A i \in {1, 2, 3, 4} : Plus(Score(s), e)[i] = Total(s, R)[i]
  BY <1>2, <1>3, <1>4, <1>5, <1>6
<1>8. 1..4 = {1, 2, 3, 4} OBVIOUS
<1> DEFINE x == Plus(Score(s), e)
           y == Total(s, R)
<1>9. x \in Seq(Int) /\ y \in Seq(Int) /\ Len(x) = 4 /\ Len(y) = 4 BY <1>12, <1>1 DEF Tuples
<1>10. \A i \in 1..Len(x) : x[i] = y[i] BY <1>7, <1>8, <1>9
<1> HIDE DEF x, y
<1>11. x = y BY <1>9, <1>10, SeqEqual
<1> QED BY <1>11 DEF x, y

(* No completion is worth more than the capacities and the pools allow.     *)
LEMMA ResourceAdmits ==
  ASSUME Placed, NEW s, NEW n, Ready(s, n), NEW R, Completion(R, s, n)
  PROVE  LexAtMost(Total(s, R), ResourceBound(s, n))
<1>0. /\ ProblemType /\ Score(s) \in Tuples(4) /\ n \in Nat \ {0}
      /\ (n..Len(rows)) \in SUBSET DOMAIN rows
      /\ s.fair \in Nat /\ s.prio \in Nat /\ Len(s.sel) \in Nat
      /\ s.prot \in Nat /\ s.free \in Nat
  BY ProblemTyped, ScoreType, ReadyType DEF Ready
<1> DEFINE Paying(Q) == {p \in Q : Charge(rows[p]) > 0}
           Shared(Q) == {p \in Paying(Q) : ~Protected(rows[p])}
           Fit(Q, forbidden) ==
             /\ Cardinality(Q) <= Slots(s)
             /\ \A c \in Capacities :
                  Cardinality({p \in Q : CapacityClass(rows[p]) = c})
                    <= Room(s, c, forbidden)
             /\ Cardinality(Paying(Q)) <= (s.prot + s.free) \div MinGrant
             /\ Cardinality(Shared(Q)) <= s.free \div MinGrant
           Y == {Q \in SUBSET Eligible(n) : \E f \in Forbidden(s) : Fit(Q, f)}
           g == [Q \in Y |-> Append(Gain(Q), -(MinGrant * Cardinality(Paying(Q))))]
           S == {g[x] : x \in Y}
<1>1. ResourceBound(s, n) = Plus(Score(s), LexMax(S))
  <2>1. S = {Append(Gain(Q), -(MinGrant * Cardinality(Paying(Q)))) : Q \in Y} OBVIOUS
  <2> HIDE DEF S
  <2> QED BY <2>1 DEF ResourceBound
<1>2. Eligible(n) \in SUBSET DOMAIN rows /\ IsFiniteSet(Eligible(n))
  BY <1>0, FS_Subset DEF ProblemType, Eligible
<1>3. IsFiniteSet(SUBSET Eligible(n)) /\ Y \in SUBSET SUBSET Eligible(n) BY <1>2, FS_SUBSET
<1>4. IsFiniteSet(Y) BY <1>3, FS_Subset
<1>5. IsFiniteSet(S)
  <2> HIDE DEF Y, g
  <2> QED BY <1>4, ImageFinite
<1>6. S \subseteq Tuples(4)
  <2> SUFFICES ASSUME NEW Q \in Y PROVE g[Q] \in Tuples(4) OBVIOUS
  <2>1. Q \in SUBSET DOMAIN rows BY <1>2
  <2>2. Gain(Q) \in Tuples(3) BY <1>0, <2>1, GainType
  <2>3. Cardinality(Paying(Q)) \in Nat
    BY <2>1, <1>0, FS_Subset, FS_CardinalityType DEF ProblemType
  <2>4. -(MinGrant * Cardinality(Paying(Q))) \in Int BY <2>3, PositiveSizes
  <2>5. g[Q] = Append(Gain(Q), -(MinGrant * Cardinality(Paying(Q)))) OBVIOUS
  <2> HIDE DEF g, Paying, Y
  <2> QED BY <2>2, <2>4, <2>5, TupleAppend
<1>7. R \in Y
  <2>1. R \in SUBSET Eligible(n) BY DEF Completion, Eligible
  <2>2. /\ Cardinality(R) <= Slots(s)
        /\ \E f \in Forbidden(s) : \A c \in Capacities :
              Cardinality(InClass(R, c)) <= Room(s, c, f)
    BY CompletionFits
  <2>3. /\ Cardinality(Paying(R)) <= (s.prot + s.free) \div MinGrant
        /\ Cardinality(Shared(R)) <= s.free \div MinGrant
    <3> DEFINE A == Paying(R)
               B == Shared(R)
    <3>1. A = {p \in R : Charge(rows[p]) > 0} /\ B = {p \in A : ~Protected(rows[p])} OBVIOUS
    <3> HIDE DEF A, B
    <3>2. /\ Cardinality(A) <= (s.prot + s.free) \div MinGrant
          /\ Cardinality(B) <= s.free \div MinGrant
      BY <3>1, CompletionPaid
    <3> QED BY <3>2 DEF A, B
  <2> HIDE DEF Paying, Shared
  <2> QED BY <2>1, <2>2, <2>3 DEF InClass
<1> DEFINE e == Append(Gain(R), -(MinGrant * Cardinality(Paying(R))))
<1>8. e \in S
  <2>1. e = g[R] BY <1>7
  <2> HIDE DEF Y, g, e
  <2> QED BY <1>7, <2>1
<1>9. MinGrant * Cardinality(Paying(R)) = Bill(R)
  <2> DEFINE A == Paying(R)
             B == Shared(R)
  <2>1. A = {p \in R : Charge(rows[p]) > 0} /\ B = {p \in A : ~Protected(rows[p])} OBVIOUS
  <2> HIDE DEF A, B
  <2>2. MinGrant * Cardinality(A) = Bill(R) BY <2>1, CompletionPaid
  <2> QED BY <2>2 DEF A
<1> HIDE DEF Paying, S
<1>10. e \in Tuples(4) /\ LexMax(S) \in Tuples(4) /\ LexAtMost(e, LexMax(S))
  <2>1. S \subseteq Seq(Int) /\ S # {} BY <1>6, <1>8 DEF Tuples
  <2>2. LexMax(S) \in S /\ \A b \in S : LexAtMost(b, LexMax(S)) BY <1>5, <2>1, LexBounds
  <2> HIDE DEF e
  <2> QED BY <1>6, <1>8, <2>2
<1>11. /\ R \in SUBSET DOMAIN rows /\ Fair(R) \in Nat /\ Prio(R) \in Nat /\ Bill(R) \in Nat
       /\ Cardinality(R) \in Nat /\ Total(s, R) \in Tuples(4)
  BY CompletionType
<1>12. e[1] = Fair(R) /\ e[2] = Prio(R) /\ e[3] = Cardinality(R) /\ e[4] = -Bill(R)
  <2>1. Gain(R) = <<Fair(R), Prio(R), Cardinality(R)>> BY <1>0, <1>11, GainOfRows
  <2>2. Gain(R)[1] = Fair(R) /\ Gain(R)[2] = Prio(R) /\ Gain(R)[3] = Cardinality(R) BY <2>1
  <2> DEFINE m == Gain(R)
             k == -(MinGrant * Cardinality(Paying(R)))
  <2>3. m \in Seq(Int) /\ Len(m) = 3 /\ k \in Int /\ k = -Bill(R)
    BY <1>0, <1>9, <1>11, GainType DEF Tuples
  <2>4. e = Append(m, k) OBVIOUS
  <2>5. m[1] = Fair(R) /\ m[2] = Prio(R) /\ m[3] = Cardinality(R) BY <2>2
  <2> HIDE DEF m, k, e
  <2>6. e[1] = m[1] /\ e[2] = m[2] /\ e[3] = m[3] /\ e[4] = k BY <2>3, <2>4, TriplePart
  <2> QED BY <2>3, <2>5, <2>6
<1> HIDE DEF e
<1>13. Plus(Score(s), e) = Total(s, R) BY <1>10, <1>12, TotalOfParts
<1> QED BY <1>0, <1>1, <1>10, <1>13, PlusMonotone

-----------------------------------------------------------------------------

(* Raising rows to better ones. *)

\* A finite set goes into every finite set that is not smaller.
LEMMA InjectionExists ==
  ASSUME NEW A, IsFiniteSet(A), NEW B, IsFiniteSet(B), Cardinality(A) <= Cardinality(B)
  PROVE  \E h \in [A -> B] : \A x, y \in A : h[x] = h[y] => x = y
<1> DEFINE m == Cardinality(A)
           n == Cardinality(B)
<1>1. m \in Nat /\ n \in Nat /\ m <= n BY FS_CardinalityType
<1>2. /\ \E f : f \in Bijection(1..m, A)
      /\ \E f : f \in Bijection(1..n, B)
  BY FS_CardinalityType DEF ExistsBijection
<1> HIDE DEF m, n
<1>3. PICK f : f \in Bijection(1..m, A) BY <1>2
<1>4. PICK g : g \in Bijection(1..n, B) BY <1>2
<1>5. \A a \in A : \E i \in 1..m : f[i] = a BY <1>3 DEF Bijection, Surjection
<1>6. /\ \A i \in 1..n : g[i] \in B
      /\ \A i, j \in 1..n : g[i] = g[j] => i = j
  BY <1>4 DEF Bijection, Injection, IsInjective
<1> DEFINE u == [a \in A |-> CHOOSE i \in 1..m : f[i] = a]
           h == [a \in A |-> g[u[a]]]
<1>7. \A a \in A : u[a] \in 1..m /\ f[u[a]] = a
  <2> SUFFICES ASSUME NEW a \in A PROVE u[a] \in 1..m /\ f[u[a]] = a OBVIOUS
  <2>1. u[a] = CHOOSE i \in 1..m : f[i] = a OBVIOUS
  <2> HIDE DEF u
  <2> QED BY <1>5, <2>1
<1> HIDE DEF u
<1>8. \A a \in A : u[a] \in 1..n /\ h[a] = g[u[a]] BY <1>1, <1>7
<1>9. h \in [A -> B] BY <1>6, <1>8
<1> HIDE DEF h
<1>10. \A x, y \in A : h[x] = h[y] => x = y BY <1>6, <1>7, <1>8
<1> QED BY <1>9, <1>10

\* As many elements of an order can be moved up into its first m.
LEMMA FewLift ==
  ASSUME NEW S, IsFiniteSet(S), NEW D, Orders(S, D), NEW m \in Nat,
         NEW few, few = Few(S, D, m),
         NEW X \in SUBSET S, Cardinality(X) <= m
  PROVE  \E f \in [X -> few] : /\ \A x, y \in X : f[x] = f[y] => x = y
                               /\ \A x \in X : f[x] = x \/ f[x] \in D[x]
<1> DEFINE A == X \ few
           B == few \ X
           C == X \cap few
<1>1. IsFiniteSet(few) /\ Cardinality(few) = Least(m, Cardinality(S)) /\ few \subseteq S
  BY FirstFewOf DEF Few
<1>2. IsFiniteSet(X) /\ IsFiniteSet(A) /\ IsFiniteSet(B) /\ IsFiniteSet(C)
  BY <1>1, FS_Subset
<1>3. CASE A = {}
  <2> DEFINE f == [x \in X |-> x]
  <2>1. f \in [X -> few] BY <1>3
  <2> QED BY <2>1
<1>4. CASE A # {}
  <2>0. /\ Cardinality(S) \in Nat
        /\ \A a \in S : Cardinality(D[a]) \in 0..(Cardinality(S) - 1)
        /\ \A a, b \in S : a \in D[b] => Cardinality(D[a]) < Cardinality(D[b])
    BY Ranking DEF Ranked
  <2>1. Cardinality(S) > m BY <1>4, <2>0 DEF Few
  <2>2. Cardinality(few) = m BY <1>1, <2>0, <2>1 DEF Least
  <2>3. /\ Cardinality(X) = Cardinality(A) + Cardinality(C)
        /\ Cardinality(few) = Cardinality(B) + Cardinality(C)
        /\ Cardinality(A) \in Nat /\ Cardinality(B) \in Nat /\ Cardinality(C) \in Nat
    <3>1. X = A \cup C /\ few = B \cup C /\ A \cap C = {} /\ B \cap C = {} OBVIOUS
    <3> HIDE DEF A, B, C
    <3>2. /\ Cardinality(A) \in Nat /\ Cardinality(B) \in Nat /\ Cardinality(C) \in Nat
      BY <1>2, FS_CardinalityType
    <3>3. Cardinality(A \cap C) = 0 /\ Cardinality(B \cap C) = 0 BY <3>1, FS_EmptySet
    <3>4. /\ Cardinality(A \cup C) = Cardinality(A) + Cardinality(C) - Cardinality(A \cap C)
          /\ Cardinality(B \cup C) = Cardinality(B) + Cardinality(C) - Cardinality(B \cap C)
      BY ONLY <1>2, FS_Union
    <3>5. Cardinality(X) = Cardinality(A \cup C) /\ Cardinality(few) = Cardinality(B \cup C)
      BY ONLY <3>1, Zenon
    <3> QED BY ONLY <3>2, <3>3, <3>4, <3>5
  <2>4. Cardinality(A) <= Cardinality(B) BY <2>2, <2>3
  <2>5. PICK h \in [A -> B] : \A x, y \in A : h[x] = h[y] => x = y
    <3> HIDE DEF A, B
    <3> QED BY <1>2, <2>4, InjectionExists
  <2> DEFINE f == [x \in X |-> IF x \in few THEN x ELSE h[x]]
  <2>6. f \in [X -> few] BY <2>5
  <2>7. ASSUME NEW x \in X, NEW y \in X, f[x] = f[y] PROVE x = y BY <2>5, <2>7
  <2>8. ASSUME NEW x \in X PROVE f[x] = x \/ f[x] \in D[x] BY <2>5, <1>1, <2>0 DEF Orders, Few
  <2> HIDE DEF f
  <2> QED BY <2>6, <2>7, <2>8
<1> QED BY <1>3, <1>4

\* Which of two rows is worth more, component by component.
LEMMA AboveMeans ==
  ASSUME ProblemType, NEW p \in DOMAIN rows, NEW q \in DOMAIN rows
  PROVE  Above(p, q) <=>
           \/ Weights[q] < Weights[p]
           \/ Weights[q] = Weights[p] /\ Priorities[q] < Priorities[p]
           \/ Weights[q] = Weights[p] /\ Priorities[q] = Priorities[p] /\ q < p
<1> DEFINE a == <<Weight(rows[p]), Priority(rows[p])>>
           b == <<Weight(rows[q]), Priority(rows[q])>>
<1>1. /\ Weight(rows[p]) \in Nat /\ Priority(rows[p]) \in Nat
      /\ Weight(rows[q]) \in Nat /\ Priority(rows[q]) \in Nat
      /\ Weights[p] = Weight(rows[p]) /\ Priorities[p] = Priority(rows[p])
      /\ Weights[q] = Weight(rows[q]) /\ Priorities[q] = Priority(rows[q])
      /\ p \in Int /\ q \in Int
  BY RowAmounts DEF ProblemType
<1> DEFINE x == Weight(rows[p])
           y == Priority(rows[p])
           z == Weight(rows[q])
           w == Priority(rows[q])
<1>2. x \in Int /\ y \in Int /\ z \in Int /\ w \in Int BY <1>1
<1>3. Above(p, q) <=> LexLess(<<z, w>>, <<x, y>>) \/ (<<x, y>> = <<z, w>> /\ p > q)
  BY DEF Above
<1>4. Weights[p] = x /\ Priorities[p] = y /\ Weights[q] = z /\ Priorities[q] = w BY <1>1
<1> HIDE DEF x, y, z, w
<1>5. /\ LexLess(<<z, w>>, <<x, y>>) <=> z < x \/ (z = x /\ w < y)
      /\ <<x, y>> = <<z, w>> <=> x = z /\ y = w
  BY <1>2, LexTwo
<1>6. Above(p, q) <=> z < x \/ (z = x /\ w < y) \/ (z = x /\ w = y /\ q < p)
  BY <1>1, <1>3, <1>5
<1> QED BY <1>4, <1>6

\* Above is a strict total order on rows.
LEMMA AboveOrder ==
  ASSUME ProblemType
  PROVE  /\ \A p \in DOMAIN rows : ~Above(p, p)
         /\ \A p, q, r \in DOMAIN rows : Above(p, q) /\ Above(q, r) => Above(p, r)
         /\ \A p, q \in DOMAIN rows : p = q \/ Above(p, q) \/ Above(q, p)
<1>1. \A p \in DOMAIN rows : /\ Weights[p] \in Nat /\ Priorities[p] \in Nat /\ p \in Nat
  BY RowAmounts DEF ProblemType
<1>2. \A p, q \in DOMAIN rows :
        Above(p, q) <=>
           \/ Weights[q] < Weights[p]
           \/ Weights[q] = Weights[p] /\ Priorities[q] < Priorities[p]
           \/ Weights[q] = Weights[p] /\ Priorities[q] = Priorities[p] /\ q < p
  BY AboveMeans
<1>3. ASSUME NEW p \in DOMAIN rows PROVE ~Above(p, p) BY <1>1, <1>2
<1>4. ASSUME NEW p \in DOMAIN rows, NEW q \in DOMAIN rows, NEW r \in DOMAIN rows,
             Above(p, q), Above(q, r)
      PROVE  Above(p, r)
  <2> DEFINE a == Weights[p]
             b == Weights[q]
             c == Weights[r]
             x == Priorities[p]
             y == Priorities[q]
             z == Priorities[r]
  <2>1. a \in Nat /\ b \in Nat /\ c \in Nat /\ x \in Nat /\ y \in Nat /\ z \in Nat
        /\ p \in Nat /\ q \in Nat /\ r \in Nat
    BY <1>1
  <2>2. /\ b < a \/ (b = a /\ y < x) \/ (b = a /\ y = x /\ q < p)
        /\ c < b \/ (c = b /\ z < y) \/ (c = b /\ z = y /\ r < q)
    BY <1>2, <1>4
  <2>3. Above(p, r) <=> c < a \/ (c = a /\ z < x) \/ (c = a /\ z = x /\ r < p) BY <1>2
  <2> HIDE DEF a, b, c, x, y, z
  <2> QED BY ONLY <2>1, <2>2, <2>3
<1>5. ASSUME NEW p \in DOMAIN rows, NEW q \in DOMAIN rows
      PROVE  p = q \/ Above(p, q) \/ Above(q, p)
  BY <1>1, <1>2
<1> QED BY <1>3, <1>4, <1>5

\* The strongest rows are the first in it.
LEMMA OverOrders ==
  ASSUME ProblemType, NEW T \in SUBSET DOMAIN rows
  PROVE  Orders(T, Over(T)) /\ IsFiniteSet(T)
         /\ \A k : Strongest(T, k) = {p \in T : Cardinality(Over(T)[p]) < k}
<1>1. /\ \A p \in T : ~Above(p, p)
      /\ \A p, q, r \in T : Above(p, q) /\ Above(q, r) => Above(p, r)
      /\ \A p, q \in T : p = q \/ Above(p, q) \/ Above(q, p)
  BY AboveOrder
<1>2. /\ Over(T) \in [T -> SUBSET T]
      /\ \A a, b \in T : a \in Over(T)[b] <=> Above(a, b)
      /\ \A a \in T : Over(T)[a] = {q \in T : Above(q, a)}
  BY DEF Over
<1>3. Orders(T, Over(T)) BY <1>1, <1>2 DEF Orders
<1>4. \A k : Strongest(T, k) = {p \in T : Cardinality(Over(T)[p]) < k} BY <1>2 DEF Strongest
<1>5. IsFiniteSet(T) BY FS_Subset DEF ProblemType
<1> QED BY <1>3, <1>4, <1>5

\* Rising twice is rising.
LEMMA LiftsTransitive ==
  ASSUME ProblemType, NEW X \in SUBSET DOMAIN rows, NEW Y \in SUBSET DOMAIN rows,
         NEW Z \in SUBSET DOMAIN rows, Lifts(X, Y), Lifts(Y, Z)
  PROVE  Lifts(X, Z)
<1>1. PICK f \in [X -> Y] : /\ \A x, y \in X : f[x] = f[y] => x = y
                            /\ \A x \in X : f[x] = x \/ Above(f[x], x)
  BY DEF Lifts
<1>2. PICK g \in [Y -> Z] : /\ \A x, y \in Y : g[x] = g[y] => x = y
                            /\ \A x \in Y : g[x] = x \/ Above(g[x], x)
  BY DEF Lifts
<1> DEFINE h == [x \in X |-> g[f[x]]]
<1>3. h \in [X -> Z] /\ \A x \in X : h[x] = g[f[x]] /\ f[x] \in Y OBVIOUS
<1> HIDE DEF h
<1>4. \A x, y \in X : h[x] = h[y] => x = y BY <1>1, <1>2, <1>3
<1>5. ASSUME NEW x \in X PROVE h[x] = x \/ Above(h[x], x) BY <1>1, <1>2, <1>3, AboveOrder
<1> QED BY <1>3, <1>4, <1>5 DEF Lifts

\* Rows rise to as many others.
LEMMA LiftsOnto ==
  ASSUME NEW X, IsFiniteSet(X), NEW T, Lifts(X, T)
  PROVE  \E I \in SUBSET T : Lifts(X, I) /\ Cardinality(I) = Cardinality(X)
<1>1. PICK f \in [X -> T] : /\ \A x, y \in X : f[x] = f[y] => x = y
                            /\ \A x \in X : f[x] = x \/ Above(f[x], x)
  BY DEF Lifts
<1> DEFINE I == {f[x] : x \in X}
<1>2. I \in SUBSET T /\ f \in [X -> I] OBVIOUS
<1>3. Cardinality(I) = Cardinality(X) BY <1>1, ImageCount
<1>4. Lifts(X, I)
  <2> HIDE DEF I
  <2> QED BY <1>1, <1>2 DEF Lifts
<1> QED BY <1>2, <1>3, <1>4

\* Rows that rise into a set rise into a larger one.
LEMMA LiftsWithin ==
  ASSUME NEW X, NEW T, NEW U, T \subseteq U, Lifts(X, T) PROVE Lifts(X, U)
<1>1. PICK f \in [X -> T] : /\ \A x, y \in X : f[x] = f[y] => x = y
                            /\ \A x \in X : f[x] = x \/ Above(f[x], x)
  BY DEF Lifts
<1>2. f \in [X -> U] OBVIOUS
<1> QED BY <1>1, <1>2 DEF Lifts

\* Few rows of a set rise to its strongest.
LEMMA StrongestLift ==
  ASSUME ProblemType, NEW T \in SUBSET DOMAIN rows, NEW k \in Nat,
         NEW X \in SUBSET T, Cardinality(X) <= k
  PROVE  Lifts(X, Strongest(T, k))
<1> DEFINE D == Over(T)
           few == Strongest(T, k)
<1>1. Orders(T, D) /\ IsFiniteSet(T) /\ few = Few(T, D, k)
  BY OverOrders DEF Few
<1>2. \A x \in T : D[x] = {q \in T : Above(q, x)} BY DEF Over
<1> HIDE DEF D, few
<1>3. \E f \in [X -> few] : /\ \A x, y \in X : f[x] = f[y] => x = y
                            /\ \A x \in X : f[x] = x \/ f[x] \in D[x]
  <2>1. X \in SUBSET T /\ k \in Nat /\ Cardinality(X) <= k OBVIOUS
  <2> QED BY ONLY <1>1, <2>1, FewLift
<1>4. Lifts(X, few) BY <1>2, <1>3 DEF Lifts
<1> QED BY <1>4 DEF few

-----------------------------------------------------------------------------

(* The clique bounds.  g gives each row its group; rows of one group        *)
(* exclude one another, so a completion holds at most one of each.          *)

\* A set of rows has a best one.
LEMMA TopRow ==
  ASSUME ProblemType, NEW T \in SUBSET DOMAIN rows, T # {}
  PROVE  \E h \in T : \A q \in T : ~Above(q, h)
<1>1. Orders(T, Over(T)) /\ IsFiniteSet(T) BY OverOrders
<1>2. Ranked(T, Over(T)) BY <1>1, Ranking
<1>3. Cardinality(T) \in Nat /\ Cardinality(T) # 0 BY <1>1, FS_CardinalityType, FS_EmptySet
<1>4. PICK h \in T : Cardinality(Over(T)[h]) = 0 BY <1>2, <1>3 DEF Ranked
<1>5. Over(T)[h] = {q \in T : Above(q, h)} BY DEF Over
<1>6. IsFiniteSet(Over(T)[h]) BY <1>1, <1>5, FS_Subset
<1>7. Over(T)[h] = {} BY <1>4, <1>6, FS_EmptySet
<1> QED BY <1>5, <1>7

\* The best row of a group leads it.
LEMMA GroupHead ==
  ASSUME ProblemType, NEW n, Eligible(n) \in SUBSET DOMAIN rows, NEW c, NEW g,
         NEW p \in Suffix(n, c)
  PROVE  \E h \in Leaders(n, c, g) : g[h] = g[p] /\ (h = p \/ Above(h, p))
<1> DEFINE T == {q \in Suffix(n, c) : g[q] = g[p]}
<1>1. T \in SUBSET DOMAIN rows /\ p \in T BY DEF Suffix
<1>2. PICK h \in T : \A q \in T : ~Above(q, h) BY <1>1, TopRow
<1>3. h \in Leaders(n, c, g) BY <1>2 DEF Leaders
<1>4. h = p \/ Above(h, p) \/ Above(p, h) BY <1>1, AboveOrder
<1> QED BY <1>1, <1>2, <1>3, <1>4

\* The rows of a class in a completion rise to the leaders of free groups.
LEMMA HeadsLift ==
  ASSUME Placed, NEW s, NEW n, Ready(s, n), NEW R, Completion(R, s, n), NEW c,
         NEW g, Grouping(g)
  PROVE  Lifts(InClass(R, c), FreeHeads(s, n, c, g))
<1> DEFINE X == InClass(R, c)
           f == [p \in X |-> CHOOSE h \in Leaders(n, c, g) :
                               g[h] = g[p] /\ (h = p \/ Above(h, p))]
<1>0. ProblemType /\ Eligible(n) \in SUBSET DOMAIN rows BY ReadyType DEF Eligible
<1>1. X \subseteq Suffix(n, c) /\ X \subseteq R /\ X \subseteq DOMAIN rows
  BY <1>0 DEF InClass, Suffix, Completion, Eligible
<1>2. \A p \in X : f[p] \in Leaders(n, c, g) /\ g[f[p]] = g[p] /\ (f[p] = p \/ Above(f[p], p))
  <2> SUFFICES ASSUME NEW p \in X
               PROVE  f[p] \in Leaders(n, c, g) /\ g[f[p]] = g[p] /\ (f[p] = p \/ Above(f[p], p))
    OBVIOUS
  <2>1. f[p] = CHOOSE h \in Leaders(n, c, g) : g[h] = g[p] /\ (h = p \/ Above(h, p)) OBVIOUS
  <2>2. \E h \in Leaders(n, c, g) : g[h] = g[p] /\ (h = p \/ Above(h, p))
    <3> HIDE DEF X, f
    <3> QED BY <1>0, <1>1, GroupHead
  <2> HIDE DEF f
  <2> QED BY <2>1, <2>2
<1>3. DOMAIN f = X /\ f = [p \in X |-> f[p]] OBVIOUS
<1> HIDE DEF f, X
<1>4. \A p \in X : \A q \in Range(s.sel) : g[q] # g[f[p]]
  BY <1>1, CompletionFree, <1>2 DEF Grouping
<1>5. f \in [X -> FreeHeads(s, n, c, g)] BY <1>2, <1>4, <1>3 DEF FreeHeads
<1>6. ASSUME NEW x \in X, NEW y \in X, f[x] = f[y] PROVE x = y
  BY <1>1, <1>2, <1>6 DEF Completion, Grouping
<1>7. Lifts(X, FreeHeads(s, n, c, g)) BY <1>2, <1>5, <1>6 DEF Lifts
<1> QED BY <1>7 DEF X

\* The groups a partial wave occupies are no more than its rows.
LEMMA OccupiedFew ==
  ASSUME Placed, NEW s, NEW n, Ready(s, n), NEW c, NEW g,
         NEW O, O = Leaders(n, c, g) \ FreeHeads(s, n, c, g)
  PROVE  IsFiniteSet(O) /\ Cardinality(O) \in Nat /\ Cardinality(O) <= Len(s.sel)
<1>0. /\ ProblemType /\ Eligible(n) \in SUBSET DOMAIN rows
      /\ Range(s.sel) \in SUBSET DOMAIN rows
      /\ Cardinality(Range(s.sel)) = Len(s.sel) /\ Len(s.sel) \in Nat
  BY ReadyType DEF Eligible
<1>1. Leaders(n, c, g) \in SUBSET DOMAIN rows BY <1>0 DEF Leaders, Suffix
<1>2. IsFiniteSet(Range(s.sel)) /\ IsFiniteSet(O) BY <1>0, <1>1, FS_Subset DEF ProblemType
<1> DEFINE f == [p \in O |-> CHOOSE q \in Range(s.sel) : g[q] = g[p]]
<1>3. \A p \in O : f[p] \in Range(s.sel) /\ g[f[p]] = g[p]
  <2> SUFFICES ASSUME NEW p \in O PROVE f[p] \in Range(s.sel) /\ g[f[p]] = g[p] OBVIOUS
  <2>1. f[p] = CHOOSE q \in Range(s.sel) : g[q] = g[p] OBVIOUS
  <2>2. \E q \in Range(s.sel) : g[q] = g[p] BY DEF FreeHeads
  <2> HIDE DEF f
  <2> QED BY <2>1, <2>2
<1> HIDE DEF f
<1>4. ASSUME NEW x \in O, NEW y \in O, f[x] = f[y] PROVE x = y
  BY <1>3, <1>4, <1>1, <1>0, AboveOrder DEF Leaders
<1>5. Cardinality({f[x] : x \in O}) = Cardinality(O) BY <1>2, <1>4, ImageCount
<1>6. {f[x] : x \in O} \subseteq Range(s.sel) BY <1>3
<1>7. Cardinality({f[x] : x \in O}) <= Cardinality(Range(s.sel)) BY <1>2, <1>6, FS_Subset
<1>8. Cardinality(O) \in Nat BY <1>2, FS_CardinalityType
<1> QED BY <1>0, <1>2, <1>5, <1>7, <1>8

\* Keeping the 2 * MaxCompanions best groups loses none that could be taken.
LEMMA SpreadKeeps ==
  ASSUME Placed, NEW s, NEW n, Ready(s, n), NEW c, NEW g, NEW k \in Nat, k <= Slots(s)
  PROVE  Strongest(FreeHeads(s, n, c, g), k) \subseteq Strongest(Representatives(s, n, c, g), k)
<1> DEFINE H == Leaders(n, c, g)
           L == FreeHeads(s, n, c, g)
           P == Representatives(s, n, c, g)
           O == H \ L
<1>0. /\ ProblemType /\ Eligible(n) \in SUBSET DOMAIN rows
      /\ Len(s.sel) \in Nat /\ MaxCompanions \in Nat
  BY ReadyType DEF Eligible
<1>1. H \in SUBSET DOMAIN rows /\ L \subseteq H /\ P \subseteq L
  BY <1>0 DEF Leaders, Suffix, FreeHeads, Representatives
<1>2. IsFiniteSet(H) /\ IsFiniteSet(O) /\ Cardinality(O) \in Nat /\ Cardinality(O) <= Len(s.sel)
  BY <1>0, <1>1, OccupiedFew, FS_Subset DEF ProblemType
<1> SUFFICES ASSUME NEW p \in Strongest(L, k) PROVE p \in Strongest(P, k) OBVIOUS
<1> DEFINE A == {q \in H : Above(q, p)}
           B == {q \in L : Above(q, p)}
           C == {q \in P : Above(q, p)}
           D == {q \in O : Above(q, p)}
<1>3. p \in L /\ Cardinality(B) < k BY DEF Strongest
<1>4. p \in P <=> Cardinality(A) < 2 * MaxCompanions BY <1>3 DEF Representatives, FreeHeads
<1>5. p \in Strongest(P, k) <=> p \in P /\ Cardinality(C) < k BY DEF Strongest
<1>6. A = B \cup D /\ B \cap D = {} /\ C \subseteq B /\ B \subseteq H /\ D \subseteq O
  BY <1>1
<1> HIDE DEF A, B, C, D, H, L, P, O
<1>7. IsFiniteSet(B) /\ IsFiniteSet(D) BY <1>2, <1>6, FS_Subset
<1>8. Cardinality(C) <= Cardinality(B) /\ Cardinality(D) <= Cardinality(O) /\ IsFiniteSet(C)
  BY <1>2, <1>6, <1>7, FS_Subset
<1>9. Cardinality(B) \in Nat /\ Cardinality(D) \in Nat /\ Cardinality(C) \in Nat
  BY <1>7, <1>8, FS_CardinalityType
<1>10. Cardinality(A) = Cardinality(B) + Cardinality(D)
  <2>1. Cardinality(B \cup D) = Cardinality(B) + Cardinality(D) - Cardinality(B \cap D)
    BY <1>7, FS_Union
  <2>2. Cardinality(B \cap D) = 0 BY <1>6, FS_EmptySet
  <2>3. Cardinality(A) = Cardinality(B \cup D) BY <1>6, Zenon
  <2> QED BY ONLY <1>9, <2>1, <2>2, <2>3
<1>11. k <= MaxCompanions - Len(s.sel) BY DEF Slots
<1> DEFINE a == Cardinality(A)
           b == Cardinality(B)
           d == Cardinality(D)
           o == Cardinality(O)
           m == MaxCompanions
           l == Len(s.sel)
           e == Cardinality(C)
<1>12. /\ a = b + d /\ b < k /\ d <= o /\ o <= l /\ k <= m - l /\ e <= b
       /\ b \in Nat /\ d \in Nat /\ o \in Nat /\ m \in Nat /\ l \in Nat /\ k \in Nat /\ e \in Nat
  BY <1>0, <1>2, <1>3, <1>8, <1>9, <1>10, <1>11
<1> HIDE DEF a, b, d, o, m, l, e
<1>13. a < 2 * m /\ e < k BY ONLY <1>12
<1> QED BY <1>4, <1>5, <1>13 DEF a, m, e

\* The rows of a class rise to its strongest representatives.
LEMMA SpreadLift ==
  ASSUME Placed, NEW s, NEW n, Ready(s, n), NEW R, Completion(R, s, n), NEW c,
         NEW g, Grouping(g), NEW k \in Nat, k <= Slots(s),
         Cardinality(InClass(R, c)) <= k
  PROVE  Lifts(InClass(R, c), Strongest(Representatives(s, n, c, g), k))
<1> DEFINE X == InClass(R, c)
           L == FreeHeads(s, n, c, g)
           P == Representatives(s, n, c, g)
<1>0. /\ ProblemType /\ Eligible(n) \in SUBSET DOMAIN rows /\ R \in SUBSET DOMAIN rows
  BY ReadyType, CompletionType DEF Eligible
<1>1. /\ L \in SUBSET DOMAIN rows /\ P \in SUBSET DOMAIN rows
      /\ X \in SUBSET DOMAIN rows
  BY <1>0 DEF Leaders, Suffix, FreeHeads, Representatives, InClass
<1>2. Lifts(X, L) /\ IsFiniteSet(X) BY <1>0, <1>1, HeadsLift, FS_Subset DEF ProblemType
<1>3. Strongest(L, k) \subseteq Strongest(P, k) BY SpreadKeeps
<1>4. Cardinality(X) <= k OBVIOUS
<1> HIDE DEF X, L, P
<1>5. PICK I \in SUBSET L : Lifts(X, I) /\ Cardinality(I) = Cardinality(X)
  BY <1>2, LiftsOnto
<1>6. Lifts(I, Strongest(L, k)) BY <1>0, <1>1, <1>4, <1>5, StrongestLift
<1>7. Lifts(I, Strongest(P, k)) BY <1>3, <1>6, LiftsWithin
<1>8. I \in SUBSET DOMAIN rows /\ Strongest(P, k) \in SUBSET DOMAIN rows
  BY <1>1, <1>5 DEF Strongest
<1>9. Lifts(X, Strongest(P, k)) BY <1>0, <1>1, <1>5, <1>7, <1>8, LiftsTransitive
<1> QED BY <1>9 DEF X, P

\* All classes together.
LEMMA PoolLift ==
  ASSUME Placed, NEW s, NEW n, Ready(s, n), NEW R, Completion(R, s, n),
         NEW g, Grouping(g), NEW f,
         \A c \in Capacities : Cardinality(InClass(R, c)) <= Room(s, c, f)
  PROVE  Lifts(R, Strongest(Pool(s, n, g, f), Slots(s)))
<1> DEFINE U == Pool(s, n, g, f)
           part == [c \in Capacities |->
                      Strongest(Representatives(s, n, c, g), Least(Room(s, c, f), Slots(s)))]
<1>0. /\ ProblemType /\ Eligible(n) \in SUBSET DOMAIN rows /\ R \in SUBSET DOMAIN rows
      /\ \A p \in DOMAIN rows : CapacityClass(rows[p]) \in Capacities
      /\ IsFiniteSet(R) /\ Cardinality(R) \in Nat
  BY ReadyType, CompletionType, RowAmounts DEF Eligible
<1>1. /\ Slots(s) \in Nat /\ Cardinality(R) <= Slots(s)
      /\ \A c \in Capacities : Room(s, c, f) \in Nat
  BY CompletionFits
<1>2. \A c \in Capacities : part[c] \subseteq U /\ part[c] \subseteq Suffix(n, c)
  <2> SUFFICES ASSUME NEW c \in Capacities
               PROVE  part[c] \subseteq U /\ part[c] \subseteq Suffix(n, c)
    OBVIOUS
  <2>1. part[c] = Strongest(Representatives(s, n, c, g), Least(Room(s, c, f), Slots(s)))
    OBVIOUS
  <2>2. part[c] \subseteq U BY <2>1 DEF Pool
  <2> HIDE DEF part
  <2>3. part[c] \subseteq Suffix(n, c)
    BY <2>1 DEF Strongest, Representatives, FreeHeads, Leaders
  <2> QED BY <2>2, <2>3
<1>3. U \in SUBSET DOMAIN rows
  BY <1>0 DEF Pool, Strongest, Representatives, FreeHeads, Leaders, Suffix
<1>4. \A c \in Capacities : Lifts(InClass(R, c), part[c])
  <2> SUFFICES ASSUME NEW c \in Capacities PROVE Lifts(InClass(R, c), part[c]) OBVIOUS
  <2> DEFINE k == Least(Room(s, c, f), Slots(s))
             x == Cardinality(InClass(R, c))
             y == Cardinality(R)
             u == Room(s, c, f)
             v == Slots(s)
  <2>1. part[c] = Strongest(Representatives(s, n, c, g), k) OBVIOUS
  <2>2. InClass(R, c) \subseteq R BY DEF InClass
  <2>3. x <= y /\ x \in Nat BY <1>0, <2>2, FS_Subset, FS_CardinalityType
  <2>4. x <= u /\ y <= v /\ u \in Nat /\ v \in Nat /\ y \in Nat BY <1>0, <1>1
  <2>5. k = Least(u, v) OBVIOUS
  <2> HIDE DEF x, y, u, v, k, part
  <2>6. k \in Nat /\ k <= v /\ x <= k BY <2>3, <2>4, <2>5 DEF Least
  <2>7. Lifts(InClass(R, c), Strongest(Representatives(s, n, c, g), k))
    BY <2>6, SpreadLift DEF x, v
  <2> QED BY <2>1, <2>7
<1> HIDE DEF part, U
<1> DEFINE Moves(h, c) == /\ h \in [InClass(R, c) -> part[c]]
                          /\ \A x, y \in InClass(R, c) : h[x] = h[y] => x = y
                          /\ \A x \in InClass(R, c) : h[x] = x \/ Above(h[x], x)
           w == [c \in Capacities |-> CHOOSE h : Moves(h, c)]
           e == [p \in R |-> w[CapacityClass(rows[p])][p]]
<1>5. \A c \in Capacities : Moves(w[c], c)
  <2> SUFFICES ASSUME NEW c \in Capacities PROVE Moves(w[c], c) OBVIOUS
  <2>1. \E h : Moves(h, c) BY <1>4 DEF Lifts
  <2>2. w[c] = CHOOSE h : Moves(h, c) OBVIOUS
  <2> HIDE DEF w, Moves
  <2> QED BY <2>1, <2>2
<1> HIDE DEF w
<1>6. \A p \in R : /\ CapacityClass(rows[p]) \in Capacities
                   /\ p \in InClass(R, CapacityClass(rows[p]))
                   /\ e[p] = w[CapacityClass(rows[p])][p]
  BY <1>0 DEF InClass
<1>7. e = [p \in R |-> e[p]] OBVIOUS
<1> HIDE DEF e
<1>8. \A p \in R : e[p] \in part[CapacityClass(rows[p])] /\ (e[p] = p \/ Above(e[p], p))
  BY <1>5, <1>6
<1>9. e \in [R -> U] BY <1>2, <1>6, <1>7, <1>8
<1>10. ASSUME NEW x \in R, NEW y \in R, e[x] = e[y] PROVE x = y
  <2> DEFINE c == CapacityClass(rows[x])
             d == CapacityClass(rows[y])
  <2>1. e[x] \in Suffix(n, c) /\ e[y] \in Suffix(n, d) BY <1>2, <1>6, <1>8
  <2>2. c = d BY <1>10, <2>1 DEF Suffix
  <2>3. x \in InClass(R, c) /\ y \in InClass(R, c) /\ e[x] = w[c][x] /\ e[y] = w[c][y]
        /\ c \in Capacities
    BY <1>6, <2>2
  <2> HIDE DEF c, d
  <2> QED BY <1>5, <1>10, <2>3
<1>11. Lifts(R, U) BY <1>8, <1>9, <1>10 DEF Lifts
<1>12. PICK I \in SUBSET U : Lifts(R, I) /\ Cardinality(I) = Cardinality(R)
  BY <1>0, <1>11, LiftsOnto
<1>13. Lifts(I, Strongest(U, Slots(s))) BY <1>0, <1>1, <1>3, <1>12, StrongestLift
<1>14. I \in SUBSET DOMAIN rows /\ Strongest(U, Slots(s)) \in SUBSET DOMAIN rows
  BY <1>3, <1>12 DEF Strongest
<1>15. Lifts(R, Strongest(U, Slots(s))) BY <1>0, <1>12, <1>13, <1>14, LiftsTransitive
<1> QED BY <1>15 DEF U

\* Equal sums of parts that are no greater have equal parts.
LEMMA SumEqualParts ==
  ASSUME NEW S, IsFiniteSet(S), NEW f, NEW g,
         \A x \in S : f[x] \in Int /\ g[x] \in Int /\ f[x] <= g[x],
         SumFunctionOnSet(f, S) = SumFunctionOnSet(g, S), NEW y \in S
  PROVE  f[y] = g[y]
<1> DEFINE a == SumFunctionOnSet(f, S \ {y})
           b == SumFunctionOnSet(g, S \ {y})
           c == f[y]
           d == g[y]
<1>1. IsFiniteSet(S \ {y}) BY FS_Subset
<1>2. a \in Int /\ b \in Int /\ a <= b BY <1>1, SumType, SumAtMost
<1>3. SumFunctionOnSet(f, S) = c + a /\ SumFunctionOnSet(g, S) = d + b BY SumRemove
<1>4. c \in Int /\ d \in Int /\ c <= d /\ c + a = d + b BY <1>3
<1> HIDE DEF a, b, c, d
<1>5. c = d BY ONLY <1>2, <1>4
<1> QED BY <1>5 DEF c, d

\* Better rows gain no less.
LEMMA LiftsGain ==
  ASSUME ProblemType, NEW X \in SUBSET DOMAIN rows, NEW T \in SUBSET DOMAIN rows,
         Lifts(X, T)
  PROVE  LexAtMost(Gain(X), Gain(T))
<1>1. PICK f \in [X -> T] : /\ \A x, y \in X : f[x] = f[y] => x = y
                            /\ \A x \in X : f[x] = x \/ Above(f[x], x)
  BY DEF Lifts
<1> DEFINE I == {f[x] : x \in X}
           u == [x \in X |-> Weights[f[x]]]
           v == [x \in X |-> Priorities[f[x]]]
           D == T \ I
<1>2. /\ I \in SUBSET DOMAIN rows /\ D \in SUBSET DOMAIN rows /\ T = I \cup D /\ I \cap D = {}
      /\ IsFiniteSet(X)
  BY <1>1, FS_Subset DEF ProblemType
<1>3. \A p \in DOMAIN rows : Weights[p] \in Nat /\ Priorities[p] \in Nat BY RowAmounts
<1>4. \A x \in X : /\ x \in DOMAIN rows /\ f[x] \in DOMAIN rows
                   /\ u[x] = Weights[f[x]] /\ v[x] = Priorities[f[x]]
                   /\ u[x] \in Int /\ v[x] \in Int
                   /\ Weights[x] \in Int /\ Priorities[x] \in Int
  BY <1>1, <1>3
<1>5. \A x \in X : /\ Weights[x] <= u[x]
                   /\ Weights[x] = u[x] => Priorities[x] <= v[x]
  <2> SUFFICES ASSUME NEW x \in X
               PROVE  /\ Weights[x] <= u[x]
                      /\ Weights[x] = u[x] => Priorities[x] <= v[x]
    OBVIOUS
  <2>1. CASE f[x] = x BY <1>4, <2>1
  <2>2. CASE Above(f[x], x)
    <3>1. \/ Weights[x] < Weights[f[x]]
          \/ Weights[x] = Weights[f[x]] /\ Priorities[x] < Priorities[f[x]]
          \/ Weights[x] = Weights[f[x]] /\ Priorities[x] = Priorities[f[x]] /\ x < f[x]
      BY <1>4, <2>2, AboveMeans
    <3> HIDE DEF u, v
    <3> QED BY <1>4, <3>1
  <2> HIDE DEF u, v
  <2> QED BY <1>1, <2>1, <2>2
<1> HIDE DEF u, v
<1>6. /\ SumFunctionOnSet(Weights, I) = SumFunctionOnSet(u, X)
      /\ SumFunctionOnSet(Priorities, I) = SumFunctionOnSet(v, X)
  BY <1>4, <1>1, <1>2, SumImage
<1>7. Cardinality(I) = Cardinality(X) BY <1>1, <1>2, ImageCount
<1> HIDE DEF I, D
<1>8. /\ Fair(I \cup D) = Fair(I) + Fair(D) /\ Prio(I \cup D) = Prio(I) + Prio(D)
      /\ Cardinality(I \cup D) = Cardinality(I) + Cardinality(D)
  BY <1>2, AmountsUnion
<1>9. /\ Fair(T) = Fair(I) + Fair(D) /\ Prio(T) = Prio(I) + Prio(D)
      /\ Cardinality(T) = Cardinality(I) + Cardinality(D)
  BY <1>2, <1>8
<1>10. /\ Fair(I) \in Nat /\ Fair(D) \in Nat /\ Prio(I) \in Nat /\ Prio(D) \in Nat
       /\ Cardinality(I) \in Nat /\ Cardinality(D) \in Nat
       /\ Fair(X) \in Nat /\ Prio(X) \in Nat /\ Cardinality(X) \in Nat
       /\ Fair(T) \in Nat /\ Prio(T) \in Nat /\ Cardinality(T) \in Nat
  BY <1>2, AmountsType
<1>11. Fair(X) <= Fair(I) BY <1>2, <1>4, <1>5, SumAtMost, <1>6 DEF Fair
<1>12. Fair(X) = Fair(I) => Prio(X) <= Prio(I)
  BY <1>6, <1>4, <1>5, <1>2, SumEqualParts, SumAtMost DEF Fair, Prio
<1> DEFINE a == Gain(X)
           b == Gain(T)
<1>13. a \in Tuples(3) /\ b \in Tuples(3) BY GainType
<1>14. /\ a[1] = Fair(X) /\ a[2] = Prio(X) /\ a[3] = Cardinality(X)
       /\ b[1] = Fair(T) /\ b[2] = Prio(T) /\ b[3] = Cardinality(T)
  <2>1. /\ a = <<Fair(X), Prio(X), Cardinality(X)>>
        /\ b = <<Fair(T), Prio(T), Cardinality(T)>>
    BY GainOfRows
  <2> HIDE DEF a, b
  <2> QED BY <2>1
<1> DEFINE fx == Fair(X)
           fi == Fair(I)
           fd == Fair(D)
           ft == Fair(T)
           px == Prio(X)
           pi == Prio(I)
           pd == Prio(D)
           pt == Prio(T)
           cx == Cardinality(X)
           ci == Cardinality(I)
           cd == Cardinality(D)
           ct == Cardinality(T)
<1>15. /\ fi \in Nat /\ fd \in Nat /\ pi \in Nat /\ pd \in Nat /\ ci \in Nat /\ cd \in Nat
       /\ fx \in Nat /\ px \in Nat /\ cx \in Nat
       /\ ft = fi + fd /\ pt = pi + pd /\ ct = ci + cd /\ ci = cx
       /\ fx <= fi /\ (fx = fi => px <= pi)
  BY <1>7, <1>9, <1>10, <1>11, <1>12
<1>16. /\ a[1] = fx /\ a[2] = px /\ a[3] = cx /\ b[1] = ft /\ b[2] = pt /\ b[3] = ct
  BY <1>14
<1> HIDE DEF a, b, fx, fi, fd, ft, px, pi, pd, pt, cx, ci, cd, ct
<1>17. fx < ft \/ (fx = ft /\ px < pt) \/ (fx = ft /\ px = pt /\ cx <= ct) BY ONLY <1>15
<1>18. \/ a[1] < b[1]
       \/ a[1] = b[1] /\ a[2] < b[2]
       \/ a[1] = b[1] /\ a[2] = b[2] /\ a[3] <= b[3]
  BY <1>16, <1>17
<1>19. LexAtMost(a, b) BY <1>13, <1>18, LexThree
<1> QED BY <1>19 DEF a, b

\* Whatever the grouping, no completion is worth more.
LEMMA CliqueAdmits ==
  ASSUME Placed, NEW s, NEW n, Ready(s, n), NEW R, Completion(R, s, n),
         NEW g, Grouping(g)
  PROVE  LexAtMost(Total(s, R), CliqueBound(s, n, g))
<1> DEFINE top == [f \in Forbidden(s) |-> Strongest(Pool(s, n, g, f), Slots(s))]
           gain == [f \in Forbidden(s) |-> Gain(top[f])]
           S == {gain[f] : f \in Forbidden(s)}
           a == Gain(R)
           m == LexMax(S)
<1>0. /\ ProblemType /\ Eligible(n) \in SUBSET DOMAIN rows /\ R \in SUBSET DOMAIN rows
      /\ Fair(R) \in Nat /\ Prio(R) \in Nat /\ Bill(R) \in Nat /\ Cardinality(R) \in Nat
      /\ Score(s) \in Tuples(4)
  BY ReadyType, CompletionType, ScoreType DEF Eligible, Ready
<1>1. PICK f \in Forbidden(s) : \A c \in Capacities :
                                  Cardinality(InClass(R, c)) <= Room(s, c, f)
  BY CompletionFits
<1>2. Lifts(R, Strongest(Pool(s, n, g, f), Slots(s))) BY <1>1, PoolLift
<1>3. \A b \in Forbidden(s) : /\ top[b] = Strongest(Pool(s, n, g, b), Slots(s))
                              /\ gain[b] = Gain(top[b])
  OBVIOUS
<1>4. S = {Gain(Strongest(Pool(s, n, g, b), Slots(s))) : b \in Forbidden(s)}
  <2> HIDE DEF top, gain
  <2> QED BY <1>3
<1>5. CliqueBound(s, n, g) = Plus(Score(s), Append(m, 0))
  <2> HIDE DEF S
  <2> QED BY <1>4 DEF CliqueBound
<1> HIDE DEF top, gain
<1>6. \A b \in Forbidden(s) : top[b] \in SUBSET DOMAIN rows
  <2>1. \A b : Pool(s, n, g, b) \in SUBSET DOMAIN rows
    BY <1>0 DEF Pool, Strongest, Representatives, FreeHeads, Leaders, Suffix
  <2> QED BY <1>3, <2>1 DEF Strongest
<1>7. \A b \in Forbidden(s) : gain[b] \in Tuples(3) BY <1>0, <1>3, <1>6, GainType
<1>8. IsFiniteSet(S) BY ForbiddenFinite, ImageFinite
<1>9. S \subseteq Tuples(3) /\ gain[f] \in S BY <1>7
<1> HIDE DEF S
<1>10. S \subseteq Seq(Int) /\ S # {} BY <1>9 DEF Tuples
<1>11. m \in Tuples(3) /\ LexAtMost(gain[f], m) BY <1>8, <1>9, <1>10, LexBounds
<1>12. LexAtMost(a, gain[f]) BY <1>0, <1>2, <1>3, <1>6, LiftsGain
<1>13. a \in Tuples(3) BY <1>0, GainType
<1>14. a[1] = Fair(R) /\ a[2] = Prio(R) /\ a[3] = Cardinality(R)
  <2>1. a = <<Fair(R), Prio(R), Cardinality(R)>> BY <1>0, GainOfRows
  <2> HIDE DEF a
  <2> QED BY <2>1
<1>15. gain[f] \in Tuples(3) BY <1>7
<1> HIDE DEF a, m
<1>16. LexAtMost(a, m) BY <1>11, <1>12, <1>13, <1>15, LexAtMostTransitive DEF Tuples
<1> DEFINE z == -Bill(R)
           d == Append(a, z)
           e == Append(m, 0)
<1>17. z \in Int /\ z <= 0 BY <1>0
<1> HIDE DEF z
<1>18. d \in Tuples(4) /\ e \in Tuples(4) BY <1>11, <1>13, <1>17, TupleAppend
<1>19. /\ d[1] = a[1] /\ d[2] = a[2] /\ d[3] = a[3] /\ d[4] = z
       /\ e[1] = m[1] /\ e[2] = m[2] /\ e[3] = m[3] /\ e[4] = 0
  <2>1. a \in Seq(Int) /\ Len(a) = 3 /\ m \in Seq(Int) /\ Len(m) = 3
    BY <1>11, <1>13 DEF Tuples
  <2> HIDE DEF d, e
  <2>2. d = Append(a, z) /\ e = Append(m, 0) BY DEF d, e
  <2> QED BY <1>17, <2>1, <2>2, TriplePart
<1> HIDE DEF d, e
<1>20. \/ a[1] < m[1]
       \/ a[1] = m[1] /\ a[2] < m[2]
       \/ a[1] = m[1] /\ a[2] = m[2] /\ a[3] <= m[3]
  BY <1>11, <1>13, <1>16, LexThree
<1>21. a[3] \in Int /\ m[3] \in Int
  <2>1. a \in Seq(Int) /\ Len(a) = 3 /\ m \in Seq(Int) /\ Len(m) = 3 /\ 3 \in 1..3
    BY <1>11, <1>13 DEF Tuples
  <2> QED BY <2>1, IntegerMembers
<1>22. \/ d[1] < e[1]
       \/ d[1] = e[1] /\ d[2] < e[2]
       \/ d[1] = e[1] /\ d[2] = e[2] /\ d[3] < e[3]
       \/ d[1] = e[1] /\ d[2] = e[2] /\ d[3] = e[3] /\ d[4] <= e[4]
  BY ONLY <1>17, <1>19, <1>20, <1>21
<1>23. LexAtMost(d, e) BY <1>18, <1>22, LexFour
<1>24. LexAtMost(Plus(Score(s), d), Plus(Score(s), e)) BY <1>0, <1>18, <1>23, PlusMonotone
<1>25. Plus(Score(s), d) = Total(s, R) BY <1>14, <1>19, <1>18, TotalOfParts DEF z, a
<1> QED BY <1>5, <1>24, <1>25 DEF e

\* Rows that share a route they both write exclude one another.
LEMMA RoutesGroup == ASSUME ProblemType PROVE Grouping(Routes)
<1> SUFFICES ASSUME NEW p \in DOMAIN rows, NEW q \in DOMAIN rows, p # q,
                    Routes[p] = Routes[q]
             PROVE  Conflict(rows[p], rows[q])
  BY DEF Grouping
<1> DEFINE a == rows[p]
           b == rows[q]
<1>1. RouteGroup(a) = RouteGroup(b) BY DEF Routes
<1>2. a.id # b.id BY DEF ProblemType
<1> HIDE DEF a, b
<1>3. SameRoute(a, b) /\ (\/ {a.class, b.class} \cap Certification # {}
                          \/ a.class = b.class /\ a.class \in Discovery)
  BY <1>1, <1>2 DEF RouteGroup, None, Discovery, SameRoute
<1>4. Conflict(a, b) BY <1>3 DEF Conflict, Ownership
<1> QED BY <1>4 DEF a, b

\* Nor do rows that share a route with discovery on it.
LEMMA MixedGroups ==
  ASSUME ProblemType, NEW d \in Discovery PROVE Grouping(Mixed(d))
<1> SUFFICES ASSUME NEW p \in DOMAIN rows, NEW q \in DOMAIN rows, p # q,
                    Mixed(d)[p] = Mixed(d)[q]
             PROVE  Conflict(rows[p], rows[q])
  BY DEF Grouping
<1> DEFINE a == rows[p]
           b == rows[q]
<1>1. MixedGroup(a, d) = MixedGroup(b, d) BY DEF Mixed
<1>2. \A x : RouteGroup(x)[1] # "mixed" BY DEF RouteGroup, None, Discovery
<1>3. CASE a.route # None /\ a.class \in Certification \cup {d}
  <2> HIDE DEF a, b
  <2>1. MixedGroup(a, d) = <<"mixed", a.route>> BY <1>3 DEF MixedGroup
  <2>2. MixedGroup(b, d)[1] = "mixed" /\ MixedGroup(b, d)[2] = a.route BY <1>1, <2>1
  <2>3. b.route # None /\ b.class \in Certification \cup {d} BY <1>2, <2>2 DEF MixedGroup
  <2>4. a.route = b.route BY <2>2, <2>3 DEF MixedGroup
  <2>5. \/ {a.class, b.class} \cap Certification # {}
        \/ a.class = b.class /\ a.class \in Discovery
    BY <1>3, <2>3
  <2>6. Conflict(a, b) BY <1>3, <2>4, <2>5 DEF Conflict, Ownership, SameRoute
  <2> QED BY <2>6 DEF a, b
<1>4. CASE ~(a.route # None /\ a.class \in Certification \cup {d})
  <2>1. Routes[p] = RouteGroup(a) /\ Routes[q] = RouteGroup(b) BY DEF Routes
  <2> HIDE DEF a, b
  <2>2. MixedGroup(a, d) = RouteGroup(a) BY <1>4 DEF MixedGroup
  <2>3. ~(b.route # None /\ b.class \in Certification \cup {d})
    BY <1>1, <2>2, <1>2 DEF MixedGroup
  <2>4. MixedGroup(b, d) = RouteGroup(b) BY <2>3 DEF MixedGroup
  <2>5. Routes[p] = Routes[q] BY <1>1, <2>1, <2>2, <2>4
  <2> QED BY <2>5, RoutesGroup DEF Grouping
<1> QED BY <1>3, <1>4

\* Nor do certifications of one target.
LEMMA TargetsGroup == ASSUME ProblemType PROVE Grouping(Targets)
<1> SUFFICES ASSUME NEW p \in DOMAIN rows, NEW q \in DOMAIN rows, p # q,
                    Targets[p] = Targets[q]
             PROVE  Conflict(rows[p], rows[q])
  BY DEF Grouping
<1> DEFINE a == rows[p]
           b == rows[q]
<1>1. TargetGroup(a) = TargetGroup(b) BY DEF Targets
<1>2. a.id # b.id BY DEF ProblemType
<1> HIDE DEF a, b
<1>3. a.target # None /\ a.class \in Certification BY <1>1, <1>2 DEF TargetGroup, None
<1>4. TargetGroup(a) = <<"target", a.target>> BY <1>3 DEF TargetGroup
<1>5. TargetGroup(b)[1] = "target" /\ TargetGroup(b)[2] = a.target BY <1>1, <1>4
<1>6. b.target # None /\ b.class \in Certification BY <1>5 DEF TargetGroup, None
<1>7. b.target = a.target BY <1>5, <1>6 DEF TargetGroup
<1>8. Conflict(a, b) BY <1>3, <1>6, <1>7 DEF Conflict, Ownership, SameTarget
<1> QED BY <1>8 DEF a, b

(* The optimistic bound is never below what a partial wave can become       *)
(* (parallel_admission.py:1693, parallel_relaxation.py:24).                 *)
LEMMA OptimisticAdmits ==
  ASSUME Placed, NEW s, NEW n, Ready(s, n), NEW R, Completion(R, s, n)
  PROVE  LexAtMost(Total(s, R), Optimistic(s, n))
<1>1. ProblemType /\ Sound(s) /\ n \in Nat \ {0} BY ProblemTyped, ReadyType DEF Ready
<1>2. \A g \in Groupings : Grouping(g)
  BY <1>1, RoutesGroup, MixedGroups, TargetsGroup DEF Groupings
<1> QED BY <1>1, <1>2, OptimisticType, ResourceAdmits, CliqueAdmits

\* The least identifiers, with the rows named by their set.
LEMMA LeastForm ==
  ASSUME NEW s, NEW n, NEW bound
  PROVE  LET missing == bound[3] - Len(s.sel)
             T == {[k \in 1..missing |-> rows[Sorted(Q, <)[k]].id] :
                     Q \in kSubset(missing, n..Len(rows))}
         IN  LeastIds(s, n, bound) = IF missing < 0 \/ T = {} THEN <<>> ELSE s.ids \o LexMin(T)
<1> DEFINE missing == bound[3] - Len(s.sel)
           Y == kSubset(missing, n..Len(rows))
           T == {[k \in 1..missing |-> rows[Sorted(Q, <)[k]].id] : Q \in Y}
<1>1. T = {[k \in 1..missing |-> rows[q[k]].id] : q \in {Sorted(Q, <) : Q \in Y}}
  BY ZenonT(30)
<1>2. LeastIds(s, n, bound) = IF missing < 0 \/ T = {} THEN <<>> ELSE s.ids \o LexMin(T)
  <2> HIDE DEF T, Y
  <2> QED BY <1>1 DEF LeastIds, Y
<1> QED BY <1>2

(* The least identifiers of a bound are not above those of a completion     *)
(* that meets it (parallel_admission.py:1852).                              *)
LEMMA LeastAdmits ==
  ASSUME Placed, NEW s, NEW n, Ready(s, n), NEW R, Completion(R, s, n),
         NEW bound, bound = Total(s, R)
  PROVE  LexAtMost(LeastIds(s, n, bound), Listing(s, R))
<1> DEFINE missing == bound[3] - Len(s.sel)
           Y == kSubset(missing, n..Len(rows))
           tail(Q) == [k \in 1..missing |-> rows[Sorted(Q, <)[k]].id]
           T == {tail(Q) : Q \in Y}
<1>0. /\ ProblemType /\ s.ids \in Seq(Int) /\ Len(s.sel) \in Nat
      /\ (n..Len(rows)) \in SUBSET DOMAIN rows /\ R \in SUBSET DOMAIN rows
      /\ IsFiniteSet(R) /\ Cardinality(R) \in Nat
      /\ Idents(R) \in Seq(Int) /\ R \subseteq n..Len(rows)
  BY ReadyType, CompletionType DEF Completion
<1>1. missing = Cardinality(R) BY <1>0 DEF Total
<1>2. LeastIds(s, n, bound) =
        IF missing < 0 \/ T = {} THEN <<>> ELSE s.ids \o LexMin(T)
  BY LeastForm
<1>3. R \in Y BY <1>0, <1>1 DEF kSubset
<1>4. tail(R) = Idents(R) BY <1>1 DEF Idents
<1> DEFINE g == [Q \in Y |-> tail(Q)]
<1>5. T = {g[Q] : Q \in Y} OBVIOUS
<1>6. IsFiniteSet(T)
  <2>1. IsFiniteSet(n..Len(rows)) BY <1>0, FS_Subset DEF ProblemType
  <2>2. IsFiniteSet(SUBSET (n..Len(rows))) BY <2>1, FS_SUBSET
  <2>3. Y \in SUBSET SUBSET (n..Len(rows)) BY DEF kSubset
  <2>4. IsFiniteSet(Y) BY <2>2, <2>3, FS_Subset
  <2> HIDE DEF g, T, Y
  <2> QED BY <1>5, <2>4, ImageFinite
<1>7. \A Q \in Y : tail(Q) \in Seq(Int) BY <1>0, IdentsType DEF kSubset, Idents
<1>8. Idents(R) \in T /\ T \subseteq Seq(Int)
  <2>1. tail(R) \in T BY <1>3
  <2>2. T \subseteq Seq(Int) BY <1>7
  <2> QED BY <1>4, <2>1, <2>2
<1> HIDE DEF T
<1>9. LexMin(T) \in Seq(Int) /\ LexAtMost(LexMin(T), Idents(R)) BY <1>6, <1>8, LexBounds
<1>10. LeastIds(s, n, bound) = s.ids \o LexMin(T) BY <1>0, <1>1, <1>8, <1>2
<1> QED BY <1>0, <1>9, <1>10, LexConcatLeft DEF Listing

\* What a partial wave is rated at is no worse than what it can become.
LEMMA RatedAdmits ==
  ASSUME Placed, NEW s, NEW n, Ready(s, n), NEW v \in Seq(Int), NEW i \in Seq(Int),
         Reach(s, n, v, i), NEW e, e = Rated(s, n)
  PROVE  NoWorse(e.bound, e.least, v, i)
<1>1. PICK R \in SUBSET DOMAIN rows :
        Completion(R, s, n) /\ NoWorse(Total(s, R), Listing(s, R), v, i)
  BY DEF Reach
<1> DEFINE b == Optimistic(s, n)
           l == LeastIds(s, n, b)
           t == Total(s, R)
           j == Listing(s, R)
<1>2. e.bound = b /\ e.least = l BY DEF Rated
<1>3. t \in Seq(Int) /\ j \in Seq(Int) BY <1>1, CompletionType DEF Tuples
<1>4. b \in Tuples(4) /\ Sound(s) /\ n \in Nat \ {0} BY ReadyType, OptimisticType DEF Ready
<1>5. l \in Seq(Int) BY <1>4, LeastIdsType
<1>6. LexAtMost(t, b) BY <1>1, OptimisticAdmits
<1>7. b = t => LexAtMost(l, j) BY <1>1, LeastAdmits
<1>8. NoWorse(t, j, v, i) BY <1>1
<1> HIDE DEF b, l, t, j
<1>9. NoWorse(b, l, t, j) BY <1>6, <1>7 DEF NoWorse, LexAtMost
<1>10. NoWorse(b, l, v, i) BY <1>3, <1>4, <1>5, <1>8, <1>9, NoWorseTransitive DEF Tuples
<1> QED BY <1>2, <1>10

-----------------------------------------------------------------------------

(* The rows and the problem never change, so neither do these.             *)

\* Sums, blocks and identifiers depend on the rows only.
LEMMA AmountsStable ==
  ASSUME wave' = wave, rows' = rows
  PROVE  /\ \A R : /\ Fair(R)' = Fair(R) /\ Prio(R)' = Prio(R) /\ Bill(R)' = Bill(R)
                   /\ Unprotected(R)' = Unprotected(R) /\ Guarded(R)' = Guarded(R)
         /\ \A R, c : InClass(R, c)' = InClass(R, c)
         /\ \A p : Blocks(p)' = Blocks(p)
         /\ \A R : Idents(R)' = Idents(R)
         /\ StartPools' = StartPools /\ Start' = Start /\ MaxCompanions' = MaxCompanions
         /\ \A a, b : Conflict(a, b)' <=> Conflict(a, b)
<1>1. \A R : Fair(R)' = Fair(R) BY DEF Fair, Weights, Weight, Due
<1>2. \A R : Prio(R)' = Prio(R) BY DEF Prio, Priorities, Priority
<1>3. \A R : Bill(R)' = Bill(R) BY DEF Bill, Charges, Charge
<1>4. \A R : Unprotected(R)' = Unprotected(R) /\ Guarded(R)' = Guarded(R)
  BY DEF Unprotected, Guarded, Protected
<1>5. \A R, c : InClass(R, c)' = InClass(R, c) BY DEF InClass, CapacityClass
<1>6. \A p : Blocks(p)' = Blocks(p)
  BY DEF Blocks, Exclusive, Identity, SameRoute, SameTarget
<1>7. \A R : Idents(R)' = Idents(R)
  <2> SUFFICES ASSUME NEW R PROVE Idents(R)' = Idents(R) OBVIOUS
  <2> DEFINE F(S) == Sorted(S, <)
  <2>1. Idents(R) = [k \in 1..Cardinality(R) |-> rows[F(R)[k]].id] BY DEF Idents
  <2>2. Idents(R)' = [k \in 1..Cardinality(R) |-> rows'[F(R)[k]].id] BY DEF Idents, Sorted
  <2> HIDE DEF F
  <2> QED BY <2>1, <2>2
<1>8. StartPools' = StartPools /\ MaxCompanions' = MaxCompanions
  BY DEF StartPools, MaxCompanions, NonNegative, Least, Protected
<1>9. StartCounts' = StartCounts BY DEF StartCounts, CapacityClass
<1>10. Start' = Start BY <1>8, <1>9 DEF Start
<1>11. \A a, b : Conflict(a, b)' <=> Conflict(a, b)
  BY DEF Conflict, Structural, Ownership, Exclusive, Identity, SameRoute, SameTarget
<1> QED BY <1>1, <1>2, <1>3, <1>4, <1>5, <1>6, <1>7, <1>8, <1>10, <1>11

\* Whether a partial wave is ready depends on them only.
LEMMA ReadyStable ==
  ASSUME wave' = wave, rows' = rows
  PROVE  /\ \A s : Exact(s)' <=> Exact(s)
         /\ \A s : \A n : Ready(s, n)' <=> Ready(s, n)
<1>1. \A s : Exact(s)' <=> Exact(s)
  <2> SUFFICES ASSUME NEW s PROVE Exact(s)' <=> Exact(s) OBVIOUS
  <2> DEFINE R == Range(s.sel)
             B == {Blocks(p) : p \in R}
  <2>1. Range(s.sel)' = R BY DEF Range
  <2>2. B' = B BY <2>1, AmountsStable
  <2> QED BY <2>1, <2>2, AmountsStable DEF Exact, NonNegative, Rising
<1>2. \A s : \A n : Ready(s, n)' <=> Ready(s, n) BY <1>1, SoundStable DEF Ready, Range
<1> QED BY <1>1, <1>2

\* And so does what it can reach.
LEMMA ReachStable ==
  ASSUME wave' = wave, rows' = rows
  PROVE  \A s, n, v, i : Reach(s, n, v, i)' <=> Reach(s, n, v, i)
<1> SUFFICES ASSUME NEW s, NEW n, NEW v, NEW i PROVE Reach(s, n, v, i)' <=> Reach(s, n, v, i)
  OBVIOUS
<1>1. \A R : Total(s, R)' = Total(s, R) /\ Listing(s, R)' = Listing(s, R)
  BY AmountsStable DEF Total, Listing
<1>2. \A R : Completion(R, s, n)' <=> Completion(R, s, n)
  BY AmountsStable DEF CapacityClass, Completion, Blocked, NonNegative
<1> QED BY <1>1, <1>2 DEF Reach, NoWorse

\* A ready partial wave is rated honestly.
LEMMA RatedHonest ==
  ASSUME Placed, NEW s, NEW n, Ready(s, n)
  PROVE  Honest(Rated(s, n)) /\ Rated(s, n).state = s /\ Rated(s, n).at = n
<1> DEFINE e == Rated(s, n)
<1>1. e.state = s /\ e.at = n BY DEF Rated
<1>2. IsEntry(e) BY RatedType DEF Ready
<1>3. \A v, i \in Seq(Int) : Reach(s, n, v, i) => NoWorse(e.bound, e.least, v, i)
  BY RatedAdmits
<1> HIDE DEF e
<1>4. Honest(e) BY <1>1, <1>2, <1>3 DEF Honest, IsEntry
<1> QED BY <1>1, <1>4 DEF e

\* An honest entry stays honest.
LEMMA HonestStable ==
  ASSUME wave' = wave, rows' = rows
  PROVE  \A e : Honest(e)' <=> Honest(e)
  BY ReadyStable, ReachStable DEF Honest, Tuples, NoWorse

\* All that is open at the start is exact.
LEMMA KeptStarts == ASSUME Placed, Init PROVE KeptInv
<1>1. Exact(Start) BY StartReady DEF Ready
<1>2. /\ best = Start /\ beam = {Start} /\ cut.parked = {} /\ queue = {} /\ reps = {}
  BY DEF Init, NoCut
<1> QED BY <1>1, <1>2 DEF KeptInv

\* A partial wave ready for a row is ready for a later one.
LEMMA ReadyLater ==
  ASSUME Placed, NEW s, NEW n, Ready(s, n), NEW m \in 1..(Len(rows) + 1), n <= m
  PROVE  Ready(s, m)
<1>1. Range(s.sel) \subseteq DOMAIN rows /\ DOMAIN rows = 1..Len(rows) /\ Len(rows) \in Nat
  BY ReadyType, ProblemTyped DEF ProblemType
<1>2. n \in 1..(Len(rows) + 1) /\ \A p \in Range(s.sel) : p < n BY DEF Ready
<1>3. \A p \in Range(s.sel) : p < m BY <1>1, <1>2
<1> QED BY <1>3 DEF Ready

\* The partial waves of the next layer.
LEMMA GrownReady ==
  ASSUME Placed, NEW B, NEW n \in DOMAIN rows, \A s \in B : Ready(s, n)
  PROVE  \A s \in Grown(B, n) : Ready(s, n + 1)
<1>1. n <= Len(rows) BY ProblemTyped DEF ProblemType
<1> SUFFICES ASSUME NEW s \in Grown(B, n) PROVE Ready(s, n + 1) OBVIOUS
<1>2. CASE s \in B BY <1>1, <1>2, SkipReady
<1>3. CASE s \notin B BY <1>3, <1>1, IncludeReady DEF Grown
<1> QED BY <1>2, <1>3

\* The partial waves of the beam may be extended from the next row on.
LEMMA BeamReady ==
  ASSUME SearchInv, KeptInv
  PROVE  \A s \in beam : Ready(s, layer + 1)
<1>1. ProblemType /\ Placed BY ProblemTyped DEF SearchInv
<1>2. layer \in 0..Len(rows) /\ Len(rows) \in Nat
  BY <1>1 DEF SearchInv, Counters, ProblemType
<1> SUFFICES ASSUME NEW s \in beam PROVE Ready(s, layer + 1) OBVIOUS
<1>3. Sound(s) /\ \A p \in Range(s.sel) : p <= layer BY DEF SearchInv, Open, IsLayer
<1>4. \A p \in Range(s.sel) : p \in Nat BY <1>1, <1>3, SelType
<1>5. \A p \in Range(s.sel) : p < layer + 1 BY <1>2, <1>3, <1>4
<1> QED BY <1>2, <1>3, <1>5 DEF Ready, KeptInv

-----------------------------------------------------------------------------

(* What the steps of the search do to what is open.                         *)

\* Not being beaten is being no worse.
LEMMA BetterNoWorse ==
  ASSUME Placed, NEW s, Sound(s), NEW t, Sound(t)
  PROVE  ~Better(t, s) <=> NoWorse(Score(s), s.ids, Score(t), t.ids)
<1>1. /\ Score(s) \in Seq(Int) /\ Score(t) \in Seq(Int)
      /\ s.ids \in Seq(Int) /\ t.ids \in Seq(Int)
  BY ScoreType DEF Tuples
<1>2. NoWorse(Score(s), s.ids, Score(t), t.ids) <=>
        ~(LexLess(Score(s), Score(t)) \/ (Score(s) = Score(t) /\ LexLess(t.ids, s.ids)))
  BY <1>1, NoWorseOrder
<1> QED BY <1>2 DEF Better

\* The better of two is no worse than either.
LEMMA BestNoWorse ==
  ASSUME Placed, NEW s, Sound(s), NEW t, Sound(t)
  PROVE  LET m == IF Better(s, t) THEN s ELSE t
         IN  /\ NoWorse(Score(m), m.ids, Score(s), s.ids)
             /\ NoWorse(Score(m), m.ids, Score(t), t.ids)
<1>1. /\ Score(s) \in Seq(Int) /\ Score(t) \in Seq(Int)
      /\ s.ids \in Seq(Int) /\ t.ids \in Seq(Int)
  BY ScoreType DEF Tuples
<1>2. /\ NoWorse(Score(s), s.ids, Score(s), s.ids)
      /\ NoWorse(Score(t), t.ids, Score(t), t.ids)
  BY <1>1, NoWorseOrder
<1>3. /\ ~Better(s, t) <=> NoWorse(Score(t), t.ids, Score(s), s.ids)
      /\ ~Better(t, s) <=> NoWorse(Score(s), s.ids, Score(t), t.ids)
  BY BetterNoWorse
<1>4. ~(Better(s, t) /\ Better(t, s)) BY BetterOrder
<1> QED BY <1>2, <1>3, <1>4

\* The best of a set is no worse than any of it.
LEMMA TopNoWorse ==
  ASSUME Placed, NEW S, IsFiniteSet(S), S # {}, \A s \in S : Sound(s), Unlike(S)
  PROVE  /\ Best(S) \in S
         /\ \A t \in S : NoWorse(Score(Best(S)), Best(S).ids, Score(t), t.ids)
<1> DEFINE m == Best(S)
<1>1. m \in S /\ \A t \in S \ {m} : Better(m, t) BY BestExists
<1> HIDE DEF m
<1>2. ASSUME NEW t \in S PROVE NoWorse(Score(m), m.ids, Score(t), t.ids)
  BY <1>1, ScoreType, NoWorseOrder, BetterOrder, BetterNoWorse DEF Tuples
<1> QED BY <1>1, <1>2 DEF m

\* What a step of the beam does.
LEMMA LayerParts ==
  ASSUME Layer
  PROVE  /\ phase = "beam" /\ layer < Len(rows) /\ beam # {}
         /\ best' = Incumbent /\ layer' = layer + 1
         /\ \/ layer + 1 = Len(rows) /\ beam' = {} /\ cut' = cut
            \/ /\ layer + 1 # Len(rows) /\ beam' = {e.state : e \in Leading}
               /\ cut' = IF Viable = Leading THEN cut ELSE CutOff(Viable \ Leading)
         /\ UNCHANGED <<wave, rows, queue, reps, nodes, phase, granted>>
<1> DEFINE n == layer + 2
           grown == Grown(beam, layer + 1)
           kept == Nondominated(Quotient(grown, n), n)
           leader == Best(kept)
           incumbent == IF Better(leader, best) THEN leader ELSE best
           rated == {Rated(s, n) : s \in kept}
           viable == {e \in rated : Promising(e, incumbent)}
           first == {e \in viable :
                       Cardinality({f \in viable : Ahead(f, e)}) < BeamWidth}
<1>1. /\ phase = "beam" /\ layer < Len(rows) /\ beam # {}
      /\ best' = incumbent
      /\ \/ layer + 1 = Len(rows) /\ beam' = {} /\ cut' = cut
         \/ /\ layer + 1 # Len(rows) /\ beam' = {e.state : e \in first}
            /\ cut' = IF viable = first THEN cut ELSE CutOff(viable \ first)
      /\ layer' = layer + 1
      /\ UNCHANGED <<wave, rows, queue, reps, nodes, phase, granted>>
  BY DEF Layer, Grown, Best
<1>2. kept = Kept /\ incumbent = Incumbent BY DEF Kept, Incumbent
<1>3. viable = Viable /\ first = Leading BY DEF Kept, Incumbent, Viable, Leading
<1> HIDE DEF kept, incumbent, viable, first, rated
<1> QED BY <1>1, <1>2, <1>3

\* What it works with is ready.
LEMMA LayerReady ==
  ASSUME SearchInv, KeptInv, phase = "beam", layer < Len(rows), beam # {}
  PROVE  /\ Placed /\ ProblemType /\ layer \in Nat /\ Len(rows) \in Nat
         /\ layer + 1 \in DOMAIN rows
         /\ IsFiniteSet(Grown(beam, layer + 1)) /\ Unlike(Grown(beam, layer + 1))
         /\ \A s \in Grown(beam, layer + 1) : Ready(s, layer + 2)
         /\ Kept \subseteq Grown(beam, layer + 1) /\ IsFiniteSet(Kept)
         /\ Ready(Best(Kept), layer + 2)
         /\ Sound(Incumbent) /\ Exact(Incumbent)
         /\ NoWorse(Score(Incumbent), Incumbent.ids, Score(best), best.ids)
         /\ \A t \in Kept : NoWorse(Score(Incumbent), Incumbent.ids, Score(t), t.ids)
         /\ IsFiniteSet(Viable) /\ \A e \in Viable : e.state \in Kept /\ Honest(e)
                                                      /\ e.at = layer + 2
<1> DEFINE G == Grown(beam, layer + 1)
           n == layer + 2
<1>1. Placed /\ ProblemType /\ layer \in Nat /\ Len(rows) \in Nat /\ layer + 1 \in DOMAIN rows
      /\ n = (layer + 1) + 1 /\ Sound(best) /\ IsFiniteSet(beam) /\ Unlike(beam)
  BY ProblemTyped DEF SearchInv, Counters, Open, IsLayer, ProblemType
<1>2. \A s \in beam : Ready(s, layer + 1) BY BeamReady
<1>3. \A s \in G : Ready(s, n) BY <1>1, <1>2, GrownReady
<1>4. IsFiniteSet(G) /\ Unlike(G)
  <2>1. \A s \in beam : Sound(s) /\ layer + 1 \notin Range(s.sel)
    <3> SUFFICES ASSUME NEW s \in beam PROVE Sound(s) /\ layer + 1 \notin Range(s.sel)
      OBVIOUS
    <3>1. Sound(s) /\ \A p \in Range(s.sel) : p < layer + 1 BY <1>2 DEF Ready
    <3> QED BY <1>1, <3>1
  <2> QED BY <1>1, <2>1, GrownSound
<1>5. G # {} BY DEF Grown
<1> HIDE DEF G
<1>6. \A s \in G : Sound(s) BY <1>3 DEF Ready
<1>7. Kept = Nondominated(Quotient(G, n), n) BY DEF Kept, G
<1>8. Kept \subseteq G BY <1>7 DEF Nondominated, Quotient
<1>9. Kept # {} BY <1>1, <1>4, <1>5, <1>6, <1>7, KeptBest
<1>10. IsFiniteSet(Kept) /\ Unlike(Kept) /\ \A s \in Kept : Sound(s)
  BY <1>4, <1>6, <1>8, FS_Subset DEF Unlike
<1> DEFINE m == Best(Kept)
           c == IF Better(m, best) THEN m ELSE best
<1>11. m \in Kept /\ \A t \in Kept : NoWorse(Score(m), m.ids, Score(t), t.ids)
  BY <1>1, <1>9, <1>10, TopNoWorse
<1>12. Incumbent = c BY DEF Incumbent
<1> HIDE DEF m
<1>13. Ready(m, n) /\ Sound(m) /\ Exact(m) BY <1>3, <1>8, <1>11 DEF Ready
<1>14. Sound(c) /\ Exact(c) BY <1>1, <1>13 DEF KeptInv
<1>15. /\ NoWorse(Score(c), c.ids, Score(best), best.ids)
       /\ NoWorse(Score(c), c.ids, Score(m), m.ids)
  BY <1>1, <1>13, BestNoWorse
<1> HIDE DEF c
<1>16. ASSUME NEW t \in Kept PROVE NoWorse(Score(c), c.ids, Score(t), t.ids)
  BY <1>10, <1>11, <1>1, <1>13, <1>14, ScoreType, <1>15, NoWorseTransitive DEF Tuples
<1> DEFINE g == [s \in Kept |-> Rated(s, n)]
           rated == {g[s] : s \in Kept}
<1>17. IsFiniteSet(rated) BY <1>10, ImageFinite
<1>18. Viable = {e \in rated : Promising(e, Incumbent)} BY DEF Viable
<1>19. ASSUME NEW e \in Viable PROVE e.state \in Kept /\ Honest(e) /\ e.at = n
  BY <1>1, <1>3, <1>8, RatedHonest DEF Viable
<1>20. IsFiniteSet(Viable) BY <1>17, <1>18, FS_Subset
<1> QED
  BY <1>1, <1>3, <1>4, <1>8, <1>10, <1>12, <1>13, <1>14, <1>15, <1>16, <1>19, <1>20
     DEF m, G

\* It leaves what is open exact.
LEMMA LayerKept == ASSUME SearchInv, KeptInv, Layer PROVE KeptInv'
<1>1. /\ phase = "beam" /\ layer < Len(rows) /\ beam # {}
      /\ best' = Incumbent /\ layer' = layer + 1
      /\ \/ layer + 1 = Len(rows) /\ beam' = {} /\ cut' = cut
         \/ /\ layer + 1 # Len(rows) /\ beam' = {e.state : e \in Leading}
            /\ cut' = IF Viable = Leading THEN cut ELSE CutOff(Viable \ Leading)
      /\ UNCHANGED <<wave, rows, queue, reps, nodes, phase, granted>>
  BY LayerParts
<1>2. /\ Exact(Incumbent) /\ Kept \subseteq Grown(beam, layer + 1)
      /\ \A s \in Grown(beam, layer + 1) : Ready(s, layer + 2)
      /\ \A e \in Viable : e.state \in Kept /\ Honest(e)
  BY <1>1, LayerReady
<1>3. Leading \subseteq Viable BY DEF Leading
<1>4. \A s \in beam' : Exact(s) BY <1>2, <1>3, <1>1 DEF Ready
<1>5. \A e \in cut'.parked : Honest(e) BY <1>1, <1>2 DEF KeptInv, CutOff
<1>6. Exact(best') /\ queue' = queue /\ reps' = reps /\ phase' = phase BY <1>1, <1>2
<1>7. layer' = Len(rows) => beam' = {} BY <1>1
<1> QED BY <1>1, <1>4, <1>5, <1>6, <1>7, ReadyStable, HonestStable DEF KeptInv

-----------------------------------------------------------------------------

(* The greedy wave, rebuilt by the search, is exact too.                    *)

\* The greedy wave is ready after each of its rows.
LEMMA RebuiltReady ==
  ASSUME Placed, GreedyAdmissible
  PROVE  \A k \in 0..Len(GreedyPositions) : Ready(Rebuilt[k], RebuiltAt(k))
<1> DEFINE n == Len(GreedyPositions)
           P == GreedyPositions
           X == {k \in Nat : k <= n => Ready(Rebuilt[k], RebuiltAt(k))}
<1>0. ProblemType BY ProblemTyped
<1>1. /\ n \in Nat /\ DOMAIN P = 1..n
      /\ \A k \in 1..n : P[k] \in DOMAIN rows
      /\ \A j, k \in 1..n : j < k => P[j] < P[k]
      /\ DOMAIN rows = 1..Len(rows) /\ Len(rows) \in Nat
  BY <1>0, GreedyPositionsType DEF GreedyRows, ProblemType
<1>2. 0 \in X BY RebuiltSteps, StartReady DEF RebuiltAt
<1>3. ASSUME NEW k \in Nat, k \in X PROVE k + 1 \in X
  <2> SUFFICES ASSUME k + 1 <= n PROVE Ready(Rebuilt[k + 1], RebuiltAt(k + 1)) OBVIOUS
  <2> DEFINE s == Rebuilt[k]
             p == P[k + 1]
  <2>1. Ready(s, RebuiltAt(k)) BY <1>1, <1>3
  <2>2. k + 1 \in 1..n /\ (k + 1) - 1 = k /\ p \in DOMAIN rows BY <1>1
  <2>3. Rebuilt[k + 1] = Include(s, p) /\ RebuiltAt(k + 1) = p + 1
    BY <2>2, RebuiltSteps DEF RebuiltAt
  <2>4. Admits(s, p) BY <1>1, <2>2 DEF GreedyAdmissible
  <2>5. RebuiltAt(k) <= p
    <3>1. CASE k = 0 BY <1>1, <2>2, <3>1 DEF RebuiltAt
    <3>2. CASE k # 0
      <4>1. k \in 1..n /\ k < k + 1 BY <1>1, <2>2, <3>2
      <4>2. P[k] < p /\ P[k] \in 1..Len(rows) /\ p \in 1..Len(rows) BY <1>1, <2>2, <4>1
      <4>3. RebuiltAt(k) = P[k] + 1 BY <3>2 DEF RebuiltAt
      <4> HIDE DEF p
      <4> QED BY <1>1, <4>2, <4>3
    <3> QED BY <3>1, <3>2
  <2> HIDE DEF s, p
  <2>6. p \in 1..(Len(rows) + 1) /\ p <= Len(rows) BY <1>1, <2>2
  <2>7. Ready(s, p) BY <2>1, <2>5, <2>6, ReadyLater
  <2>8. Ready(Include(s, p), p + 1) BY <2>4, <2>6, <2>7, IncludeReady
  <2> QED BY <2>3, <2>8
<1>4. \A k \in Nat : k \in X
  <2> HIDE DEF X
  <2> QED BY <1>2, <1>3, Induct
<1> QED BY <1>1, <1>4

\* So it is exact.
LEMMA GreedyExact ==
  ASSUME Placed, GreedyAdmissible
  PROVE  Sound(GreedyState) /\ Exact(GreedyState)
<1>1. Len(GreedyPositions) \in 0..Len(GreedyPositions) BY ProblemTyped, GreedyPositionsType
<1> QED BY <1>1, RebuiltReady DEF GreedyState, Ready

\* The comparison leaves what is open exact.
LEMMA CompareKept == ASSUME SearchInv, KeptInv, CompareGreedy PROVE KeptInv'
<1>1. /\ phase = "beam" /\ phase' # "beam"
      /\ UNCHANGED <<wave, rows, layer, beam, cut, nodes, granted>>
      /\ best' = IF GreedyAdmissible /\ Better(GreedyState, best) THEN GreedyState ELSE best
      /\ \/ queue' = queue
         \/ queue' = Entering({Rated(Start, 1)}, best')
         \/ queue' = Entering(cut.parked, best')
  BY DEF CompareGreedy
<1>2. Placed BY DEF SearchInv
<1>3. Exact(best') BY <1>1, <1>2, GreedyExact DEF KeptInv
<1>4. \A e \in queue' : Honest(e)
  BY <1>2, StartReady, RatedHonest, <1>1 DEF Entering, KeptInv
<1>5. \A s \in beam' : Exact(s) BY <1>1 DEF KeptInv
<1> QED BY <1>1, <1>3, <1>4, <1>5, ReadyStable, HonestStable DEF KeptInv

\* What an expansion does.
LEMMA ExpandParts ==
  ASSUME Expand
  PROVE  /\ phase = "complete" /\ nodes' = nodes + 1
         /\ UNCHANGED <<wave, rows, layer, beam, cut, phase, granted>>
         /\ \E e \in queue :
              /\ best' = Winner(e)
              /\ queue' = (queue \ {e}) \cup Entering(Offspring(e), Winner(e))
              /\ reps' = Represent(Entering(Offspring(e), Winner(e)))
<1> DEFINE C(e) == IF ~(~Stale(e) /\ Promising(e, best) /\ e.at <= Len(rows)) THEN {}
                   ELSE {e.state} \union
                          (IF Admits(e.state, e.at) THEN {Include(e.state, e.at)} ELSE {})
           W(e) == {s \in C(e) \union (IF ~Stale(e) /\ Promising(e, best)
                                       THEN {e.state} ELSE {}) : Better(s, best)}
           I(e) == IF W(e) = {} THEN best ELSE Best(W(e))
           N(e) == Entering({Rated(s, e.at + 1) : s \in C(e)}, I(e))
<1>1. /\ phase = "complete" /\ nodes' = nodes + 1
      /\ UNCHANGED <<wave, rows, layer, beam, cut, phase, granted>>
      /\ \E e \in queue : /\ best' = I(e) /\ queue' = (queue \ {e}) \cup N(e)
                          /\ reps' = Represent(N(e))
  BY DEF Expand, Best
<1>2. \A e : C(e) = Children(e) BY DEF Children, Lively, Grown
<1> HIDE DEF C
<1>3. \A e : W(e) = Winners(e) BY <1>2 DEF Winners, Lively
<1> HIDE DEF W
<1>4. \A e : I(e) = Winner(e) BY <1>3 DEF Winner
<1> HIDE DEF I
<1>5. \A e : N(e) = Entering(Offspring(e), Winner(e)) BY <1>2, <1>4 DEF Offspring
<1> HIDE DEF N
<1> QED BY <1>1, <1>4, <1>5

\* What it works with is ready.
LEMMA ExpandReady ==
  ASSUME SearchInv, KeptInv, NEW e \in queue
  PROVE  /\ Placed /\ Honest(e) /\ Ready(e.state, e.at)
         /\ e.at \in Nat \ {0} /\ Len(rows) \in Nat
         /\ IsFiniteSet(Children(e))
         /\ \A s \in Children(e) : Ready(s, e.at + 1) /\ e.at <= Len(rows)
         /\ IsFiniteSet(Offspring(e))
         /\ \A f \in Offspring(e) : f.state \in Children(e) /\ f.at = e.at + 1 /\ Honest(f)
         /\ Sound(best) /\ Sound(Winner(e)) /\ Exact(Winner(e))
         /\ NoWorse(Score(Winner(e)), Winner(e).ids, Score(best), best.ids)
         /\ Lively(e) => NoWorse(Score(Winner(e)), Winner(e).ids, Score(e.state), e.state.ids)
<1>1. Placed /\ ProblemType /\ Sound(best) /\ Honest(e) /\ Ready(e.state, e.at)
  BY ProblemTyped DEF SearchInv, Open, KeptInv, Honest
<1>2. /\ e.at \in Nat \ {0} /\ Len(rows) \in Nat
      /\ (e.at <= Len(rows) => e.at \in DOMAIN rows)
      /\ Sound(e.state) /\ e.at \notin Range(e.state.sel)
  BY <1>1 DEF Ready, ProblemType
<1> DEFINE B == {e.state}
           C == Children(e)
<1>3. IsFiniteSet(B) /\ Unlike(B) BY FS_Singleton DEF Unlike
<1>4. IsFiniteSet(C) /\ Unlike(C) /\ \A s \in C : Ready(s, e.at + 1) /\ e.at <= Len(rows)
  <2>1. CASE C = {} BY <2>1, FS_EmptySet DEF Unlike
  <2>2. CASE C # {}
    <3>1. e.at <= Len(rows) /\ C = Grown(B, e.at) /\ e.at \in DOMAIN rows
      BY <1>2, <2>2 DEF Children
    <3> HIDE DEF C
    <3>2. \A s \in B : Ready(s, e.at) /\ Sound(s) /\ e.at \notin Range(s.sel) BY <1>1, <1>2
    <3> HIDE DEF B
    <3>3. IsFiniteSet(C) /\ Unlike(C) BY <1>1, <1>3, <3>1, <3>2, GrownSound
    <3>4. \A s \in C : Ready(s, e.at + 1) BY <1>1, <3>1, <3>2, GrownReady
    <3> QED BY <3>1, <3>3, <3>4
  <2> QED BY <2>1, <2>2
<1> HIDE DEF C
<1>5. \A f \in Offspring(e) : f.state \in C /\ f.at = e.at + 1 /\ Honest(f)
  BY <1>1, <1>4, RatedHonest DEF Offspring, C
<1>6. IsFiniteSet(Offspring(e))
  <2> DEFINE g == [s \in C |-> Rated(s, e.at + 1)]
  <2>1. Offspring(e) = {g[s] : s \in C} BY DEF Offspring, C
  <2> HIDE DEF g
  <2> QED BY <1>4, <2>1, ImageFinite
<1> DEFINE W == Winners(e)
<1>7. /\ Lively(e) /\ Better(e.state, best) => e.state \in W
      /\ \A s \in W : s \in C \cup B /\ Better(s, best)
  BY DEF Winners, C
<1>8. C # {} => e.state \in C BY DEF Children, Grown, C
<1> HIDE DEF W
<1>9. IsFiniteSet(C \cup B) /\ Unlike(C \cup B)
  <2>1. IsFiniteSet(C \cup B) BY <1>3, <1>4, FS_Union
  <2>2. C \cup B = C \/ C \cup B = B BY <1>8
  <2> HIDE DEF B
  <2> QED BY <1>3, <1>4, <2>1, <2>2
<1>10. \A s \in C \cup B : Sound(s) /\ Exact(s) BY <1>1, <1>4 DEF Ready
<1>11. IsFiniteSet(W) /\ Unlike(W) /\ \A s \in W : Sound(s) /\ Exact(s)
  <2>1. W \subseteq C \cup B BY <1>7
  <2> HIDE DEF B
  <2> QED BY <1>9, <1>10, <2>1, FS_Subset DEF Unlike
<1>12. CASE W = {}
  BY <1>12, <1>1, ScoreType, NoWorseOrder, <1>2, <1>7, BetterNoWorse, <1>4, <1>5, <1>6 DEF
       Winner, W, Tuples, KeptInv, C
<1>13. CASE W # {}
  <2> DEFINE m == Best(W)
  <2>1. Winner(e) = m BY <1>13 DEF Winner, W
  <2>2. m \in W /\ \A t \in W : NoWorse(Score(m), m.ids, Score(t), t.ids)
    BY <1>1, <1>11, <1>13, TopNoWorse
  <2> HIDE DEF m
  <2>3. Sound(m) /\ Exact(m) /\ Better(m, best) BY <1>7, <1>11, <2>2
  <2>4. NoWorse(Score(m), m.ids, Score(best), best.ids)
    BY <1>1, <2>3, BetterOrder, BetterNoWorse
  <2>5. Lively(e) => NoWorse(Score(m), m.ids, Score(e.state), e.state.ids)
    <3> SUFFICES ASSUME Lively(e) PROVE NoWorse(Score(m), m.ids, Score(e.state), e.state.ids)
      OBVIOUS
    <3>1. CASE Better(e.state, best) BY <1>7, <2>2, <3>1
    <3>2. CASE ~Better(e.state, best)
      <4>1. NoWorse(Score(best), best.ids, Score(e.state), e.state.ids)
        BY <1>1, <1>2, <3>2, BetterNoWorse
      <4>2. /\ Score(m) \in Seq(Int) /\ m.ids \in Seq(Int)
            /\ Score(best) \in Seq(Int) /\ best.ids \in Seq(Int)
            /\ Score(e.state) \in Seq(Int) /\ e.state.ids \in Seq(Int)
        BY <1>1, <1>2, <2>3, ScoreType DEF Tuples
      <4> QED BY <2>4, <4>1, <4>2, NoWorseTransitive
    <3> QED BY <3>1, <3>2
  <2> QED BY <1>1, <1>2, <1>4, <1>5, <1>6, <2>1, <2>3, <2>4, <2>5 DEF C
<1> QED BY <1>12, <1>13

\* It leaves what is open exact.
LEMMA ExpandKept == ASSUME SearchInv, KeptInv, Expand PROVE KeptInv'
<1>1. PICK e \in queue :
        /\ best' = Winner(e)
        /\ queue' = (queue \ {e}) \cup Entering(Offspring(e), Winner(e))
  BY ExpandParts
<1>2. phase = "complete" /\ UNCHANGED <<wave, rows, layer, beam, cut, phase, granted>>
  BY ExpandParts
<1>3. Exact(Winner(e)) /\ \A f \in Offspring(e) : Honest(f) BY ExpandReady
<1>4. \A f \in queue' : Honest(f) BY <1>1, <1>3 DEF Entering, KeptInv
<1>5. \A s \in beam' : Exact(s) BY <1>2 DEF KeptInv
<1>6. Exact(best') /\ phase' # "beam" BY <1>1, <1>2, <1>3
<1> QED BY <1>2, <1>4, <1>5, <1>6, ReadyStable, HonestStable DEF KeptInv

\* The other steps open nothing.
LEMMA RestKept ==
  ASSUME KeptInv, \/ EndCompletion \/ Allocate \/ UNCHANGED vars
  PROVE  KeptInv'
<1>1. /\ UNCHANGED <<wave, rows, layer, beam, best, queue, reps>>
      /\ phase' = "beam" => phase = "beam" /\ cut' = cut
  BY DEF EndCompletion, Allocate, vars
<1> QED BY <1>1, ReadyStable, HonestStable DEF KeptInv

(* What is open stays exact and rated no worse than what it can become.     *)
LEMMA SearchKept == Spec => [](SearchInv /\ KeptInv)
<1>1. Init => SearchInv /\ KeptInv BY SearchStarts, KeptStarts DEF SearchInv
<1>2. SearchInv /\ KeptInv /\ [Next]_vars => SearchInv' /\ KeptInv'
  BY LayerKeeps, LayerKept, CompareKeeps, CompareKept, ExpandKeeps, ExpandKept, EndKeeps,
       RestKept, AllocateKeeps, IdleKeeps DEF Next, Finished
<1> QED BY <1>1, <1>2, PTL DEF Spec

(* The bound of a partial wave is never below the objective of a wave that *)
(* may run and extends it by rows not yet decided: so what the bounds cut  *)
(* away could not have won (parallel_admission.py:1693).                   *)
LEMMA BoundsHonest == ASSUME SearchInv, KeptInv PROVE BoundAdmissible
<1> SUFFICES ASSUME phase = "beam", layer < Len(rows), NEW s \in beam,
                    NEW Q \in SUBSET {rows[p] : p \in (layer + 1)..Len(rows)},
                    Feasible(Q \union {rows[p] : p \in Range(s.sel)})
             PROVE  LexAtMost(Worth(Q \union {rows[p] : p \in Range(s.sel)}),
                              Optimistic(s, layer + 1))
  BY DEF BoundAdmissible
<1> DEFINE n == layer + 1
           A == Range(s.sel)
           F == Q \union {rows[p] : p \in A}
           R == {p \in n..Len(rows) : rows[p] \in Q}
           all == {p \in DOMAIN rows : rows[p] \in F}
<1>1. Placed /\ ProblemType /\ Ready(s, n) BY ProblemTyped, BeamReady DEF SearchInv
<1>2. /\ A \in SUBSET DOMAIN rows /\ (n..Len(rows)) \in SUBSET DOMAIN rows
      /\ \A p \in DOMAIN rows : rows[p] \in wave.candidates
      /\ \A p, q \in DOMAIN rows : rows[p] = rows[q] => p = q
  BY <1>1, ReadyType, RowsDistinct DEF ProblemType
<1>3. F \in SUBSET wave.candidates /\ F = Q \cup RowsAt(A) BY <1>2 DEF RowsAt
<1>4. all = A \cup R BY <1>2
<1> HIDE DEF F, A, R, n
<1>5. all \in SUBSET DOMAIN rows /\ F = RowsAt(all) /\ Completion(all, Start, 1)
  BY <1>1, <1>3, FeasibleCompletes DEF F, A
<1> HIDE DEF all
<1>6. R \in SUBSET (n..Len(rows)) BY DEF R
<1>7. Completion(R, s, n) /\ Total(s, R) = Total(Start, all)
  BY <1>1, <1>4, <1>5, <1>6, CompletionExtends DEF A
<1>8. Worth(F) = Total(s, R) BY <1>1, <1>5, <1>7, WorthOfRows
<1>9. LexAtMost(Total(s, R), Optimistic(s, n)) BY <1>1, <1>7, OptimisticAdmits
<1> QED BY <1>8, <1>9 DEF F, A, n

(* Every optimistic bound the beam relies on is admissible, at every step  *)
(* of every search.                                                        *)
THEOREM BoundsHold == Spec => []BoundAdmissible
<1>1. SearchInv /\ KeptInv => BoundAdmissible BY BoundsHonest
<1> QED BY <1>1, SearchKept, PTL

-----------------------------------------------------------------------------

(* What the search still covers: an objective v with identifiers i.         *)

\* A score is not empty.
LEMMA TupleFilled == ASSUME NEW x \in Tuples(4) PROVE x # <<>>
<1>1. x \in Seq(Int) /\ Len(x) = 4 BY DEF Tuples
<1>2. CASE x = <<>> BY <1>1, <1>2
<1> QED BY <1>2

\* Both the largest bound of D and the least identifiers that meet it.
LEMMA Extremes ==
  ASSUME NEW D, IsFiniteSet(D), D # {},
         \A e \in D : e.bound \in Tuples(4) /\ e.least \in Seq(Int)
  PROVE  LET b == LexMax({e.bound : e \in D})
             l == LexMin({e.least : e \in {f \in D : f.bound = b}})
         IN  /\ b \in Tuples(4) /\ l \in Seq(Int)
             /\ \A e \in D : NoWorse(b, l, e.bound, e.least)
<1> DEFINE b == LexMax({e.bound : e \in D})
           L == {f \in D : f.bound = b}
           l == LexMin({e.least : e \in L})
<1>1. b \in Tuples(4) /\ b \in {e.bound : e \in D} /\ \A e \in D : LexAtMost(e.bound, b)
  <2> DEFINE g == [e \in D |-> e.bound]
             S == {e.bound : e \in D}
  <2>1. S = {g[e] : e \in D} OBVIOUS
  <2> HIDE DEF g
  <2>2. IsFiniteSet(S) BY <2>1, ImageFinite
  <2>3. S \subseteq Tuples(4) /\ S # {} /\ \A e \in D : e.bound \in S OBVIOUS
  <2>4. b = LexMax(S) OBVIOUS
  <2> HIDE DEF S, b
  <2>5. S \subseteq Seq(Int) BY <2>3 DEF Tuples
  <2>6. b \in S /\ \A x \in S : LexAtMost(x, b) BY <2>2, <2>3, <2>4, <2>5, LexBounds
  <2> QED BY <2>3, <2>6 DEF S
<1> HIDE DEF b
<1>2. IsFiniteSet(L) /\ L # {} /\ L \subseteq D BY <1>1, FS_Subset
<1>3. l \in Seq(Int) /\ \A e \in L : LexAtMost(l, e.least)
  <2> HIDE DEF L
  <2> DEFINE g == [e \in L |-> e.least]
             S == {e.least : e \in L}
  <2>1. S = {g[e] : e \in L} OBVIOUS
  <2> HIDE DEF g
  <2>2. IsFiniteSet(S) BY <1>2, <2>1, ImageFinite
  <2>3. S \subseteq Seq(Int) /\ S # {} /\ \A e \in L : e.least \in S BY <1>2
  <2>4. l = LexMin(S) OBVIOUS
  <2> HIDE DEF S, l
  <2>5. l \in S /\ \A x \in S : LexAtMost(l, x) BY <2>2, <2>3, <2>4, LexBounds
  <2> QED BY <2>3, <2>5
<1> HIDE DEF l
<1>4. ASSUME NEW e \in D PROVE NoWorse(b, l, e.bound, e.least)
  BY <1>3, <1>1 DEF NoWorse, L, LexAtMost
<1> QED BY <1>1, <1>3, <1>4 DEF b, l, L

\* The lesser of two sequences.
LEMMA LeastOfTwo ==
  ASSUME NEW a \in Seq(Int), NEW b \in Seq(Int)
  PROVE  /\ LexMin({a, b}) \in Seq(Int)
         /\ LexAtMost(LexMin({a, b}), a) /\ LexAtMost(LexMin({a, b}), b)
<1>1. IsFiniteSet({a, b})
  <2>1. IsFiniteSet({} \cup {a}) /\ IsFiniteSet(({} \cup {a}) \cup {b})
    BY FS_EmptySet, FS_AddElement
  <2>2. ({} \cup {a}) \cup {b} = {a, b} OBVIOUS
  <2> QED BY <2>1, <2>2
<1>2. {a, b} \subseteq Seq(Int) /\ {a, b} # {} /\ a \in {a, b} /\ b \in {a, b} OBVIOUS
<1> QED BY <1>1, <1>2, LexBounds

\* The record of what was cut off covers what it covered before, and what is
\* cut off now.
LEMMA CutOffCovers ==
  ASSUME IsCut(cut), NEW D, IsFiniteSet(D), D # {}, \A e \in D : IsEntry(e),
         NEW v \in Seq(Int), NEW i \in Seq(Int),
         \/ Cuts(cut, v, i)
         \/ \E e \in D : Reach(e.state, e.at, v, i) /\ NoWorse(e.bound, e.least, v, i)
  PROVE  Cuts(CutOff(D), v, i)
<1> DEFINE b == LexMax({e.bound : e \in D})
           l == LexMin({e.least : e \in {f \in D : f.bound = b}})
           P == cut.parked \cup D
           c == CutOff(D)
           fresh == cut.bound = <<>> \/ LexLess(cut.bound, b)
<1>1. /\ b \in Tuples(4) /\ b \in Seq(Int) /\ l \in Seq(Int)
      /\ \A e \in D : NoWorse(b, l, e.bound, e.least)
  BY Extremes DEF IsEntry, Tuples
<1>2. /\ c.bound = IF fresh THEN b ELSE cut.bound
      /\ c.ids = IF fresh THEN l ELSE IF b = cut.bound THEN LexMin({l, cut.ids}) ELSE cut.ids
      /\ c.overflow \/ c.parked = P
      /\ cut.overflow => c.overflow
  BY DEF CutOff
<1>3. cut.bound # <<>> => cut.bound \in Tuples(4) /\ cut.bound \in Seq(Int) /\ cut.ids \in Seq(Int)
  BY DEF IsCut, Tuples
<1>4. c.bound \in Tuples(4) /\ c.bound \in Seq(Int) /\ c.ids \in Seq(Int) /\ c.bound # <<>>
  <2>1. IsCut(c) BY CutOffType
  <2>2. c.bound = b \/ (c.bound = cut.bound /\ cut.bound # <<>>) BY <1>2
  <2>3. c.bound \in Tuples(4) BY <1>1, <1>3, <2>2
  <2> HIDE DEF c
  <2>4. c.bound # <<>> BY <2>3, TupleFilled
  <2> QED BY <2>1, <2>3, <2>4 DEF IsCut, Tuples
<1> HIDE DEF b, l, c, P
<1>5. NoWorse(c.bound, c.ids, b, l) /\ (cut.bound # <<>> => NoWorse(c.bound, c.ids, cut.bound, cut.ids))
  BY <1>2, <1>3, <1>1, LeastOfTwo, LexTotal DEF NoWorse, LexAtMost
<1>6. CASE Cuts(cut, v, i)
  <2>1. NoWorse(cut.bound, cut.ids, v, i) /\ cut.bound # <<>> BY <1>6 DEF Cuts
  <2>2. NoWorse(c.bound, c.ids, v, i) BY <1>3, <1>4, <1>5, <2>1, NoWorseTransitive
  <2>3. c.overflow \/ \E e \in c.parked : Reach(e.state, e.at, v, i)
    BY <1>2, <1>6 DEF Cuts, P
  <2> QED BY <1>4, <2>2, <2>3 DEF Cuts, c
<1>7. ASSUME NEW e \in D, Reach(e.state, e.at, v, i), NoWorse(e.bound, e.least, v, i)
      PROVE  Cuts(CutOff(D), v, i)
  <2>1. e.bound \in Seq(Int) /\ e.least \in Seq(Int) /\ NoWorse(b, l, e.bound, e.least)
    BY <1>1 DEF IsEntry, Tuples
  <2>2. NoWorse(b, l, v, i) BY <1>1, <1>7, <2>1, NoWorseTransitive
  <2>3. NoWorse(c.bound, c.ids, v, i) BY <1>1, <1>4, <1>5, <2>2, NoWorseTransitive
  <2>4. c.overflow \/ e \in c.parked BY <1>2 DEF P
  <2> QED BY <1>4, <1>7, <2>3, <2>4 DEF Cuts, c
<1> QED BY <1>6, <1>7

\* An entry that is not promising is covered by the incumbent.
LEMMA Hopeless ==
  ASSUME Placed, NEW s, Sound(s), NEW e, Honest(e), ~Promising(e, s),
         NEW v \in Seq(Int), NEW i \in Seq(Int), Reach(e.state, e.at, v, i)
  PROVE  Matched(s, v, i)
<1>1. /\ Score(s) \in Seq(Int) /\ s.ids \in Seq(Int)
      /\ e.bound \in Seq(Int) /\ e.least \in Seq(Int)
      /\ NoWorse(e.bound, e.least, v, i)
  BY ScoreType DEF Honest, Tuples
<1>2. NoWorse(Score(s), s.ids, e.bound, e.least) BY <1>1, NoWorseOrder DEF Promising
<1> QED BY <1>1, <1>2, NoWorseTransitive DEF Matched

\* What a partial wave matches, a better one matches.
LEMMA MatchedBy ==
  ASSUME Placed, NEW s, Sound(s), NEW t, Sound(t),
         NoWorse(Score(s), s.ids, Score(t), t.ids),
         NEW v \in Seq(Int), NEW i \in Seq(Int), Matched(t, v, i)
  PROVE  Matched(s, v, i)
<1>1. /\ Score(s) \in Seq(Int) /\ s.ids \in Seq(Int)
      /\ Score(t) \in Seq(Int) /\ t.ids \in Seq(Int)
  BY ScoreType DEF Tuples
<1> QED BY <1>1, NoWorseTransitive DEF Matched

\* A layer still covers what the last one covered.
LEMMA LayerCovers ==
  ASSUME SearchInv, KeptInv, Layer, NEW v \in Seq(Int), NEW i \in Seq(Int), BeamCovers(v, i)
  PROVE  \/ Matched(best', v, i)
         \/ \E s \in beam' : Reach(s, layer' + 1, v, i)
         \/ Cuts(cut', v, i)
<1> DEFINE n == layer + 2
           D == Viable \ Leading
<1>1. /\ phase = "beam" /\ layer < Len(rows) /\ beam # {}
      /\ best' = Incumbent /\ layer' = layer + 1
      /\ \/ layer + 1 = Len(rows) /\ beam' = {} /\ cut' = cut
         \/ /\ layer + 1 # Len(rows) /\ beam' = {e.state : e \in Leading}
            /\ cut' = IF Viable = Leading THEN cut ELSE CutOff(D)
  BY LayerParts
<1>2. /\ Placed /\ ProblemType /\ layer \in Nat /\ Len(rows) \in Nat
      /\ layer + 1 \in DOMAIN rows
      /\ IsFiniteSet(Grown(beam, layer + 1)) /\ Unlike(Grown(beam, layer + 1))
      /\ \A s \in Grown(beam, layer + 1) : Ready(s, n)
      /\ Kept \subseteq Grown(beam, layer + 1)
      /\ Sound(Incumbent)
      /\ NoWorse(Score(Incumbent), Incumbent.ids, Score(best), best.ids)
      /\ \A t \in Kept : NoWorse(Score(Incumbent), Incumbent.ids, Score(t), t.ids)
      /\ IsFiniteSet(Viable)
      /\ \A e \in Viable : e.state \in Kept /\ Honest(e) /\ e.at = n
  BY <1>1, LayerReady
<1>3. Sound(best) /\ IsCut(cut) BY <1>1 DEF SearchInv, Open
<1>4. IsFiniteSet(D) /\ (\A e \in D : IsEntry(e)) /\ (Viable # Leading => D # {})
  BY <1>2, FS_Subset DEF Leading, Honest, Ready, IsEntry
<1>5. CASE Matched(best, v, i) BY <1>1, <1>2, <1>3, <1>5, MatchedBy
<1>6. CASE Cuts(cut, v, i) BY <1>3, <1>4, <1>6, CutOffCovers, <1>1
<1>7. ASSUME NEW s \in beam, Reach(s, layer + 1, v, i)
      PROVE  \/ Matched(best', v, i)
             \/ \E t \in beam' : Reach(t, layer' + 1, v, i)
             \/ Cuts(cut', v, i)
  <2>1. Ready(s, layer + 1) /\ layer + 1 <= Len(rows) /\ (layer + 1) + 1 = n
        /\ n \in Nat /\ layer' + 1 = n
    BY <1>1, <1>2, BeamReady
  <2>2. Reach(s, n, v, i) \/ (Admits(s, layer + 1) /\ Reach(Include(s, layer + 1), n, v, i))
    BY <1>2, <1>7, <2>1, ReachStep
  <2>3. PICK g \in Grown(beam, layer + 1) : Reach(g, n, v, i) BY <2>2 DEF Grown
  <2>4. PICK t \in Kept : t = g \/ Dominates(t, g, n) BY <1>2, <2>3, KeptDominates DEF Kept
  <2>5. Ready(t, n) /\ Ready(g, n) BY <1>2, <2>4
  <2>6. Reach(t, n, v, i) BY <1>2, <2>3, <2>4, <2>5, ReachDominated
  <2>7. CASE layer + 1 = Len(rows)
    <3>1. n = Len(rows) + 1 BY <1>2, <2>7
    <3>2. Matched(t, v, i) BY <1>2, <2>5, <2>6, <3>1, ReachEnd DEF Matched
    <3>3. Sound(t) BY <2>5 DEF Ready
    <3> QED BY <1>1, <1>2, <2>4, <3>2, <3>3, MatchedBy
  <2>8. CASE layer + 1 # Len(rows)
    <3> DEFINE e == Rated(t, n)
    <3>1. Honest(e) /\ e.state = t /\ e.at = n BY <1>2, <2>5, RatedHonest
    <3>2. Promising(e, Incumbent) => e \in Viable BY <2>4 DEF Viable
    <3> HIDE DEF e, n
    <3>3. CASE ~Promising(e, Incumbent) BY <1>1, <1>2, <2>6, <3>1, <3>3, Hopeless
    <3>4. CASE e \in Leading BY <1>1, <2>8, <3>1, <3>4, <2>1, <2>6
    <3>5. CASE e \in Viable /\ e \notin Leading
      <4>1. e \in D /\ Viable # Leading BY <3>5
      <4>2. Reach(e.state, e.at, v, i) /\ NoWorse(e.bound, e.least, v, i)
        BY <2>6, <3>1 DEF Honest
      <4> HIDE DEF D
      <4>3. Cuts(CutOff(D), v, i) BY <1>3, <1>4, <4>1, <4>2, CutOffCovers
      <4> QED BY <1>1, <2>8, <4>1, <4>3
    <3> QED BY <3>2, <3>3, <3>4, <3>5
  <2> QED BY <2>7, <2>8
<1> QED BY <1>5, <1>6, <1>7 DEF BeamCovers

-----------------------------------------------------------------------------

(* The open nodes of the completion.                                        *)

\* Nodes with one key decide the same row and have the same future.
LEMMA KeyParts ==
  ASSUME NEW e, NEW f, NodeKey(e) = NodeKey(f)
  PROVE  e.at = f.at /\ FutureKey(e.state, e.at) = FutureKey(f.state, e.at)
  BY DEF NodeKey

\* An honest entry enters the queue, or one that covers all it covers does,
\* or a representative of one that does is there already.
LEMMA EntersOrBlocked ==
  ASSUME Placed, NEW E, IsFiniteSet(E), \A f \in E : Honest(f), NEW s, Sound(s),
         NEW f \in E, NEW v \in Seq(Int), NEW i \in Seq(Int), Reach(f.state, f.at, v, i)
  PROVE  \/ Matched(s, v, i)
         \/ \E g \in E : /\ NodeKey(g) = NodeKey(f) /\ Reach(g.state, g.at, v, i)
                         /\ \/ g \in Entering(E, s)
                            \/ \E r \in reps : /\ r.key = NodeKey(g)
                                               /\ LexAtMost(r.ids, g.state.ids)
<1> DEFINE open == {e \in E : Promising(e, s)}
           S == {g \in open : NodeKey(g) = NodeKey(f)}
           h == [g \in S |-> g.state.ids]
           I == {h[g] : g \in S}
<1>1. CASE ~Promising(f, s) BY <1>1, Hopeless
<1>2. CASE Promising(f, s)
  <2>1. f \in S /\ S \subseteq E BY <1>2
  <2>2. IsFiniteSet(S) BY <2>1, FS_Subset
  <2>3. \A g \in S : h[g] = g.state.ids /\ g.state.ids \in Seq(Int) /\ Ready(g.state, g.at)
    BY <2>1, ReadyType DEF Honest
  <2>4. \A g \in S : g \in open /\ NodeKey(g) = NodeKey(f) OBVIOUS
  <2>5. \A g \in open : NodeKey(g) = NodeKey(f) => g \in S OBVIOUS
  <2> HIDE DEF S, h
  <2>6. IsFiniteSet(I) /\ I # {} /\ I \subseteq Seq(Int) BY <2>1, <2>2, <2>3, ImageFinite
  <2> DEFINE m == LexMin(I)
  <2>7. m \in I /\ \A x \in I : LexAtMost(m, x) BY <2>6, LexBounds
  <2> HIDE DEF m
  <2>8. PICK g \in S : m = g.state.ids BY <2>3, <2>7
  <2>9. ASSUME NEW e \in S PROVE LexAtMost(g.state.ids, e.state.ids) BY <2>3, <2>7, <2>8
  <2>10. Ready(g.state, g.at) /\ Ready(f.state, f.at) /\ g.state.ids \in Seq(Int)
    BY <2>1, <2>3
  <2>11. g.at = f.at /\ FutureKey(g.state, f.at) = FutureKey(f.state, f.at)
    BY <2>4, KeyParts
  <2>12. Dominates(g.state, f.state, f.at) BY <2>1, <2>9, <2>10, <2>11, EqualKeysDominate
  <2>13. Reach(g.state, g.at, v, i) BY <2>10, <2>11, <2>12, ReachDominated
  <2>14. ~\E e \in open : NodeKey(e) = NodeKey(g) /\ LexLess(e.state.ids, g.state.ids)
    BY <2>4, <2>5, <2>3, <2>9, <2>10, LexTransitive, LexIrreflexive DEF LexAtMost
  <2>15. g \in open /\ g \in E BY <2>1, <2>4
  <2>16. \/ g \in Entering(E, s)
         \/ \E r \in reps : r.key = NodeKey(g) /\ LexAtMost(r.ids, g.state.ids)
    BY <2>14, <2>15 DEF Entering
  <2> QED BY <2>4, <2>13, <2>15, <2>16
<1> QED BY <1>1, <1>2

\* An entry is fresh once it has entered.
LEMMA EnteredFresh ==
  ASSUME NEW N, NEW g \in N PROVE Fresh(g, Represent(N))
<1> DEFINE r == [key |-> NodeKey(g), ids |-> g.state.ids]
<1>1. r \in Represent(N) BY DEF Represent
<1> QED BY <1>1 DEF Fresh

\* A fresh node stays fresh, or an entry that covers all it covers enters.
LEMMA FreshOrCovered ==
  ASSUME Placed, NEW E, \A f \in E : Honest(f), NEW s,
         NEW w, Honest(w), Fresh(w, reps),
         NEW v \in Seq(Int), NEW i \in Seq(Int), Reach(w.state, w.at, v, i)
  PROVE  \/ Fresh(w, Represent(Entering(E, s)))
         \/ \E g \in Entering(E, s) : g.at = w.at /\ Reach(g.state, g.at, v, i)
<1> DEFINE N == Entering(E, s)
<1>1. PICK r \in reps : r.key = NodeKey(w) /\ r.ids = w.state.ids BY DEF Fresh
<1>2. CASE ~\E g \in N : NodeKey(g) = r.key BY <1>2, <1>1 DEF Represent, Fresh
<1>3. CASE \E g \in N : NodeKey(g) = r.key
  <2>1. PICK g \in N : NodeKey(g) = r.key BY <1>3
  <2>2. g \in E /\ ~LexAtMost(r.ids, g.state.ids) BY <2>1 DEF Entering
  <2> HIDE DEF N
  <2>3. Ready(g.state, g.at) /\ Ready(w.state, w.at) BY <2>2 DEF Honest
  <2>4. g.state.ids \in Seq(Int) /\ w.state.ids \in Seq(Int) BY <2>3, ReadyType
  <2>5. LexAtMost(g.state.ids, w.state.ids) BY <1>1, <2>2, <2>4, LexTotal DEF LexAtMost
  <2>6. NodeKey(g) = NodeKey(w) BY <1>1, <2>1
  <2>7. g.at = w.at /\ FutureKey(g.state, w.at) = FutureKey(w.state, w.at) BY <2>6, KeyParts
  <2>8. Dominates(g.state, w.state, w.at) BY <2>3, <2>5, <2>7, EqualKeysDominate
  <2>9. Reach(g.state, g.at, v, i) BY <2>3, <2>7, <2>8, ReachDominated
  <2> QED BY <2>1, <2>7, <2>9 DEF N
<1> QED BY <1>2, <1>3

\* The representatives of the entries hide nothing.
LEMMA NewRepresents ==
  ASSUME Placed, NEW N, \A f \in N : Honest(f), NEW g \in N,
         NEW n \in 1..(Len(rows) + 1), NEW t, Ready(t, n),
         NodeKey(g) = <<n, FutureKey(t, n)>>, LexAtMost(g.state.ids, t.ids),
         NEW v \in Seq(Int), NEW i \in Seq(Int), Reach(t, n, v, i), NEW s, NEW Q, N \subseteq Q
  PROVE  OpenFrom(s, Q, Represent(N), v, i, n)
<1>1. g.at = n /\ FutureKey(g.state, n) = FutureKey(t, n) BY DEF NodeKey
<1>2. Ready(g.state, n) BY <1>1 DEF Honest
<1>3. Dominates(g.state, t, n) BY <1>1, <1>2, EqualKeysDominate
<1>4. Reach(g.state, n, v, i) BY <1>2, <1>3, ReachDominated
<1>5. Fresh(g, Represent(N)) /\ n >= n BY EnteredFresh, ProblemTyped DEF ProblemType
<1> QED BY <1>1, <1>4, <1>5 DEF OpenFrom

-----------------------------------------------------------------------------

(* The step of the completion that expands e.                               *)

\* What was open from row n on still is, if not through e itself.
LEMMA OthersStay ==
  ASSUME SearchInv, KeptInv, NEW e \in queue,
         NEW v \in Seq(Int), NEW i \in Seq(Int), NEW n \in Nat,
         \/ Matched(best, v, i)
         \/ \E w \in queue \ {e} : Fresh(w, reps) /\ w.at >= n /\ Reach(w.state, w.at, v, i)
  PROVE  LET N == Entering(Offspring(e), Winner(e))
         IN  OpenFrom(Winner(e), (queue \ {e}) \cup N, Represent(N), v, i, n)
<1> DEFINE N == Entering(Offspring(e), Winner(e))
<1>1. /\ Placed /\ Sound(best) /\ Sound(Winner(e))
      /\ NoWorse(Score(Winner(e)), Winner(e).ids, Score(best), best.ids)
      /\ \A f \in Offspring(e) : Honest(f)
  BY ExpandReady
<1>2. CASE Matched(best, v, i) BY <1>1, <1>2, MatchedBy DEF OpenFrom
<1>3. ASSUME NEW w \in queue \ {e}, Fresh(w, reps), w.at >= n, Reach(w.state, w.at, v, i)
      PROVE  OpenFrom(Winner(e), (queue \ {e}) \cup N, Represent(N), v, i, n)
  <2>1. Honest(w) BY DEF KeptInv
  <2>2. \/ Fresh(w, Represent(N))
        \/ \E g \in N : g.at = w.at /\ Reach(g.state, g.at, v, i)
    BY <1>1, <1>3, <2>1, FreshOrCovered
  <2> HIDE DEF N
  <2>3. CASE Fresh(w, Represent(N)) BY <1>3, <2>3 DEF OpenFrom
  <2>4. CASE \E g \in N : g.at = w.at /\ Reach(g.state, g.at, v, i)
    BY <2>4, EnteredFresh, <1>3 DEF OpenFrom
  <2> QED BY <2>2, <2>3, <2>4
<1> QED BY <1>2, <1>3

\* What was open through e is open still.
LEMMA ExpandedStays ==
  ASSUME SearchInv, KeptInv, NEW e \in queue, Represents(best, queue, reps), Fresh(e, reps),
         NEW v \in Seq(Int), NEW i \in Seq(Int), Reach(e.state, e.at, v, i)
  PROVE  LET N == Entering(Offspring(e), Winner(e))
         IN  OpenFrom(Winner(e), (queue \ {e}) \cup N, Represent(N), v, i, e.at)
<1> DEFINE N == Entering(Offspring(e), Winner(e))
           Q == (queue \ {e}) \cup N
<1>1. /\ Placed /\ Honest(e) /\ Ready(e.state, e.at) /\ Sound(best) /\ Sound(Winner(e))
      /\ e.at \in Nat \ {0} /\ Len(rows) \in Nat
      /\ IsFiniteSet(Offspring(e)) /\ \A f \in Offspring(e) : f.at = e.at + 1 /\ Honest(f)
      /\ Lively(e) => NoWorse(Score(Winner(e)), Winner(e).ids, Score(e.state), e.state.ids)
  BY ExpandReady
<1>2. e.at \in 1..(Len(rows) + 1) /\ Sound(e.state) BY <1>1 DEF Ready
<1>3. Lively(e) <=> Promising(e, best) BY DEF Lively, Stale, Fresh
<1>4. CASE ~Promising(e, best) BY <1>1, <1>4, Hopeless, OthersStay
<1>5. CASE Promising(e, best) /\ ~(e.at <= Len(rows))
  BY <1>1, <1>2, <1>5, ReachEnd, <1>3, MatchedBy DEF Matched, OpenFrom
<1>6. CASE Promising(e, best) /\ e.at <= Len(rows)
  <2>1. Children(e) = Grown({e.state}, e.at) BY <1>3, <1>6 DEF Children
  <2>2. PICK s \in Children(e) : Reach(s, e.at + 1, v, i)
    BY <1>1, <1>6, ReachStep, <2>1 DEF Grown
  <2> DEFINE f == Rated(s, e.at + 1)
  <2>3. f \in Offspring(e) /\ f.state = s BY DEF Offspring, Rated
  <2> HIDE DEF f
  <2>4. f.at = e.at + 1 /\ Reach(f.state, f.at, v, i) BY <1>1, <2>2, <2>3
  <2>5. \/ Matched(Winner(e), v, i)
        \/ \E g \in Offspring(e) :
             /\ NodeKey(g) = NodeKey(f) /\ Reach(g.state, g.at, v, i)
             /\ \/ g \in N
                \/ \E r \in reps : r.key = NodeKey(g) /\ LexAtMost(r.ids, g.state.ids)
    BY <1>1, <2>3, <2>4, EntersOrBlocked
  <2> HIDE DEF N
  <2>6. CASE Matched(Winner(e), v, i) BY <2>6 DEF OpenFrom
  <2>7. ASSUME NEW g \in Offspring(e), Reach(g.state, g.at, v, i), g \in N
        PROVE  OpenFrom(Winner(e), Q, Represent(N), v, i, e.at)
    BY <1>1, <2>7, EnteredFresh DEF OpenFrom
  <2>8. ASSUME NEW g \in Offspring(e), Reach(g.state, g.at, v, i), NEW r \in reps,
               r.key = NodeKey(g), LexAtMost(r.ids, g.state.ids)
        PROVE  OpenFrom(Winner(e), Q, Represent(N), v, i, e.at)
    <3>1. g.at = e.at + 1 /\ Ready(g.state, g.at) BY <1>1 DEF Honest
    <3>2. r.key = <<g.at, FutureKey(g.state, g.at)>> /\ g.at \in 1..(Len(rows) + 1)
      BY <2>8, <3>1 DEF NodeKey, Ready
    <3>3. OpenFrom(best, queue, reps, v, i, g.at) BY <2>8, <3>1, <3>2 DEF Represents
    <3>4. \/ Matched(best, v, i)
          \/ \E w \in queue \ {e} : /\ Fresh(w, reps) /\ w.at >= e.at
                                    /\ Reach(w.state, w.at, v, i)
      <4>1. ASSUME NEW w \in queue, w.at >= g.at PROVE w # e /\ w.at >= e.at
        BY <1>1, <3>1, <4>1 DEF KeptInv, Honest, Ready
      <4> QED BY <3>3, <4>1 DEF OpenFrom
    <3>5. e.at \in Nat BY <1>1
    <3> QED BY <3>4, <3>5, OthersStay DEF N
  <2>9. CASE ~Matched(Winner(e), v, i)
    <3> DEFINE O == OpenFrom(Winner(e), Q, Represent(N), v, i, e.at)
    <3>1. PICK g \in Offspring(e) :
            /\ Reach(g.state, g.at, v, i)
            /\ \/ g \in N
               \/ \E r \in reps : r.key = NodeKey(g) /\ LexAtMost(r.ids, g.state.ids)
      BY <2>5, <2>9
    <3>2. g \in N => O BY <2>7, <3>1
    <3>3. (\E r \in reps : r.key = NodeKey(g) /\ LexAtMost(r.ids, g.state.ids)) => O
      BY <2>8, <3>1
    <3> HIDE DEF O
    <3>4. O BY <3>1, <3>2, <3>3
    <3> QED BY <3>4 DEF O, N
  <2> QED BY <2>6, <2>9 DEF N
<1> QED BY <1>4, <1>5, <1>6

\* What was open before an expansion is open after it.
LEMMA ExpandOpen ==
  ASSUME SearchInv, KeptInv, NEW e \in queue, Represents(best, queue, reps),
         NEW v \in Seq(Int), NEW i \in Seq(Int), NEW n \in Nat,
         OpenFrom(best, queue, reps, v, i, n)
  PROVE  LET N == Entering(Offspring(e), Winner(e))
         IN  OpenFrom(Winner(e), (queue \ {e}) \cup N, Represent(N), v, i, n)
<1> DEFINE N == Entering(Offspring(e), Winner(e))
           Q == (queue \ {e}) \cup N
<1>1. CASE \/ Matched(best, v, i)
           \/ \E w \in queue \ {e} : /\ Fresh(w, reps) /\ w.at >= n
                                     /\ Reach(w.state, w.at, v, i)
  BY <1>1, OthersStay
<1>2. CASE Fresh(e, reps) /\ e.at >= n /\ Reach(e.state, e.at, v, i)
  <2>1. OpenFrom(Winner(e), Q, Represent(N), v, i, e.at) BY <1>2, ExpandedStays
  <2>2. e.at \in Nat /\ \A w \in Q : w.at \in Nat
    <3>1. e.at \in Nat /\ \A f \in Offspring(e) : f.at = e.at + 1 BY ExpandReady
    <3>2. \A w \in queue : w.at \in 1..(Len(rows) + 1) BY DEF KeptInv, Honest, Ready
    <3>3. N \subseteq Offspring(e) BY DEF Entering
    <3> HIDE DEF N
    <3> QED BY <3>1, <3>2, <3>3
  <2> HIDE DEF N, Q
  <2>3. \A w \in Q : w.at >= e.at => w.at >= n BY <1>2, <2>2
  <2> QED BY <2>1, <2>3 DEF OpenFrom, N, Q
<1> QED BY <1>1, <1>2 DEF OpenFrom

\* And the representatives still hide nothing.
LEMMA ExpandRepresents ==
  ASSUME SearchInv, KeptInv, NEW e \in queue, Represents(best, queue, reps)
  PROVE  LET N == Entering(Offspring(e), Winner(e))
         IN  Represents(Winner(e), (queue \ {e}) \cup N, Represent(N))
<1> DEFINE N == Entering(Offspring(e), Winner(e))
           Q == (queue \ {e}) \cup N
<1>1. Placed /\ \A f \in N : Honest(f)
  <2>1. N \subseteq Offspring(e) BY DEF Entering
  <2> HIDE DEF N
  <2> QED BY <2>1, ExpandReady
<1>2. N \subseteq Q OBVIOUS
<1> SUFFICES ASSUME NEW r \in Represent(N), NEW n \in 1..(Len(rows) + 1), NEW t,
                    Ready(t, n), r.key = <<n, FutureKey(t, n)>>, LexAtMost(r.ids, t.ids),
                    NEW v \in Seq(Int), NEW i \in Seq(Int), Reach(t, n, v, i)
             PROVE  OpenFrom(Winner(e), Q, Represent(N), v, i, n)
  BY DEF Represents
<1>3. CASE r \in reps
  <2>1. OpenFrom(best, queue, reps, v, i, n) /\ n \in Nat BY <1>3 DEF Represents
  <2> QED BY <2>1, ExpandOpen
<1>4. CASE r \notin reps
  <2> HIDE DEF N, Q
  <2>1. PICK g \in N : r = [key |-> NodeKey(g), ids |-> g.state.ids] BY <1>4 DEF Represent
  <2>2. NodeKey(g) = <<n, FutureKey(t, n)>> /\ LexAtMost(g.state.ids, t.ids) BY <2>1
  <2> QED BY <1>1, <1>2, <2>2, NewRepresents
<1> QED BY <1>3, <1>4

-----------------------------------------------------------------------------

(* No wave that may run is ever lost: at each phase it is covered by the    *)
(* incumbent, by something still open, or by the record of what was cut     *)
(* off.  v and i are its objective and its identifiers.                     *)

\* What is covered depends on the incumbent and the open nodes only.
LEMMA CoverStable ==
  ASSUME wave' = wave, rows' = rows
  PROVE  /\ \A s, v, i : Matched(s, v, i)' <=> Matched(s, v, i)
         /\ \A c, v, i : Cuts(c, v, i)' <=> Cuts(c, v, i)
         /\ \A s, Q, R, v, i, n : OpenFrom(s, Q, R, v, i, n)' <=> OpenFrom(s, Q, R, v, i, n)
         /\ \A s, Q, R : Represents(s, Q, R)' <=> Represents(s, Q, R)
         /\ \A v, i : Reach(Start, 1, v, i)' <=> Reach(Start, 1, v, i)
<1>1. \A s, v, i : Matched(s, v, i)' <=> Matched(s, v, i) BY DEF Matched, NoWorse, Score
<1>2. \A c, v, i : Cuts(c, v, i)' <=> Cuts(c, v, i) BY ReachStable DEF Cuts, NoWorse
<1>3. \A s, Q, R, v, i, n : OpenFrom(s, Q, R, v, i, n)' <=> OpenFrom(s, Q, R, v, i, n)
  BY <1>1, ReachStable DEF Fresh, NodeKey, FutureKey, Blocked, Score, OpenFrom
<1>4. \A s, Q, R : Represents(s, Q, R)' <=> Represents(s, Q, R)
  <2>1. \A t, n : FutureKey(t, n)' = FutureKey(t, n) BY DEF FutureKey, Blocked, Score
  <2>2. \A t : \A n : Ready(t, n)' <=> Ready(t, n) BY ReadyStable
  <2> SUFFICES ASSUME NEW s, NEW Q, NEW R PROVE Represents(s, Q, R)' <=> Represents(s, Q, R)
    OBVIOUS
  <2> QED BY <1>3, <2>1, <2>2, ReachStable DEF Represents
<1>5. \A v, i : Reach(Start, 1, v, i)' <=> Reach(Start, 1, v, i)
  BY AmountsStable, ReachStable
<1> QED BY <1>1, <1>2, <1>3, <1>4, <1>5

\* At the start the empty partial wave covers everything.
LEMMA CoverStarts == Init => CoverInv
<1> SUFFICES ASSUME Init PROVE CoverInv OBVIOUS
<1>1. phase = "beam" /\ beam = {Start} /\ layer + 1 = 1 BY DEF Init
<1>2. \A v, i : Reach(Start, 1, v, i) => BeamCovers(v, i) BY <1>1 DEF BeamCovers
<1> QED BY <1>1, <1>2 DEF CoverInv

\* A step of the beam loses nothing.
LEMMA LayerCovered == ASSUME SearchInv, KeptInv, CoverInv, Layer PROVE CoverInv'
<1>1. phase = "beam" /\ phase' = "beam" /\ wave' = wave /\ rows' = rows BY LayerParts
<1>2. ASSUME NEW v \in Seq(Int), NEW i \in Seq(Int), Reach(Start, 1, v, i)
      PROVE  BeamCovers(v, i)'
  BY <1>1, <1>2, LayerCovers, CoverStable, ReachStable DEF CoverInv, BeamCovers
<1> QED BY <1>1, <1>2, CoverStable DEF CoverInv

\* What the comparison leaves open.
LEMMA CompareParts ==
  ASSUME SearchInv, KeptInv, CompareGreedy
  PROVE  /\ phase = "beam" /\ (layer = Len(rows) \/ beam = {})
         /\ UNCHANGED <<wave, rows, layer, beam, cut, nodes, granted>>
         /\ Placed /\ Sound(best) /\ Sound(best')
         /\ NoWorse(Score(best'), best'.ids, Score(best), best.ids)
         /\ queue = {} /\ reps = {} /\ IsCut(cut)
         /\ \/ phase' = "refused"
            \/ phase' = "allocate" /\ ~Unsettled(best')
            \/ \E E : /\ phase' = "complete"
                      /\ E = IF cut.overflow THEN {Rated(Start, 1)} ELSE cut.parked
                      /\ IsFiniteSet(E) /\ (\A e \in E : Honest(e))
                      /\ queue' = Entering(E, best') /\ reps' = Represent(queue')
<1> DEFINE E == IF cut.overflow THEN {Rated(Start, 1)} ELSE cut.parked
<1>1. /\ phase = "beam" /\ (layer = Len(rows) \/ beam = {})
      /\ UNCHANGED <<wave, rows, layer, beam, cut, nodes, granted>>
      /\ best' = IF GreedyAdmissible /\ Better(GreedyState, best) THEN GreedyState ELSE best
      /\ \/ phase' = "refused"
         \/ phase' = "allocate" /\ ~Unsettled(best')
         \/ /\ phase' = "complete"
            /\ queue' = Entering(E, best') /\ reps' = Represent(Entering(E, best'))
  BY DEF CompareGreedy
<1>2. Placed /\ Sound(best) /\ IsCut(cut) /\ queue = {} /\ reps = {}
  BY <1>1 DEF SearchInv, Open, KeptInv
<1>3. GreedyAdmissible => Sound(GreedyState) BY <1>2, GreedyExact
<1>4. Sound(best') /\ NoWorse(Score(best'), best'.ids, Score(best), best.ids)
  <2>1. CASE GreedyAdmissible
    <3> DEFINE m == IF Better(GreedyState, best) THEN GreedyState ELSE best
    <3>1. best' = m BY <1>1, <2>1
    <3>2. Sound(m) /\ NoWorse(Score(m), m.ids, Score(best), best.ids)
      BY <1>2, <1>3, <2>1, BestNoWorse
    <3> HIDE DEF m
    <3> QED BY <3>1, <3>2
  <2>2. CASE ~GreedyAdmissible BY <1>1, <2>2, <1>2, ScoreType, NoWorseOrder DEF Tuples
  <2> QED BY <2>1, <2>2
<1>5. IsFiniteSet(E) /\ \A e \in E : Honest(e)
  <2>1. Honest(Rated(Start, 1)) /\ IsFiniteSet({Rated(Start, 1)})
    BY <1>2, StartReady, RatedHonest, FS_Singleton
  <2>2. IsFiniteSet(cut.parked) /\ \A e \in cut.parked : Honest(e)
    BY <1>1, <1>2 DEF IsCut, KeptInv
  <2> QED BY <2>1, <2>2
<1> HIDE DEF E
<1>6. E = IF cut.overflow THEN {Rated(Start, 1)} ELSE cut.parked BY DEF E
<1> QED BY <1>1, <1>2, <1>4, <1>5, <1>6

\* It loses nothing.
LEMMA CompareCovered == ASSUME SearchInv, KeptInv, CoverInv, CompareGreedy PROVE CoverInv'
<1>1. /\ phase = "beam" /\ (layer = Len(rows) \/ beam = {})
      /\ UNCHANGED <<wave, rows, layer, beam, cut, nodes, granted>>
      /\ Placed /\ Sound(best) /\ Sound(best')
      /\ NoWorse(Score(best'), best'.ids, Score(best), best.ids)
      /\ queue = {} /\ reps = {} /\ IsCut(cut)
      /\ \/ phase' = "refused"
         \/ phase' = "allocate" /\ ~Unsettled(best')
         \/ \E E : /\ phase' = "complete"
                   /\ E = IF cut.overflow THEN {Rated(Start, 1)} ELSE cut.parked
                   /\ IsFiniteSet(E) /\ (\A e \in E : Honest(e))
                   /\ queue' = Entering(E, best') /\ reps' = Represent(queue')
  BY CompareParts
<1>2. ASSUME NEW v \in Seq(Int), NEW i \in Seq(Int), Reach(Start, 1, v, i)
      PROVE  Matched(best', v, i) \/ Cuts(cut, v, i)
  BY <1>1, <1>2, BeamReady, ReachEnd, MatchedBy DEF CoverInv, BeamCovers, KeptInv, Matched
<1>3. CASE phase' = "refused" BY <1>3 DEF CoverInv
<1>4. CASE phase' = "allocate"
  BY <1>1, <1>2, CoverStable, <1>4 DEF IsCut, Tuples, Cuts, BoundCovers, NoWorse, CoverInv
<1>5. CASE phase' = "complete"
  <2>1. PICK E : /\ E = IF cut.overflow THEN {Rated(Start, 1)} ELSE cut.parked
                 /\ IsFiniteSet(E) /\ (\A e \in E : Honest(e))
                 /\ queue' = Entering(E, best') /\ reps' = Represent(queue')
    BY <1>1, <1>5
  <2> DEFINE N == Entering(E, best')
  <2>2. \A e \in N : Honest(e) /\ e \in E BY <2>1 DEF Entering
  <2>3. ASSUME NEW v \in Seq(Int), NEW i \in Seq(Int), Reach(Start, 1, v, i)
        PROVE  OpenFrom(best', queue', reps', v, i, 1)
    <3>1. CASE Matched(best', v, i) BY <3>1 DEF OpenFrom
    <3>2. CASE Cuts(cut, v, i)
      <4>1. PICK f \in E : Reach(f.state, f.at, v, i) BY <2>1, <2>3, <3>2 DEF Rated, Cuts
      <4>2. \/ Matched(best', v, i)
            \/ \E g \in E : Reach(g.state, g.at, v, i) /\ g \in N
        BY <1>1, <2>1, <4>1, EntersOrBlocked
      <4>3. ASSUME NEW g \in N, Reach(g.state, g.at, v, i)
            PROVE  OpenFrom(best', queue', reps', v, i, 1)
        <5>1. g.at >= 1 BY <2>2 DEF Honest, Ready
        <5>2. Fresh(g, Represent(N)) BY EnteredFresh
        <5> QED BY <2>1, <4>3, <5>1, <5>2 DEF OpenFrom
      <4> QED BY <3>1, <4>2, <4>3
    <3> QED BY <1>2, <2>3, <3>1, <3>2
  <2>4. Represents(best', queue', reps')
    <3> SUFFICES ASSUME NEW r \in reps', NEW n \in 1..(Len(rows) + 1), NEW t,
                        Ready(t, n), r.key = <<n, FutureKey(t, n)>>, LexAtMost(r.ids, t.ids),
                        NEW v \in Seq(Int), NEW i \in Seq(Int), Reach(t, n, v, i)
                 PROVE  OpenFrom(best', queue', reps', v, i, n)
      BY DEF Represents
    <3>1. queue' = N /\ reps' = Represent(N) BY <2>1
    <3> HIDE DEF N
    <3>2. PICK g \in N : r = [key |-> NodeKey(g), ids |-> g.state.ids]
      BY <1>1, <3>1 DEF Represent
    <3>3. NodeKey(g) = <<n, FutureKey(t, n)>> /\ LexAtMost(g.state.ids, t.ids) BY <3>2
    <3>4. OpenFrom(best', N, Represent(N), v, i, n) BY <1>1, <2>2, <3>3, NewRepresents
    <3> QED BY <3>1, <3>4
  <2> QED BY <1>1, <1>5, <2>3, <2>4, CoverStable DEF CoverInv
<1> QED BY <1>1, <1>3, <1>4, <1>5

\* An expansion loses nothing.
LEMMA ExpandCovered == ASSUME SearchInv, KeptInv, CoverInv, Expand PROVE CoverInv'
<1>1. PICK e \in queue :
        /\ best' = Winner(e)
        /\ queue' = (queue \ {e}) \cup Entering(Offspring(e), Winner(e))
        /\ reps' = Represent(Entering(Offspring(e), Winner(e)))
  BY ExpandParts
<1>2. phase = "complete" /\ phase' = "complete" /\ wave' = wave /\ rows' = rows
  BY ExpandParts
<1>3. Represents(best, queue, reps) BY <1>2 DEF CoverInv
<1>4. Represents(best', queue', reps') BY <1>1, <1>3, ExpandRepresents
<1>5. ASSUME NEW v \in Seq(Int), NEW i \in Seq(Int), Reach(Start, 1, v, i)
      PROVE  OpenFrom(best', queue', reps', v, i, 1)
  BY <1>2, <1>5, <1>1, <1>3, ExpandOpen DEF CoverInv
<1> QED BY <1>2, <1>4, <1>5, CoverStable DEF CoverInv

\* The end of the completion loses nothing but what its bound covers.
LEMMA EndCovered == ASSUME SearchInv, KeptInv, CoverInv, EndCompletion PROVE CoverInv'
<1> DEFINE open == {e \in queue : ~Stale(e) /\ Promising(e, best)}
           b == LexMax({e.bound : e \in open})
           l == LexMin({e.least : e \in {f \in open : f.bound = b}})
<1>1. /\ phase = "complete" /\ phase' = "allocate"
      /\ UNCHANGED <<wave, rows, layer, beam, best, queue, reps, nodes, granted>>
      /\ cut' = IF open = {} THEN NoCut ELSE [NoCut EXCEPT !.bound = b, !.ids = l]
  BY DEF EndCompletion
<1>2. /\ Placed /\ Sound(best) /\ IsFiniteSet(queue)
      /\ \A e \in queue : Honest(e) /\ e.bound \in Tuples(4) /\ e.least \in Seq(Int)
  BY <1>1 DEF SearchInv, Open, KeptInv, Honest
<1>3. \A e \in open : e \in queue OBVIOUS
<1>4. IsFiniteSet(open) BY <1>2, <1>3, FS_Subset
<1>5. \A e \in queue : Promising(e, best) /\ (\E r \in reps : r.key = NodeKey(e) /\ r.ids = e.state.ids)
                       => e \in open
  BY DEF Stale
<1>6. cut'.bound = IF open = {} THEN <<>> ELSE b BY <1>1 DEF NoCut
<1>7. open # {} => cut'.ids = l BY <1>1 DEF NoCut
<1> HIDE DEF open
<1>8. open # {} => /\ b \in Tuples(4) /\ l \in Seq(Int)
                   /\ \A e \in open : NoWorse(b, l, e.bound, e.least)
  BY <1>2, <1>3, <1>4, Extremes
<1> HIDE DEF b, l
<1>9. cut'.bound = <<>> \/ (cut'.bound \in Seq(Int) /\ cut'.ids \in Seq(Int))
  BY <1>6, <1>7, <1>8 DEF Tuples
<1>10. ASSUME NEW v \in Seq(Int), NEW i \in Seq(Int), Reach(Start, 1, v, i)
       PROVE  Matched(best, v, i) \/ (cut'.bound # <<>> /\ NoWorse(cut'.bound, cut'.ids, v, i))
  <2>1. OpenFrom(best, queue, reps, v, i, 1) BY <1>1, <1>10 DEF CoverInv
  <2>2. ASSUME NEW w \in queue, Fresh(w, reps), Reach(w.state, w.at, v, i)
        PROVE  Matched(best, v, i) \/ (cut'.bound # <<>> /\ NoWorse(cut'.bound, cut'.ids, v, i))
    <3>1. CASE ~Promising(w, best) BY <1>2, <2>2, <3>1, Hopeless
    <3>2. CASE Promising(w, best)
      <4>1. w \in open BY <1>5, <2>2, <3>2 DEF Fresh
      <4>2. b \in Tuples(4) /\ b \in Seq(Int) /\ l \in Seq(Int) /\ NoWorse(b, l, w.bound, w.least)
        BY <1>8, <4>1 DEF Tuples
      <4>3. NoWorse(w.bound, w.least, v, i) /\ w.bound \in Seq(Int) /\ w.least \in Seq(Int)
        BY <1>2, <2>2 DEF Honest, Tuples
      <4>4. NoWorse(b, l, v, i) BY <4>2, <4>3, NoWorseTransitive
      <4>5. b # <<>> BY <4>2, TupleFilled
      <4> QED BY <1>6, <1>7, <4>1, <4>4, <4>5
    <3> QED BY <3>1, <3>2
  <2> QED BY <2>1, <2>2 DEF OpenFrom
<1>11. \A v, i \in Seq(Int) : Reach(Start, 1, v, i)' =>
         Matched(best, v, i)' \/ BoundCovers(v, i)'
  BY <1>1, <1>10, CoverStable DEF BoundCovers, NoWorse
<1> QED BY <1>1, <1>9, <1>11 DEF CoverInv

\* The other steps change nothing that covers.
LEMMA RestCovered ==
  ASSUME CoverInv, Allocate \/ UNCHANGED vars PROVE CoverInv'
<1>1. /\ UNCHANGED <<wave, rows, layer, beam, best, cut, queue, reps>>
      /\ phase' = phase \/ (phase = "allocate" /\ phase' = "done")
  BY DEF Allocate, vars
<1>2. \A v, i : BeamCovers(v, i)' <=> BeamCovers(v, i)
  BY <1>1, CoverStable, ReachStable DEF BeamCovers
<1>3. \A v, i : BoundCovers(v, i)' <=> BoundCovers(v, i) BY <1>1 DEF BoundCovers, NoWorse
<1>4. \A v, i : Matched(best, v, i)' <=> Matched(best, v, i) BY <1>1, CoverStable
<1>5. \A v, i : OpenFrom(best, queue, reps, v, i, 1)' <=> OpenFrom(best, queue, reps, v, i, 1)
  BY <1>1, CoverStable
<1>6. Represents(best, queue, reps)' <=> Represents(best, queue, reps) BY <1>1, CoverStable
<1>7. \A v, i : Reach(Start, 1, v, i)' <=> Reach(Start, 1, v, i) BY <1>1, CoverStable
<1> QED BY <1>1, <1>2, <1>3, <1>4, <1>5, <1>6, <1>7 DEF CoverInv

(* The search, what it keeps open, and what it still covers.                *)
LEMMA SearchCovers == Spec => [](SearchInv /\ KeptInv /\ CoverInv)
<1>1. Init => CoverInv BY CoverStarts
<1>2. SearchInv /\ KeptInv /\ CoverInv /\ [Next]_vars => CoverInv'
  BY LayerCovered, CompareCovered, ExpandCovered, EndCovered, RestCovered DEF Next, Finished
<1> QED BY <1>1, <1>2, SearchKept, PTL DEF Spec

\* A wave that may run is a completion of the empty one.
LEMMA CandidatesReached ==
  ASSUME Placed, NEW Q \in Candidates
  PROVE  /\ Worth(Q) \in Seq(Int) /\ Names(Q) \in Seq(Int)
         /\ Reach(Start, 1, Worth(Q), Names(Q))
<1> DEFINE R == {p \in DOMAIN rows : rows[p] \in Q}
<1>1. Q \in SUBSET wave.candidates /\ Feasible(Q) BY DEF Candidates
<1>2. R \in SUBSET DOMAIN rows /\ Q = RowsAt(R) /\ Completion(R, Start, 1)
  BY <1>1, FeasibleCompletes
<1> HIDE DEF R
<1>3. Worth(Q) = Total(Start, R) /\ Names(Q) = Listing(Start, R)
  BY <1>2, WorthOfRows, NamesOfRows
<1>4. Total(Start, R) \in Seq(Int) /\ Listing(Start, R) \in Seq(Int)
  BY <1>2, StartReady, CompletionType DEF Tuples
<1>5. NoWorse(Total(Start, R), Listing(Start, R), Worth(Q), Names(Q))
  BY <1>3, <1>4, NoWorseOrder
<1> QED BY <1>2, <1>3, <1>4, <1>5 DEF Reach

\* A certified incumbent is no worse than any wave that may run.
LEMMA CertificateHolds ==
  ASSUME SearchInv, KeptInv, CoverInv PROVE CertifiedOptimum
<1> SUFFICES ASSUME phase = "done"
             PROVE  /\ Feasible(Admitted)
                    /\ Certified => \A Q \in Candidates : LexAtMost(Worth(Q), Worth(Admitted))
                    /\ CertifiedIds => \A Q \in Candidates : ~Beats(Q, Admitted)
  BY DEF CertifiedOptimum
<1>1. Placed /\ Sound(best) /\ Exact(best) BY DEF SearchInv, Open, KeptInv
<1>2. Admitted = RowsAt(Range(best.sel)) BY DEF Admitted, Chosen, RowsAt
<1>3. Feasible(Admitted) BY <1>1, <1>2, SoundFeasible DEF RowsAt
<1> DEFINE s == Score(best)
           j == best.ids
<1>4. Worth(Admitted) = s /\ Names(Admitted) = j BY <1>1, <1>2, ExactWorth
<1>5. s \in Seq(Int) /\ j \in Seq(Int) /\ s \in Tuples(4) BY <1>1, ScoreType DEF Tuples
<1>6. ASSUME NEW Q \in Candidates, Certified
      PROVE  /\ LexAtMost(Worth(Q), s)
             /\ CertifiedIds => NoWorse(s, j, Worth(Q), Names(Q))
  <2> DEFINE v == Worth(Q)
             i == Names(Q)
  <2>1. v \in Seq(Int) /\ i \in Seq(Int) /\ Reach(Start, 1, v, i) BY <1>1, CandidatesReached
  <2> HIDE DEF v, i
  <2>2. Matched(best, v, i) \/ BoundCovers(v, i) BY <2>1 DEF CoverInv
  <2>3. CASE Matched(best, v, i) BY <2>3, <1>5, <2>1, NoWorseOrder DEF Matched, v, i
  <2>4. CASE BoundCovers(v, i)
    <3> DEFINE b == cut.bound
               l == cut.ids
    <3>1. b # <<>> /\ NoWorse(b, l, v, i) /\ b \in Seq(Int) /\ l \in Seq(Int)
      BY <2>4 DEF BoundCovers, CoverInv
    <3>2. LexAtMost(b, s) BY <1>6, <3>1 DEF Certified
    <3>3. LexAtMost(v, b) BY <2>1, <3>1, NoWorseOrder
    <3>4. CertifiedIds => ~(b = s /\ LexLess(l, j)) BY DEF CertifiedIds
    <3> HIDE DEF b, l, s, j
    <3>5. LexAtMost(v, s) BY <1>5, <2>1, <3>1, <3>2, <3>3, LexAtMostTransitive
    <3>6. ASSUME CertifiedIds PROVE NoWorse(s, j, v, i)
      BY <1>5, <3>1, <3>2, LexTransitive, LexIrreflexive, <3>4, <3>6, NoWorseOrder, <2>1,
           NoWorseTransitive DEF LexAtMost
    <3> QED BY <3>5, <3>6 DEF v, i, s, j
  <2> QED BY <2>2, <2>3, <2>4
<1>7. Certified => \A Q \in Candidates : LexAtMost(Worth(Q), Worth(Admitted)) BY <1>4, <1>6
<1>8. ASSUME CertifiedIds, NEW Q \in Candidates PROVE ~Beats(Q, Admitted)
  <2>1. Certified BY <1>8 DEF CertifiedIds
  <2>2. NoWorse(s, j, Worth(Q), Names(Q)) /\ Worth(Q) \in Seq(Int) /\ Names(Q) \in Seq(Int)
    BY <1>1, <1>6, <1>8, <2>1, CandidatesReached
  <2> HIDE DEF s, j
  <2>3. ~(LexLess(s, Worth(Q)) \/ (s = Worth(Q) /\ LexLess(Names(Q), j)))
    BY <1>5, <2>2, NoWorseOrder
  <2> QED BY <1>4, <2>3 DEF Beats
<1> QED BY <1>3, <1>7, <1>8

(* The certificate is sound: the admitted wave may run, no wave that may   *)
(* run has a higher objective when the search says so, and among equals    *)
(* none has lesser identifiers.  The quotient, the dominance test, the     *)
(* bounds, the beam's truncation and the completion's stale nodes lose     *)
(* nothing the certificate does not admit (parallel_admission.py:2142).    *)
THEOREM OptimumCertified == Spec => []CertifiedOptimum
<1>1. SearchInv /\ KeptInv /\ CoverInv => CertifiedOptimum BY CertificateHolds
<1> QED BY <1>1, SearchCovers, PTL

=============================================================================
