--------------------------- MODULE DeferralProofs ---------------------------
(***************************************************************************)
(* The bound on waiting, for any number of candidates and any limit.  Once *)
(* a candidate is due, what it has waited and the rivals that may still go *)
(* first trade against each other: a decision that passes it over costs it *)
(* a wait and one of the rivals, and joining is of no help to a newcomer,  *)
(* whose row starts empty.                                                 *)
(***************************************************************************)
EXTENDS Deferral, FiniteSetTheorems, TLAPS

USE DeferralConstants

N == Cardinality(Candidates)

(* The rivals of a candidate are finitely many, and fewer than all. *)
LEMMA CandidatesFinite ==
  ASSUME NEW S, S \subseteq Candidates
  PROVE  IsFiniteSet(S) /\ Cardinality(S) \in Nat /\ Cardinality(S) <= N
BY FS_Subset, FS_CardinalityType DEF N

LEMMA Without ==
  ASSUME NEW S, S \subseteq Candidates, NEW c \in S
  PROVE  Cardinality(S \ {c}) = Cardinality(S) - 1
<1>1. IsFiniteSet(S) BY CandidatesFinite
<1> QED BY <1>1, FS_RemoveElement

(* A set that leaves out a candidate, or two, counts less than all. *)
LEMMA WithoutOne ==
  ASSUME NEW S, NEW c \in Candidates, S \subseteq Candidates \ {c}
  PROVE  Cardinality(S) \in Nat /\ Cardinality(S) <= N - 1
<1>1. IsFiniteSet(Candidates \ {c}) BY CandidatesFinite
<1>2. Cardinality(Candidates \ {c}) = N - 1 BY Without DEF N
<1>3. Cardinality(S) <= Cardinality(Candidates \ {c}) BY <1>1, FS_Subset
<1>4. Cardinality(S) \in Nat BY CandidatesFinite
<1> QED BY <1>2, <1>3, <1>4

LEMMA WithoutTwo ==
  ASSUME NEW S, NEW c \in Candidates, NEW d \in Candidates, c # d,
         S \subseteq Candidates \ {c, d}
  PROVE  Cardinality(S) \in Nat /\ Cardinality(S) <= N - 2
<1>1. S \union {d} \subseteq Candidates \ {c} OBVIOUS
<1>2. Cardinality(S \union {d}) <= N - 1 BY <1>1, WithoutOne
<1>3. S = (S \union {d}) \ {d} OBVIOUS
<1>4. Cardinality(S) = Cardinality(S \union {d}) - 1
  <2>1. Cardinality((S \union {d}) \ {d}) = Cardinality(S \union {d}) - 1
    BY <1>1, Without
  <2> QED BY <2>1, <1>3
<1>5. Cardinality(S) \in Nat /\ Cardinality(S \union {d}) \in Nat BY <1>1, CandidatesFinite
<1>6. N \in Nat BY FS_CardinalityType DEF N
<1> QED BY <1>2, <1>4, <1>5, <1>6

(* A set of candidates that lost one counts less. *)
LEMMA Lost ==
  ASSUME NEW S, NEW T, T \subseteq Candidates, NEW s \in T, S \subseteq T \ {s}
  PROVE  /\ Cardinality(S) \in Nat /\ Cardinality(T) \in Nat
         /\ Cardinality(S) + 1 <= Cardinality(T)
<1>1. IsFiniteSet(T \ {s}) /\ Cardinality(T) \in Nat /\ Cardinality(S) \in Nat
  BY CandidatesFinite
<1>2. Cardinality(T \ {s}) = Cardinality(T) - 1 BY Without
<1>3. Cardinality(S) <= Cardinality(T \ {s}) BY <1>1, FS_Subset
<1> QED BY <1>1, <1>2, <1>3

LEMMA Fewer ==
  ASSUME NEW S, NEW T, T \subseteq Candidates, S \subseteq T
  PROVE  /\ Cardinality(S) \in Nat /\ Cardinality(T) \in Nat
         /\ Cardinality(S) <= Cardinality(T)
<1>1. IsFiniteSet(T) /\ Cardinality(T) \in Nat /\ Cardinality(S) \in Nat BY CandidatesFinite
<1> QED BY <1>1, FS_Subset

-----------------------------------------------------------------------------
(* Every row is a count (patches.py:5439). *)
THEOREM Typing == Spec => []TypeOK
<1>1. Init => TypeOK BY DEF Init, TypeOK
<1>2. TypeOK /\ [Next]_vars => TypeOK'
  BY DEF TypeOK, Next, DecideSome, PassSome, Decide, Pass, vars
<1> QED BY <1>1, <1>2, PTL DEF Spec

LEMMA DecideKeepsOrder ==
  ASSUME TypeOK, OverdueFirst, NEW pool \in SUBSET Candidates, NEW s \in pool, Decide(pool, s)
  PROVE  OverdueFirst'
<1> SUFFICES ASSUME NEW c \in Candidates
             PROVE  /\ waited'[c] <= count'[c]
                    /\ count'[c] >= Limit =>
                         waited'[c] + Cardinality(Rivals(c)') <= Limit + N - 2
  BY DEF OverdueFirst, N
<1>1. N \in Nat BY FS_CardinalityType DEF N
<1>2. CASE c \notin pool \ {s}
  <2>1. count'[c] = 0 /\ waited'[c] = 0 BY <1>2 DEF Decide
  <2> QED BY <2>1
<1>3. CASE c \in pool \ {s}
  <2>1. count'[c] = count[c] + 1 /\ waited'[c] = waited[c] + 1 BY <1>3 DEF Decide
  <2>2. count[c] \in Nat /\ waited[c] \in Nat /\ waited[c] <= count[c]
    BY DEF TypeOK, OverdueFirst
  <2>3. ASSUME NEW d \in Rivals(c)'
        PROVE  d \in Candidates /\ d # c /\ d # s /\ count[d] >= count[c]
    <3>1. d \in Candidates \ {c} /\ count'[d] >= count'[c] BY <2>3 DEF Rivals
    <3>2. d \in pool \ {s} /\ count'[d] = count[d] + 1 BY <3>1, <2>1, <2>2 DEF Decide
    <3>3. count[d] \in Nat BY <3>1 DEF TypeOK
    <3> QED BY <3>1, <3>2, <3>3, <2>1, <2>2
  <2>4. CASE count[c] >= Limit
    <3>1. s \in Rivals(c) BY <1>3, <2>4 DEF Decide, MayServe, Due, Rivals
    <3>2. Rivals(c)' \subseteq Rivals(c) \ {s} BY <2>3 DEF Rivals
    <3>3. Rivals(c) \subseteq Candidates BY DEF Rivals
    <3>4. /\ Cardinality(Rivals(c)') \in Nat /\ Cardinality(Rivals(c)) \in Nat
          /\ Cardinality(Rivals(c)') + 1 <= Cardinality(Rivals(c))
      BY <3>1, <3>2, <3>3, Lost
    <3>5. waited[c] + Cardinality(Rivals(c)) <= Limit + N - 2 BY <2>4 DEF OverdueFirst, N
    <3> QED BY <3>4, <3>5, <2>1, <2>2, <1>1
  <2>5. CASE ~(count[c] >= Limit)
    <3>1. Rivals(c)' \subseteq Candidates \ {c, s} BY <2>3
    <3>2. Cardinality(Rivals(c)') \in Nat /\ Cardinality(Rivals(c)') <= N - 2
      BY <3>1, <1>3, WithoutTwo
    <3> QED BY <3>2, <2>1, <2>2, <2>5, <1>1
  <2> QED BY <2>4, <2>5
<1> QED BY <1>2, <1>3

LEMMA PassKeepsOrder ==
  ASSUME TypeOK, OverdueFirst, NEW present \in SUBSET Candidates, Pass(present)
  PROVE  OverdueFirst'
<1> SUFFICES ASSUME NEW c \in Candidates
             PROVE  /\ waited'[c] <= count'[c]
                    /\ count'[c] >= Limit =>
                         waited'[c] + Cardinality(Rivals(c)') <= Limit + N - 2
  BY DEF OverdueFirst, N
<1>1. N \in Nat BY FS_CardinalityType DEF N
<1>2. CASE c \notin present
  <2>1. count'[c] = 0 /\ waited'[c] = 0 BY <1>2 DEF Pass
  <2> QED BY <2>1
<1>3. CASE c \in present
  <2>1. count'[c] = count[c] + 1 /\ waited'[c] = waited[c] BY <1>3 DEF Pass
  <2>2. count[c] \in Nat /\ waited[c] \in Nat /\ waited[c] <= count[c]
    BY DEF TypeOK, OverdueFirst
  <2>3. ASSUME NEW d \in Rivals(c)'
        PROVE  d \in Candidates /\ d # c /\ count[d] >= count[c]
    <3>1. d \in Candidates \ {c} /\ count'[d] >= count'[c] BY <2>3 DEF Rivals
    <3>2. d \in present /\ count'[d] = count[d] + 1 BY <3>1, <2>1, <2>2 DEF Pass
    <3>3. count[d] \in Nat BY <3>1 DEF TypeOK
    <3> QED BY <3>1, <3>2, <3>3, <2>1, <2>2
  <2>4. CASE count[c] >= Limit
    <3>1. Rivals(c)' \subseteq Rivals(c) BY <2>3 DEF Rivals
    <3>2. Rivals(c) \subseteq Candidates BY DEF Rivals
    <3>3. /\ Cardinality(Rivals(c)') \in Nat /\ Cardinality(Rivals(c)) \in Nat
          /\ Cardinality(Rivals(c)') <= Cardinality(Rivals(c))
      BY <3>1, <3>2, Fewer
    <3>4. waited[c] + Cardinality(Rivals(c)) <= Limit + N - 2 BY <2>4 DEF OverdueFirst, N
    <3> QED BY <3>3, <3>4, <2>1, <2>2, <1>1
  <2>5. CASE ~(count[c] >= Limit)
    <3>1. Rivals(c)' \subseteq Candidates \ {c} BY <2>3
    <3>2. Cardinality(Rivals(c)') \in Nat /\ Cardinality(Rivals(c)') <= N - 1
      BY <3>1, WithoutOne
    <3> QED BY <3>2, <2>1, <2>2, <2>5, <1>1
  <2> QED BY <2>4, <2>5
<1> QED BY <1>2, <1>3

(* A due candidate is passed over only for one that is at least as overdue *)
(* (decision_policy.py:329).                                               *)
THEOREM Order == Spec => []OverdueFirst
<1>1. Init => OverdueFirst BY DEF Init, OverdueFirst
<1>2. TypeOK /\ OverdueFirst /\ [Next]_vars => OverdueFirst'
  <2> SUFFICES ASSUME TypeOK, OverdueFirst, [Next]_vars PROVE OverdueFirst' OBVIOUS
  <2>1. CASE DecideSome BY <2>1, DecideKeepsOrder DEF DecideSome
  <2>2. CASE PassSome BY <2>2, PassKeepsOrder DEF PassSome
  <2>3. CASE UNCHANGED vars BY <2>3 DEF vars, OverdueFirst, Rivals
  <2> QED BY <2>1, <2>2, <2>3 DEF Next
<1> QED BY <1>1, <1>2, Typing, PTL DEF Spec

(* Hence the bound, for every number of candidates and every limit         *)
(* (decision_policy.py:329).                                               *)
THEOREM Bounded == Spec => []BoundedWait
<1>1. TypeOK /\ OverdueFirst => BoundedWait
  <2> SUFFICES ASSUME TypeOK, OverdueFirst, NEW c \in Candidates
               PROVE  waited[c] <= Limit + N - 2
    BY DEF BoundedWait, N
  <2>1. N \in Nat /\ N # 0 BY FS_CardinalityType, FS_EmptySet DEF N
  <2>2. count[c] \in Nat /\ waited[c] \in Nat /\ waited[c] <= count[c] BY DEF TypeOK, OverdueFirst
  <2>3. Cardinality(Rivals(c)) \in Nat BY CandidatesFinite DEF Rivals
  <2>4. CASE count[c] >= Limit
    <3>1. waited[c] + Cardinality(Rivals(c)) <= Limit + N - 2 BY <2>4 DEF OverdueFirst, N
    <3> QED BY <3>1, <2>1, <2>2, <2>3
  <2>5. CASE ~(count[c] >= Limit) BY <2>1, <2>2, <2>5
  <2> QED BY <2>4, <2>5
<1> QED BY <1>1, Typing, Order, PTL
=============================================================================
