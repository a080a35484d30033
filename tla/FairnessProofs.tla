--------------------------- MODULE FairnessProofs ---------------------------
(***************************************************************************)
(* Each of the three comparisons implements Deferral, whatever the         *)
(* operations, strata, work and direct runs.  A step of the scheduler      *)
(* either decides a comparison, or passes it over because something above  *)
(* it was selected, or leaves its part of the table alone.                 *)
(* And work that the primary action blocks leads a wave in its turn: the   *)
(* table of waves and the table of decisions together bound its wait.      *)
(***************************************************************************)
EXTENDS Fairness, FiniteSetTheorems, TLAPS

USE FairnessConstants

(* The rows of the three comparisons are told apart by their first word. *)
LEMMA Apart ==
  /\ TopIds \intersect OpenIds = {} /\ TopIds \intersect LeaderIds = {}
  /\ OpenIds \intersect LeaderIds = {}
  /\ Nobody \notin Ids
BY DEF TopIds, OpenIds, LeaderIds, ScheduledIds, Scheduled, Serialized, Planner, Nobody, Ids

LEMMA Parts == TopIds \subseteq Ids /\ OpenIds \subseteq Ids /\ LeaderIds \subseteq Ids
BY DEF Ids

(* What a comparison looks like: empty, or decided by the rule. *)
Empty(c) == c.rows = {} /\ c.pool = {} /\ c.selected = Nobody
Decided(c, counts, ids) ==
  c.rows \subseteq ids /\ c.pool \subseteq c.rows /\ c.selected \in DecisionOutcomes(counts, c.pool)
Sound(c, counts, ids) == Empty(c) \/ Decided(c, counts, ids)

LEMMA ComparisonsSound ==
  ASSUME NEW counts, NEW ids, NEW c \in Comparisons(counts, ids) \union {NoComparison}
  PROVE  Sound(c, counts, ids)
BY DEF Comparisons, NoComparison, Sound, Empty, Decided

LEMMA PlansSound ==
  ASSUME NEW counts, NEW p \in Plans(counts)
  PROVE  Sound(p.top, counts, TopIds) /\ Sound(p.open, counts, OpenIds)
<1>1. CASE p \in Gates(counts)
  <2>1. p.top = NoComparison /\ p.open \in Comparisons(counts, OpenIds) \union {NoComparison}
    BY <1>1 DEF Gates
  <2> QED BY <2>1, ComparisonsSound DEF Sound, Empty, NoComparison
<1>2. CASE p \in Choices(counts)
  <2>1. /\ p.top \in Comparisons(counts, TopIds)
        /\ p.open \in Comparisons(counts, OpenIds) \union {NoComparison}
    BY <1>2 DEF Choices
  <2> QED BY <2>1, ComparisonsSound
<1> QED BY <1>1, <1>2 DEF Plans

LEMMA SelectedIn ==
  ASSUME NEW counts, NEW ids, NEW c, Decided(c, counts, ids)
  PROVE  c.selected \in c.pool /\ c.selected \in c.rows /\ c.selected \in ids
BY DEF Decided, DecisionOutcomes, Due

LEMMA LeafIn ==
  ASSUME NEW counts, NEW p \in Plans(counts)
  PROVE  Leaf(p) \in TopIds \union OpenIds
<1>1. Planner \in TopIds BY DEF TopIds
<1>2. p.open.rows # {} => p.open.selected \in OpenIds
  BY PlansSound, SelectedIn DEF Sound, Empty
<1>3. ~p.gate => p.top.selected \in TopIds
  <2> SUFFICES ASSUME ~p.gate PROVE p.top.selected \in TopIds OBVIOUS
  <2>1. p \in Choices(counts) BY DEF Plans, Gates
  <2>2. p.top.rows # {} BY <2>1 DEF Choices
  <2> QED BY <2>2, PlansSound, SelectedIn DEF Sound, Empty
<1> QED BY <1>1, <1>2, <1>3 DEF Leaf

LEMMA LeadersSound ==
  ASSUME TypeOK, NEW p \in Plans(deferrals), NEW eligible \in SUBSET Work,
         NEW leader \in Leaders(p, eligible)
  PROVE  Sound(leader, deferrals, LeaderIds)
<1>1. CASE leader = NoComparison BY <1>1 DEF Sound, Empty, NoComparison
<1>2. CASE leader # NoComparison
  <2> DEFINE rows == LeaderRows(p, eligible)
  <2>1. PICK i \in LeaderSelected(p, eligible) :
          leader = [rows |-> rows, pool |-> rows, selected |-> i]
    BY <1>2 DEF Leaders
  <2>2. rows \subseteq LeaderIds
    BY LeafIn DEF LeaderRows, LeaderIds, ScheduledIds
  <2>3. i \in DecisionOutcomes(deferrals, rows)
    <3>1. CASE ~LeaderHistory(rows)
      <4>1. \A j \in rows : deferrals[j] \in Nat /\ ~(deferrals[j] > 0)
        BY <3>1, <2>2, Parts DEF LeaderHistory, TypeOK
      <4>2. Due(deferrals, rows) = {} BY <4>1 DEF Due
      <4>3. i \in rows BY <2>1, <3>1 DEF LeaderSelected, LeaderRows, Overdue
      <4> QED BY <4>2, <4>3 DEF DecisionOutcomes
    <3>2. CASE LeaderHistory(rows)
      <4>1. Scheduled(Leaf(p)) \in rows BY DEF LeaderRows
      <4> QED BY <2>1, <3>2, <4>1 DEF LeaderSelected, DecisionOutcomes
    <3> QED BY <3>1, <3>2
  <2> QED BY <2>1, <2>2, <2>3 DEF Sound, Decided
<1> QED BY <1>1, <1>2

-----------------------------------------------------------------------------
(* What a step may do to the rows of one comparison. *)
Moves(ids) ==
  \/ \E pool \in SUBSET ids : \E s \in DecisionOutcomes(deferrals, pool) :
       \A i \in ids :
         /\ deferrals'[i] = IF i \in pool \ {s} THEN deferrals[i] + 1 ELSE 0
         /\ waited'[i] = IF i \in pool \ {s} THEN waited[i] + 1 ELSE 0
  \/ \E present \in SUBSET ids : \A i \in ids :
         /\ deferrals'[i] = IF i \in present THEN deferrals[i] + 1 ELSE 0
         /\ waited'[i] = IF i \in present THEN waited[i] ELSE 0
  \/ \A i \in ids : deferrals'[i] = deferrals[i] /\ waited'[i] = waited[i]

LEMMA TopMoves == ASSUME Moves(TopIds) PROVE [Top!Next]_(Top!vars)
<1>1. ASSUME NEW pool \in SUBSET TopIds, NEW s \in DecisionOutcomes(deferrals, pool),
             \A i \in TopIds :
               /\ deferrals'[i] = IF i \in pool \ {s} THEN deferrals[i] + 1 ELSE 0
               /\ waited'[i] = IF i \in pool \ {s} THEN waited[i] + 1 ELSE 0
      PROVE  Top!Next
  <2>1. s \in pool BY <1>1 DEF DecisionOutcomes, Due
  <2>2. Top!MayServe(pool, s)
    BY <1>1 DEF DecisionOutcomes, Due, Top!MayServe, Top!Due, Part
  <2>3. Top!Decide(pool, s) BY <1>1, <2>1, <2>2 DEF Top!Decide, Part
  <2> QED BY <2>1, <2>3 DEF Top!Next, Top!DecideSome
<1>2. ASSUME NEW present \in SUBSET TopIds,
             \A i \in TopIds :
               /\ deferrals'[i] = IF i \in present THEN deferrals[i] + 1 ELSE 0
               /\ waited'[i] = IF i \in present THEN waited[i] ELSE 0
      PROVE  Top!Next
  <2>1. Top!Pass(present) BY <1>2 DEF Top!Pass, Part
  <2> QED BY <2>1 DEF Top!Next, Top!PassSome
<1>3. ASSUME \A i \in TopIds : deferrals'[i] = deferrals[i] /\ waited'[i] = waited[i]
      PROVE  UNCHANGED Top!vars
  BY <1>3 DEF Top!vars, Part
<1> QED BY <1>1, <1>2, <1>3 DEF Moves

LEMMA OpenMoves == ASSUME Moves(OpenIds) PROVE [Open!Next]_(Open!vars)
<1>1. ASSUME NEW pool \in SUBSET OpenIds, NEW s \in DecisionOutcomes(deferrals, pool),
             \A i \in OpenIds :
               /\ deferrals'[i] = IF i \in pool \ {s} THEN deferrals[i] + 1 ELSE 0
               /\ waited'[i] = IF i \in pool \ {s} THEN waited[i] + 1 ELSE 0
      PROVE  Open!Next
  <2>1. s \in pool BY <1>1 DEF DecisionOutcomes, Due
  <2>2. Open!MayServe(pool, s)
    BY <1>1 DEF DecisionOutcomes, Due, Open!MayServe, Open!Due, Part
  <2>3. Open!Decide(pool, s) BY <1>1, <2>1, <2>2 DEF Open!Decide, Part
  <2> QED BY <2>1, <2>3 DEF Open!Next, Open!DecideSome
<1>2. ASSUME NEW present \in SUBSET OpenIds,
             \A i \in OpenIds :
               /\ deferrals'[i] = IF i \in present THEN deferrals[i] + 1 ELSE 0
               /\ waited'[i] = IF i \in present THEN waited[i] ELSE 0
      PROVE  Open!Next
  <2>1. Open!Pass(present) BY <1>2 DEF Open!Pass, Part
  <2> QED BY <2>1 DEF Open!Next, Open!PassSome
<1>3. ASSUME \A i \in OpenIds : deferrals'[i] = deferrals[i] /\ waited'[i] = waited[i]
      PROVE  UNCHANGED Open!vars
  BY <1>3 DEF Open!vars, Part
<1> QED BY <1>1, <1>2, <1>3 DEF Moves

LEMMA LeaderMoves == ASSUME Moves(LeaderIds) PROVE [Leader!Next]_(Leader!vars)
<1>1. ASSUME NEW pool \in SUBSET LeaderIds, NEW s \in DecisionOutcomes(deferrals, pool),
             \A i \in LeaderIds :
               /\ deferrals'[i] = IF i \in pool \ {s} THEN deferrals[i] + 1 ELSE 0
               /\ waited'[i] = IF i \in pool \ {s} THEN waited[i] + 1 ELSE 0
      PROVE  Leader!Next
  <2>1. s \in pool BY <1>1 DEF DecisionOutcomes, Due
  <2>2. Leader!MayServe(pool, s)
    BY <1>1 DEF DecisionOutcomes, Due, Leader!MayServe, Leader!Due, Part
  <2>3. Leader!Decide(pool, s) BY <1>1, <2>1, <2>2 DEF Leader!Decide, Part
  <2> QED BY <2>1, <2>3 DEF Leader!Next, Leader!DecideSome
<1>2. ASSUME NEW present \in SUBSET LeaderIds,
             \A i \in LeaderIds :
               /\ deferrals'[i] = IF i \in present THEN deferrals[i] + 1 ELSE 0
               /\ waited'[i] = IF i \in present THEN waited[i] ELSE 0
      PROVE  Leader!Next
  <2>1. Leader!Pass(present) BY <1>2 DEF Leader!Pass, Part
  <2> QED BY <2>1 DEF Leader!Next, Leader!PassSome
<1>3. ASSUME \A i \in LeaderIds : deferrals'[i] = deferrals[i] /\ waited'[i] = waited[i]
      PROVE  UNCHANGED Leader!vars
  BY <1>3 DEF Leader!vars, Part
<1> QED BY <1>1, <1>2, <1>3 DEF Moves

(* A trace that was computed from the table moves each comparison. *)
LEMMA TraceMoves ==
  ASSUME NEW in, NEW p, NEW leader,
         Sound(p.top, in, TopIds), Sound(p.open, in, OpenIds), Sound(leader, in, LeaderIds),
         InputAgrees(in, deferrals, Observed(p, leader)),
         deferrals' = DeferralsAfter(in, p, leader),
         waited' = WaitedAfter(p, leader)
  PROVE  Moves(TopIds) /\ Moves(OpenIds) /\ Moves(LeaderIds)
<1> DEFINE count(i) == IF i \in Deferred(p, leader) THEN deferrals[i] + 1 ELSE 0
<1>1. \A i \in Ids : deferrals'[i] = count(i)
  BY DEF DeferralsAfter, InputAgrees, Deferred
<1>2. ASSUME NEW c, NEW ids, Decided(c, in, ids), c.rows \subseteq Observed(p, leader)
      PROVE  Decided(c, deferrals, ids)
  <2>1. \A i \in c.pool : in[i] = deferrals[i] BY <1>2 DEF InputAgrees, Decided
  <2>2. Due(in, c.pool) = Due(deferrals, c.pool) BY <2>1 DEF Due
  <2>3. \A i, j \in Due(in, c.pool) : (in[j] <= in[i]) = (deferrals[j] <= deferrals[i])
    BY <2>1 DEF Due
  <2>4. DecisionOutcomes(in, c.pool) = DecisionOutcomes(deferrals, c.pool)
    BY <2>2, <2>3 DEF DecisionOutcomes
  <2> QED BY <1>2, <2>4 DEF Decided
<1>3. ASSUME NEW c, NEW ids, Sound(c, in, ids), ids \subseteq Ids,
             c.rows \subseteq Observed(p, leader),
             \A i \in ids : Comparison(p, leader, i) = c /\ (i \in Observed(p, leader) <=> i \in c.rows),
             \A i \in ids : AncestorsSelected(p, leader, i) <=> c.selected \in Ran(p, leader)
      PROVE  Moves(ids)
  <2>1. CASE Empty(c)
    <3>1. \A i \in ids :
            /\ deferrals'[i] = IF i \in c.rows THEN deferrals[i] + 1 ELSE 0
            /\ waited'[i] = IF i \in c.rows THEN waited[i] ELSE 0
      BY <2>1, <1>1, <1>3 DEF Empty, Deferred, WaitedAfter
    <3>2. c.rows \in SUBSET ids BY <2>1 DEF Empty
    <3> QED BY <3>1, <3>2 DEF Moves
  <2>2. CASE Decided(c, in, ids) /\ c.selected \in Ran(p, leader)
    <3>1. Decided(c, deferrals, ids) BY <1>2, <1>3, <2>2
    <3>2. \A i \in ids :
            /\ deferrals'[i] = IF i \in c.pool \ {c.selected} THEN deferrals[i] + 1 ELSE 0
            /\ waited'[i] = IF i \in c.pool \ {c.selected} THEN waited[i] + 1 ELSE 0
      BY <1>1, <1>3, <2>2 DEF Deferred, WaitedAfter, Decided
    <3> QED BY <3>1, <3>2 DEF Moves, Decided
  <2>3. CASE Decided(c, in, ids) /\ c.selected \notin Ran(p, leader)
    <3>1. \A i \in ids :
            /\ deferrals'[i] = IF i \in c.rows THEN deferrals[i] + 1 ELSE 0
            /\ waited'[i] = IF i \in c.rows THEN waited[i] ELSE 0
      BY <1>1, <1>3, <2>3 DEF Deferred, WaitedAfter
    <3> QED BY <3>1, <2>3 DEF Moves, Decided
  <2> QED BY <1>3, <2>1, <2>2, <2>3 DEF Sound
<1>4. /\ p.top.rows \subseteq TopIds /\ p.open.rows \subseteq OpenIds /\ leader.rows \subseteq LeaderIds
      /\ p.top.selected \in TopIds \union {Nobody} /\ p.open.selected \in OpenIds \union {Nobody}
      /\ leader.selected \in LeaderIds \union {Nobody}
  BY SelectedIn DEF Sound, Empty, Decided
<1>5. Promoted(leader) => leader.selected \in LeaderIds
  BY SelectedIn DEF Sound, Empty, Promoted
<1>6. Moves(LeaderIds)
  <2>1. \A i \in LeaderIds : /\ Comparison(p, leader, i) = leader
                             /\ i \in Observed(p, leader) <=> i \in leader.rows
    BY <1>4, Apart DEF Comparison, Observed
  <2>2. \A i \in LeaderIds : AncestorsSelected(p, leader, i)
    BY Apart DEF AncestorsSelected
  <2>3. leader.selected \in Ran(p, leader) BY DEF Ran
  <2>4. leader.rows \subseteq Observed(p, leader) BY DEF Observed
  <2> QED BY <1>3, <2>1, <2>2, <2>3, <2>4, Parts
<1>7. Moves(TopIds)
  <2>1. \A i \in TopIds : /\ Comparison(p, leader, i) = p.top
                          /\ i \in Observed(p, leader) <=> i \in p.top.rows
    BY <1>4, Apart DEF Comparison, Observed
  <2>2. \A i \in TopIds : AncestorsSelected(p, leader, i) <=> ~Promoted(leader)
    BY Apart DEF AncestorsSelected
  <2>3. p.top.selected \in Ran(p, leader) <=> ~Promoted(leader)
    BY <1>4, <1>5, Apart, Parts DEF Ran
  <2>4. p.top.rows \subseteq Observed(p, leader) BY DEF Observed
  <2> QED BY <1>3, <2>1, <2>2, <2>3, <2>4, Parts
<1>8. Moves(OpenIds)
  <2> DEFINE runs == ~Promoted(leader) /\ (p.gate \/ p.top.selected = Planner)
  <2>1. \A i \in OpenIds : /\ Comparison(p, leader, i) = p.open
                           /\ i \in Observed(p, leader) <=> i \in p.open.rows
    BY <1>4, Apart DEF Comparison, Observed
  <2>2. \A i \in OpenIds : AncestorsSelected(p, leader, i) <=> runs
    BY Apart DEF AncestorsSelected
  <2>4. p.open.rows \subseteq Observed(p, leader) BY DEF Observed
  <2>5. CASE Empty(p.open)
    <3>1. \A i \in OpenIds :
            /\ deferrals'[i] = IF i \in p.open.rows THEN deferrals[i] + 1 ELSE 0
            /\ waited'[i] = IF i \in p.open.rows THEN waited[i] ELSE 0
      BY <2>5, <2>1, <1>1, Parts DEF Empty, Deferred, WaitedAfter
    <3>2. p.open.rows \in SUBSET OpenIds BY <2>5 DEF Empty
    <3> QED BY <3>1, <3>2 DEF Moves
  <2>6. CASE Decided(p.open, in, OpenIds)
    <3>1. p.open.selected \in OpenIds BY <2>6, SelectedIn
    <3>2. p.open.selected \in Ran(p, leader) <=> runs
      BY <3>1, <1>4, <1>5, Apart, Parts DEF Ran
    <3> QED BY <1>3, <2>1, <2>2, <2>4, <3>2, Parts
  <2> QED BY <2>5, <2>6 DEF Sound
<1> QED BY <1>6, <1>7, <1>8

-----------------------------------------------------------------------------
(* The tables, the held snapshots and the revisions are well typed         *)
(* (patches.py:5439).                                                      *)
LEMMA AfterTyped ==
  ASSUME TypeOK, NEW in, NEW p, NEW leader,
         InputAgrees(in, deferrals, Observed(p, leader))
  PROVE  DeferralsAfter(in, p, leader) \in [Ids -> Nat] /\ WaitedAfter(p, leader) \in [Ids -> Nat]
<1>1. \A i \in Ids : deferrals[i] \in Nat /\ waited[i] \in Nat BY DEF TypeOK
<1>2. \A i \in Deferred(p, leader) : in[i] = deferrals[i] BY DEF Deferred, InputAgrees
<1>3. DeferralsAfter(in, p, leader) \in [Ids -> Nat] BY <1>1, <1>2 DEF DeferralsAfter
<1>4. WaitedAfter(p, leader) \in [Ids -> Nat] BY <1>1 DEF WaitedAfter
<1> QED BY <1>3, <1>4

THEOREM Typing == Spec => []TypeOK
<1>1. Init => TypeOK BY DEF Init, TypeOK, NotHeld
<1>2. TypeOK /\ [Next]_vars => TypeOK'
  <2> SUFFICES ASSUME TypeOK, [Next]_vars PROVE TypeOK' OBVIOUS
  <2>1. ASSUME NEW p, NEW eligible, NEW leader, NEW waiting, Wave(p, eligible, leader, waiting)
        PROVE  TypeOK'
    <3>1. deferrals' \in [Ids -> Nat] /\ waited' \in [Ids -> Nat]
      BY <2>1, AfterTyped DEF Wave, InputAgrees
    <3>2. queued' \in [Work -> Nat] /\ blocked' \in [Work -> Nat]
      BY <2>1 DEF Wave, QueuedAfter, TypeOK
    <3>3. /\ revision' \in Nat /\ lastDecision' \in Nat /\ lastDecision' < revision'
          /\ held' = held /\ revision <= revision'
      BY <2>1 DEF Wave, TypeOK
    <3>4. \A r \in Runs : held[r].rev \in Nat /\ held[r].rev <= revision BY DEF TypeOK
    <3>5. \A r \in Runs : held[r].rev <= revision' BY <3>3, <3>4 DEF TypeOK
    <3> QED BY <3>1, <3>2, <3>3, <3>5 DEF TypeOK
  <2>2. CASE OtherPatch BY <2>2 DEF OtherPatch, tables, TypeOK
  <2>3. ASSUME NEW r \in Runs, Hold(r) PROVE TypeOK'
    <3>1. held' \in [Runs -> [rev : Nat, deferrals : [Ids -> Nat]]] BY <2>3 DEF Hold, TypeOK
    <3>2. \A q \in Runs : held'[q].rev <= revision BY <2>3 DEF Hold, TypeOK
    <3> QED BY <2>3, <3>1, <3>2 DEF Hold, tables, TypeOK
  <2>4. ASSUME NEW r \in Runs, Record(r, Plans(held[r].deferrals)) PROVE TypeOK'
    <3>1. NotHeld \in [rev : Nat, deferrals : [Ids -> Nat]] BY DEF NotHeld
    <3>2. held' \in [Runs -> [rev : Nat, deferrals : [Ids -> Nat]]]
      BY <2>4, <3>1 DEF Record, TypeOK
    <3>3. \A q \in Runs : held'[q].rev = held[q].rev \/ held'[q].rev = 0
      BY <2>4 DEF Record, NotHeld, TypeOK
    <3>4. \A q \in Runs : held[q].rev \in Nat /\ held[q].rev <= revision BY DEF TypeOK
    <3>5. PICK p \in Plans(held[r].deferrals) :
            \/ UNCHANGED <<deferrals, lastDecision, waited, blocked>> /\ revision' = revision + 1
            \/ UNCHANGED <<deferrals, lastDecision, revision, waited, blocked>>
            \/ /\ InputAgrees(held[r].deferrals, deferrals, Observed(p, NoComparison))
               /\ deferrals' = DeferralsAfter(held[r].deferrals, p, NoComparison)
               /\ waited' = WaitedAfter(p, NoComparison)
               /\ lastDecision' = held[r].rev
               /\ revision' = revision + 1
               /\ blocked' = [w \in Work |-> 0]
      BY <2>4 DEF Record
    <3>6. deferrals' \in [Ids -> Nat] /\ waited' \in [Ids -> Nat] /\ blocked' \in [Work -> Nat]
      BY <3>5, AfterTyped DEF TypeOK
    <3>7. /\ revision' \in Nat /\ lastDecision' \in Nat /\ lastDecision' < revision'
          /\ revision <= revision'
      BY <3>4, <3>5 DEF TypeOK
    <3>8. \A q \in Runs : held'[q].rev <= revision' BY <3>3, <3>4, <3>7 DEF TypeOK
    <3>9. queued' = queued BY <2>4 DEF Record
    <3> QED BY <3>2, <3>6, <3>7, <3>8, <3>9 DEF TypeOK
  <2>5. CASE UNCHANGED vars BY <2>5 DEF vars, TypeOK
  <2> QED BY <2>1, <2>2, <2>3, <2>4, <2>5 DEF Next, Dispatch
<1> QED BY <1>1, <1>2, PTL DEF Spec

(* The refinement (decision_policy.py:192, patches.py:5439). *)
THEOREM Refinement == Spec => StrataFair
<1>1. Init => Top!Init /\ Open!Init /\ Leader!Init
  BY Parts DEF Init, Part, Top!Init, Open!Init, Leader!Init
<1>2. TypeOK /\ [Next]_vars => Moves(TopIds) /\ Moves(OpenIds) /\ Moves(LeaderIds)
  <2> SUFFICES ASSUME TypeOK, [Next]_vars
               PROVE  Moves(TopIds) /\ Moves(OpenIds) /\ Moves(LeaderIds)
    OBVIOUS
  <2>1. CASE Dispatch(Plans(deferrals), Work)
    <3>1. PICK p \in Plans(deferrals), eligible \in SUBSET Work :
            \E leader \in Leaders(p, eligible) : \E waiting \in Waiting(Work, leader, eligible) :
              Wave(p, eligible, leader, waiting)
      BY <2>1 DEF Dispatch
    <3>2. PICK leader \in Leaders(p, eligible) :
            deferrals' = DeferralsAfter(deferrals, p, leader) /\ waited' = WaitedAfter(p, leader)
      BY <3>1 DEF Wave
    <3>3. Sound(leader, deferrals, LeaderIds) BY LeadersSound
    <3>4. InputAgrees(deferrals, deferrals, Observed(p, leader)) BY DEF InputAgrees
    <3> QED BY <3>2, <3>3, <3>4, PlansSound, TraceMoves
  <2>2. ASSUME NEW r \in Runs, Record(r, Plans(held[r].deferrals))
        PROVE  Moves(TopIds) /\ Moves(OpenIds) /\ Moves(LeaderIds)
    <3>1. PICK p \in Plans(held[r].deferrals) :
            \/ UNCHANGED <<deferrals, waited>>
            \/ /\ InputAgrees(held[r].deferrals, deferrals, Observed(p, NoComparison))
               /\ deferrals' = DeferralsAfter(held[r].deferrals, p, NoComparison)
               /\ waited' = WaitedAfter(p, NoComparison)
      BY <2>2 DEF Record
    <3>2. Sound(NoComparison, held[r].deferrals, LeaderIds) BY DEF Sound, Empty, NoComparison
    <3>3. CASE UNCHANGED <<deferrals, waited>> BY <3>3 DEF Moves
    <3> QED BY <3>1, <3>2, <3>3, PlansSound, TraceMoves
  <2>3. CASE OtherPatch \/ (\E r \in Runs : Hold(r)) \/ UNCHANGED vars
    <3>1. deferrals' = deferrals /\ waited' = waited BY <2>3 DEF OtherPatch, Hold, tables, vars
    <3> QED BY <3>1 DEF Moves
  <2> QED BY <2>1, <2>2, <2>3 DEF Next
<1>3. TypeOK /\ [Next]_vars
      => [Top!Next]_(Top!vars) /\ [Open!Next]_(Open!vars) /\ [Leader!Next]_(Leader!vars)
  BY <1>2, TopMoves, OpenMoves, LeaderMoves
<1> QED BY <1>1, <1>3, Typing, PTL DEF Spec, StrataFair
-----------------------------------------------------------------------------
(* What becomes of blocked work.  While it is not compared at all its wait *)
(* is in the queue; once it is, its row in the table follows its wait, and *)
(* when that row is due, each wave it is passed over costs it a rival.     *)

Row(w) == deferrals[Serialized(w)]

Ahead(w) ==
  {i \in LeaderIds \ {Serialized(w)} : deferrals[i] >= Row(w)}

Turn(w) ==
  /\ blocked[w] <= queued[w]
  /\ blocked[w] <= Limit + Row(w)
  /\ Row(w) = 0 /\ blocked[w] > 0 => \A i \in LeaderIds : deferrals[i] = 0
  /\ Row(w) \in 1..(Limit - 1) /\ blocked[w] = Limit + Row(w) =>
       /\ \A i \in LeaderIds : deferrals[i] <= Row(w)
       /\ \E v \in Work \ {w} : Row(v) < Row(w)
  /\ Row(w) >= Limit =>
       blocked[w] + Cardinality(Ahead(w)) <= 2 * Limit + Cardinality(Work) - 2

Turns == \A w \in Work : Turn(w)

(* The leader comparison counts its rows, and nothing else touches them. *)
LEMMA LeaderTable ==
  ASSUME TypeOK, NEW p \in Plans(deferrals), NEW eligible \in SUBSET Work,
         NEW leader \in Leaders(p, eligible), NEW i \in LeaderIds
  PROVE  DeferralsAfter(deferrals, p, leader)[i] =
           IF i \in leader.rows \ {leader.selected} THEN deferrals[i] + 1 ELSE 0
<1>1. leader.pool = leader.rows
  BY DEF Leaders, NoComparison
<1>2. p.top.rows \subseteq TopIds /\ p.open.rows \subseteq OpenIds
  BY PlansSound DEF Sound, Empty, Decided
<1>3. i \in Observed(p, leader) <=> i \in leader.rows
  BY <1>2, Apart DEF Observed
<1>4. AncestorsSelected(p, leader, i) /\ Comparison(p, leader, i) = leader
  BY Apart DEF AncestorsSelected, Comparison
<1>5. i \in Deferred(p, leader) <=> i \in leader.rows \ {leader.selected}
  BY <1>1, <1>3, <1>4 DEF Deferred
<1> QED BY <1>5, Parts DEF DeferralsAfter

(* No work is compared, because none that could lead is overdue. *)
Unled ==
  /\ \A i \in LeaderIds : deferrals'[i] = 0
  /\ \A w \in Work : blocked'[w] # 0 =>
       /\ blocked'[w] = blocked[w] + 1 /\ queued'[w] = queued[w] + 1
       /\ queued[w] < Limit

(* Work is compared with the scheduled action, and the rule chooses. *)
Led(action, rows, s) ==
  /\ action \in ScheduledIds /\ rows \subseteq {action} \union {Serialized(w) : w \in Work}
  /\ s \in DecisionOutcomes(deferrals, rows)
  /\ \A i \in LeaderIds : deferrals'[i] = IF i \in rows \ {s} THEN deferrals[i] + 1 ELSE 0
  /\ ~LeaderHistory(rows) => s # action
  /\ LeaderHistory(rows) /\ Due(deferrals, rows) = {} => s = action
  /\ \A w \in Work : blocked'[w] # 0 =>
       /\ blocked'[w] = blocked[w] + 1 /\ queued'[w] = queued[w] + 1
       /\ Serialized(w) \in rows \ {s}

LEMMA WavesLead ==
  ASSUME TypeOK, NEW p \in Plans(deferrals), NEW eligible \in SUBSET Work,
         NEW leader \in Leaders(p, eligible), NEW waiting \in Waiting(Work, leader, eligible),
         Wave(p, eligible, leader, waiting)
  PROVE  Unled \/ \E action, rows, s : Led(action, rows, s)
<1>1. \A i \in LeaderIds :
        deferrals'[i] = IF i \in leader.rows \ {leader.selected} THEN deferrals[i] + 1 ELSE 0
  BY LeaderTable DEF Wave
<1>2. \A w \in Work : blocked'[w] # 0 =>
        /\ blocked'[w] = blocked[w] + 1 /\ queued'[w] = queued[w] + 1
        /\ w \in eligible /\ w \in waiting /\ ~p.must
  BY DEF Wave, QueuedAfter, Waiting
<1>3. \A i \in LeaderIds : deferrals[i] \in Nat
  BY Parts DEF TypeOK
<1>4. \A w \in Work : Serialized(w) \in LeaderIds /\ queued[w] \in Nat
  BY DEF LeaderIds, TypeOK
<1>5. CASE leader = NoComparison
  <2>1. \A i \in LeaderIds : deferrals'[i] = 0
    BY <1>1, <1>5 DEF NoComparison
  <2>2. ASSUME NEW w \in Work, blocked'[w] # 0
        PROVE  queued[w] < Limit
    <3>1. w \in eligible /\ ~p.must
      BY <1>2, <2>2
    <3>2. ~LeaderCompared(p, eligible)
      <4>1. \A i : [rows |-> LeaderRows(p, eligible), pool |-> LeaderRows(p, eligible),
                    selected |-> i] # NoComparison
        <5>1. LeaderRows(p, eligible) # {}
          BY DEF LeaderRows
        <5> QED BY <5>1 DEF NoComparison
      <4> QED BY <1>5, <4>1 DEF Leaders
    <3>3. \/ \A v \in Work : ~(queued[v] >= Limit)
          \/ Overdue(eligible) = {}
      BY <3>1, <3>2 DEF LeaderCompared
    <3> QED BY <3>1, <3>3, <1>4 DEF Overdue
  <2> QED BY <1>2, <2>1, <2>2 DEF Unled
<1>6. CASE leader # NoComparison
  <2> DEFINE action == Scheduled(Leaf(p))
             rows == LeaderRows(p, eligible)
  <2>1. PICK s \in LeaderSelected(p, eligible) :
          leader = [rows |-> rows, pool |-> rows, selected |-> s]
    BY <1>6 DEF Leaders
  <2>2. action \in ScheduledIds /\ rows \subseteq {action} \union {Serialized(w) : w \in Work}
    BY LeafIn DEF LeaderRows, ScheduledIds
  <2>3. s \in DecisionOutcomes(deferrals, rows)
    BY LeadersSound, <1>6, <2>1 DEF Sound, Empty, Decided, LeaderRows
  <2>4. ~LeaderHistory(rows) => s # action
    BY <2>1 DEF LeaderSelected, Scheduled, Serialized
  <2>5. LeaderHistory(rows) /\ Due(deferrals, rows) = {} => s = action
    BY <2>1 DEF LeaderSelected
  <2>6. ASSUME NEW w \in Work, blocked'[w] # 0
        PROVE  Serialized(w) \in rows \ {s}
    <3>1. w \in eligible /\ w \in waiting
      BY <1>2, <2>6
    <3>2. s = Serialized(w) => Promoted(leader)
      <4>1. Serialized(w) \notin ScheduledIds
        BY DEF ScheduledIds, Scheduled, Serialized
      <4>2. leader.rows # {} /\ leader.selected = s
        BY <2>1 DEF LeaderRows
      <4> QED BY <4>1, <4>2 DEF Promoted
    <3>3. s # Serialized(w)
      BY <2>1, <3>1, <3>2 DEF Waiting
    <3> QED BY <3>1, <3>3 DEF LeaderRows
  <2>7. \A i \in LeaderIds : deferrals'[i] = IF i \in rows \ {s} THEN deferrals[i] + 1 ELSE 0
    BY <1>1, <2>1
  <2>8. Led(action, rows, s)
    BY <1>2, <2>2, <2>3, <2>4, <2>5, <2>6, <2>7 DEF Led
  <2> QED BY <2>8
<1> QED BY <1>5, <1>6

(* What a function makes of a finite set is finite and no larger. *)
LEMMA ImageFinite ==
  ASSUME NEW S, IsFiniteSet(S), NEW f, f \in [S -> {f[x] : x \in S}]
  PROVE  /\ IsFiniteSet({f[x] : x \in S})
         /\ Cardinality({f[x] : x \in S}) <= Cardinality(S)
<1>1. f \in Surjection(S, {f[x] : x \in S})
  BY DEF Surjection
<1> QED BY <1>1, FS_Surjection

LEMMA FiniteLeaders == IsFiniteSet(LeaderIds)
<1> DEFINE top == [o \in Operations |-> <<"top", o>>]
           open == [t \in Strata |-> <<"open", t>>]
           leaf == [i \in TopIds \union OpenIds |-> Scheduled(i)]
           work == [w \in Work |-> Serialized(w)]
<1>1. IsFiniteSet({top[o] : o \in Operations}) /\ IsFiniteSet({open[t] : t \in Strata})
  BY ImageFinite
<1>2. IsFiniteSet(TopIds)
  <2>1. {Planner} \union {top[o] : o \in Operations} = TopIds
    BY DEF TopIds
  <2> HIDE DEF top
  <2> QED BY <1>1, <2>1, FS_Union, FS_Singleton
<1>3. IsFiniteSet(OpenIds)
  BY <1>1 DEF OpenIds
<1>4. IsFiniteSet(TopIds \union OpenIds)
  BY <1>2, <1>3, FS_Union
<1>5. IsFiniteSet(ScheduledIds)
  <2>1. IsFiniteSet({leaf[i] : i \in TopIds \union OpenIds})
    BY <1>4, ImageFinite
  <2>2. {leaf[i] : i \in TopIds \union OpenIds} = ScheduledIds
    BY DEF ScheduledIds
  <2> QED BY <2>1, <2>2
<1>6. IsFiniteSet({work[w] : w \in Work})
  BY ImageFinite
<1> QED BY <1>5, <1>6, FS_Union DEF LeaderIds

LEMMA RowsTyped ==
  ASSUME TypeOK
  PROVE  /\ \A i \in LeaderIds : deferrals[i] \in Nat
         /\ \A w \in Work : /\ Serialized(w) \in LeaderIds /\ Serialized(w) \notin ScheduledIds
                            /\ Row(w) \in Nat /\ blocked[w] \in Nat /\ queued[w] \in Nat
         /\ \A v, w \in Work : Serialized(v) = Serialized(w) => v = w
         /\ Cardinality(Work) \in Nat
<1>1. \A w \in Work : Serialized(w) \in LeaderIds /\ Serialized(w) \notin ScheduledIds
  BY DEF LeaderIds, ScheduledIds, Scheduled, Serialized
<1>2. \A i \in LeaderIds : deferrals[i] \in Nat
  BY Parts DEF TypeOK
<1>3. \A v, w \in Work : Serialized(v) = Serialized(w) => v = w
  BY DEF Serialized
<1> QED BY <1>1, <1>2, <1>3, FS_CardinalityType DEF TypeOK, Row

(* How many may be ahead: of the compared rows all but the one chosen, and *)
(* of those all but any that is known to lag.                              *)
LEMMA FewAhead ==
  ASSUME TypeOK, NEW w \in Work, NEW action, NEW lag \in SUBSET (Work \ {w}),
         NEW s \in {action} \union {Serialized(v) : v \in (Work \ {w}) \ lag},
         NEW S \in SUBSET ({action} \union {Serialized(v) : v \in (Work \ {w}) \ lag}),
         s \notin S
  PROVE  /\ IsFiniteSet(S) /\ Cardinality(S) \in Nat
         /\ Cardinality(S) <= Cardinality(Work) - Cardinality(lag) - 1
<1> DEFINE others == (Work \ {w}) \ lag
           rows == {Serialized(v) : v \in others}
           all == {action} \union rows
<1>1. IsFiniteSet(others) /\ IsFiniteSet(lag) /\ IsFiniteSet(Work)
  BY FS_Subset
<1>2. Cardinality(others) = Cardinality(Work) - 1 - Cardinality(lag)
  <2>1. IsFiniteSet(Work \ {w}) /\ Cardinality(Work \ {w}) = Cardinality(Work) - 1
    BY <1>1, FS_RemoveElement
  <2>2. (Work \ {w}) \intersect lag = lag
    OBVIOUS
  <2> QED BY <2>1, <2>2, FS_Difference
<1>3. IsFiniteSet(rows) /\ Cardinality(rows) <= Cardinality(others)
  <2> DEFINE f == [v \in others |-> Serialized(v)]
  <2>1. {f[v] : v \in others} = rows
    OBVIOUS
  <2>2. f \in [others -> {f[v] : v \in others}]
    OBVIOUS
  <2> HIDE DEF f, rows, others
  <2>3. /\ IsFiniteSet({f[v] : v \in others})
        /\ Cardinality({f[v] : v \in others}) <= Cardinality(others)
    BY <1>1, <2>2, ImageFinite
  <2> QED BY <2>1, <2>3
<1>4. IsFiniteSet(all) /\ Cardinality(all) <= Cardinality(rows) + 1
  <2>1. all = rows \union {action}
    OBVIOUS
  <2>2. Cardinality(rows) \in Nat
    BY <1>3, FS_CardinalityType
  <2> HIDE DEF rows, all
  <2>3. IsFiniteSet(rows \union {action})
    BY <1>3, FS_AddElement
  <2>4. Cardinality(rows \union {action}) =
          IF action \in rows THEN Cardinality(rows) ELSE Cardinality(rows) + 1
    BY <1>3, FS_AddElement
  <2> QED BY <2>1, <2>2, <2>3, <2>4
<1>5. /\ Cardinality(Work) \in Nat /\ Cardinality(others) \in Nat /\ Cardinality(rows) \in Nat
      /\ Cardinality(lag) \in Nat /\ Cardinality(all) \in Nat
  BY <1>1, <1>3, <1>4, FS_CardinalityType
<1>6. IsFiniteSet(S) /\ Cardinality(S) \in Nat /\ Cardinality(S) <= Cardinality(all)
  BY <1>4, FS_Subset, FS_CardinalityType
<1>7. Cardinality(S) <= Cardinality(all) - 1
  <2>1. IsFiniteSet(all \ {s}) /\ Cardinality(all \ {s}) = Cardinality(all) - 1
    BY <1>4, FS_RemoveElement
  <2>2. S \subseteq all \ {s}
    OBVIOUS
  <2> QED BY <2>1, <2>2, FS_Subset
<1> QED BY <1>2, <1>3, <1>4, <1>5, <1>6, <1>7

(* A wave that compares work keeps every turn. *)
LEMMA LedTurn ==
  ASSUME TypeOK, TypeOK', Limit >= 2, NEW action, NEW rows, NEW s, Led(action, rows, s),
         NEW w \in Work, Turn(w), \A v \in Work : Turn(v)
  PROVE  Turn(w)'
<1> DEFINE me == Serialized(w)
<1>1. /\ \A i \in LeaderIds : deferrals[i] \in Nat /\ deferrals'[i] \in Nat
      /\ me \in LeaderIds /\ me \notin ScheduledIds /\ action \in LeaderIds
      /\ Row(w) \in Nat /\ Row(w)' \in Nat /\ Row(w)' = deferrals'[me]
      /\ blocked[w] \in Nat /\ blocked'[w] \in Nat /\ queued[w] \in Nat /\ queued'[w] \in Nat
      /\ Cardinality(Work) \in Nat \ {0}
  <2>1. Cardinality(Work) # 0
    BY FS_EmptySet
  <2> QED BY <2>1, RowsTyped DEF Led, LeaderIds, Row, TypeOK
<1>2. /\ \A i \in LeaderIds : deferrals'[i] = IF i \in rows \ {s} THEN deferrals[i] + 1 ELSE 0
      /\ s \in rows /\ rows \subseteq LeaderIds
  BY DEF Led, DecisionOutcomes, Due, LeaderIds
<1>3. blocked'[w] # 0 =>
        /\ blocked'[w] = blocked[w] + 1 /\ queued'[w] = queued[w] + 1 /\ me \in rows \ {s}
  BY DEF Led
<1>4. me \in rows \ {s} => Row(w)' = Row(w) + 1
  BY <1>1, <1>2 DEF Row
<1>5. me \notin rows \ {s} => Row(w)' = 0 /\ blocked'[w] = 0
  BY <1>1, <1>2, <1>3
<1>6. blocked'[w] <= queued'[w] /\ blocked'[w] <= Limit + Row(w)'
  BY <1>1, <1>3, <1>4 DEF Turn
<1>7. ~(Row(w)' = 0 /\ blocked'[w] > 0)
  BY <1>1, <1>3, <1>4
\* Nobody is due when the action was chosen although the wait was full.
<1>8. ASSUME me \in rows \ {s}, blocked[w] = Limit + Row(w), Row(w) \in 0..(Limit - 1)
      PROVE  /\ \A i \in LeaderIds : deferrals'[i] <= Row(w) + 1
             /\ \E v \in Work \ {w} : Row(v)' < Row(w) + 1
             /\ Row(w) > 0 => s = action
  <2>1. CASE Row(w) = 0
    <3>1. \A i \in LeaderIds : deferrals[i] = 0
      BY <1>1, <1>8, <2>1 DEF Turn
    <3>2. ~LeaderHistory(rows)
      BY <1>2, <3>1 DEF LeaderHistory
    <3>3. PICK v \in Work : s = Serialized(v)
      BY <1>2, <3>2 DEF Led
    <3>4. v # w /\ deferrals'[s] = 0
      BY <1>2, <1>8, <3>3
    <3> QED BY <1>2, <2>1, <3>1, <3>3, <3>4 DEF Row
  <2>2. CASE Row(w) > 0
    <3>1. Row(w) \in 1..(Limit - 1)
      BY <1>1, <1>8, <2>2
    <3>2. /\ \A i \in LeaderIds : deferrals[i] <= Row(w)
          /\ \E v \in Work \ {w} : Row(v) < Row(w)
      BY <1>8, <3>1 DEF Turn
    <3>3. Due(deferrals, rows) = {}
      BY <1>1, <1>2, <3>1, <3>2 DEF Due
    <3>4. LeaderHistory(rows)
      BY <1>8, <2>2 DEF LeaderHistory, Row
    <3>5. s = action
      BY <3>3, <3>4 DEF Led
    <3>6. \A i \in LeaderIds : deferrals'[i] <= deferrals[i] + 1
      BY <1>1, <1>2
    <3>7. PICK v \in Work \ {w} : Row(v) < Row(w)
      BY <3>2
    <3>8. Serialized(v) \in LeaderIds /\ Row(v) \in Nat
      BY RowsTyped
    <3>9. Row(v)' < Row(w) + 1
      BY <1>1, <3>6, <3>7, <3>8 DEF Row
    <3> QED BY <1>1, <3>2, <3>5, <3>6, <3>7, <3>9
  <2> QED BY <1>1, <2>1, <2>2
<1>9. Row(w)' \in 1..(Limit - 1) /\ blocked'[w] = Limit + Row(w)' =>
        /\ \A i \in LeaderIds : deferrals'[i] <= Row(w)'
        /\ \E v \in Work \ {w} : Row(v)' < Row(w)'
  BY <1>1, <1>3, <1>4, <1>5, <1>8
<1>10. Row(w)' >= Limit =>
         blocked'[w] + Cardinality(Ahead(w)') <= 2 * Limit + Cardinality(Work) - 2
  <2> SUFFICES ASSUME Row(w)' >= Limit
               PROVE  blocked'[w] + Cardinality(Ahead(w)') <= 2 * Limit + Cardinality(Work) - 2
    OBVIOUS
  <2>1. me \in rows \ {s} /\ Row(w)' = Row(w) + 1
    BY <1>1, <1>4, <1>5
  <2>2. Ahead(w)' \subseteq (rows \ {s}) \ {me}
    <3>1. ASSUME NEW i \in Ahead(w)'
          PROVE  i \in (rows \ {s}) \ {me}
      <4>1. i \in LeaderIds /\ i # me /\ deferrals'[i] >= Row(w)'
        BY DEF Ahead
      <4> QED BY <1>1, <1>2, <4>1
    <3> QED BY <3>1
  <2>3. (rows \ {s}) \ {me} \subseteq {action} \union {Serialized(v) : v \in (Work \ {w}) \ {}}
    BY DEF Led
  <2>4. s \in {action} \union {Serialized(v) : v \in (Work \ {w}) \ {}}
    BY <1>2, <2>1 DEF Led
  <2>5. /\ IsFiniteSet(Ahead(w)') /\ Cardinality(Ahead(w)') \in Nat
        /\ Cardinality(Ahead(w)') <= Cardinality(Work) - 1
    <3>1. Cardinality({}) = 0
      BY FS_EmptySet
    <3>2. {} \in SUBSET (Work \ {w})
      OBVIOUS
    <3>3. s \notin Ahead(w)' /\ Ahead(w)' \subseteq {action} \union {Serialized(v) : v \in (Work \ {w}) \ {}}
      BY <2>2, <2>3
    <3>4. /\ IsFiniteSet(Ahead(w)') /\ Cardinality(Ahead(w)') \in Nat
          /\ Cardinality(Ahead(w)') <= Cardinality(Work) - Cardinality({}) - 1
      BY <2>4, <3>2, <3>3, FewAhead
    <3> QED BY <1>1, <3>1, <3>4
  <2>6. CASE blocked'[w] <= 2 * Limit - 1
    BY <1>1, <2>5, <2>6
  <2>7. CASE blocked'[w] > 2 * Limit - 1 /\ Row(w) >= Limit
    <3>1. blocked'[w] = blocked[w] + 1
      BY <1>1, <1>3, <2>7
    <3>2. blocked[w] + Cardinality(Ahead(w)) <= 2 * Limit + Cardinality(Work) - 2
      BY <2>7 DEF Turn
    <3>3. Ahead(w)' \subseteq Ahead(w) \ {s}
      BY <1>1, <1>2, <2>1, <2>2 DEF Ahead
    <3>4. s \in Ahead(w)
      <4>1. me \in Due(deferrals, rows)
        BY <2>1, <2>7 DEF Due, Row
      <4>2. deferrals[me] <= deferrals[s]
        BY <4>1 DEF Led, DecisionOutcomes
      <4> QED BY <1>2, <2>1, <4>2, <1>1 DEF Ahead, Row
    <3>5. IsFiniteSet(Ahead(w))
      <4>1. IsFiniteSet(LeaderIds)
        BY FiniteLeaders
      <4> QED BY <4>1, FS_Subset DEF Ahead
    <3>6. Cardinality(Ahead(w)') <= Cardinality(Ahead(w)) - 1
      <4>1. IsFiniteSet(Ahead(w) \ {s}) /\ Cardinality(Ahead(w) \ {s}) = Cardinality(Ahead(w)) - 1
        BY <3>4, <3>5, FS_RemoveElement
      <4> QED BY <3>3, <4>1, FS_Subset
    <3>7. Cardinality(Ahead(w)) \in Nat
      BY <3>5, FS_CardinalityType
    <3> QED BY <1>1, <2>5, <3>1, <3>2, <3>6, <3>7
  <2>8. CASE blocked'[w] > 2 * Limit - 1 /\ Row(w) < Limit
    <3>1. Row(w) = Limit - 1 /\ blocked'[w] = blocked[w] + 1
      BY <1>1, <1>3, <2>1, <2>8
    <3>2. blocked[w] = Limit + Row(w)
      BY <1>1, <2>8, <3>1 DEF Turn
    <3>3. /\ \E v \in Work \ {w} : Row(v)' < Row(w) + 1
          /\ s = action
      BY <1>1, <1>8, <2>1, <3>1, <3>2
    <3>4. PICK v \in Work \ {w} : Row(v)' < Row(w) + 1
      BY <3>3
    <3>5. Ahead(w)' \subseteq {action} \union {Serialized(u) : u \in (Work \ {w}) \ {v}}
      <4>1. Serialized(v) \notin Ahead(w)'
        BY <1>1, <2>1, <3>4, RowsTyped DEF Ahead, Row
      <4> QED BY <2>2, <2>3, <4>1
    <3>6. {v} \in SUBSET (Work \ {w}) /\ Cardinality({v}) = 1
      BY FS_Singleton
    <3>7. action \notin Ahead(w)'
      BY <2>2, <3>3
    <3>8. Cardinality(Ahead(w)') <= Cardinality(Work) - 2
      <4>1. Cardinality(Ahead(w)') <= Cardinality(Work) - Cardinality({v}) - 1
        BY <3>5, <3>6, <3>7, FewAhead
      <4> QED BY <1>1, <3>6, <4>1
    <3>9. blocked'[w] = 2 * Limit
      BY <1>1, <3>1, <3>2
    <3> QED BY <1>1, <2>5, <3>8, <3>9
  <2> QED BY <1>1, <2>6, <2>7, <2>8
<1> QED BY <1>6, <1>7, <1>9, <1>10, <1>1 DEF Turn

(* So does a wave that compares none, and one after which nothing waits. *)
LEMMA UnledTurn ==
  ASSUME TypeOK, TypeOK', NEW w \in Work, Turn(w),
         \A i \in LeaderIds : deferrals'[i] = 0,
         blocked'[w] # 0 => blocked'[w] = blocked[w] + 1 /\ queued'[w] = queued[w] + 1
                              /\ queued[w] < Limit
  PROVE  Turn(w)'
<1>1. /\ blocked[w] \in Nat /\ blocked'[w] \in Nat /\ queued[w] \in Nat /\ queued'[w] \in Nat
      /\ Row(w)' = 0
  BY RowsTyped DEF TypeOK, Row
<1>2. blocked'[w] <= queued'[w] /\ blocked'[w] <= Limit + Row(w)'
  BY <1>1 DEF Turn
<1> QED BY <1>1, <1>2 DEF Turn

LEMMA TurnsKept ==
  ASSUME TypeOK, TypeOK', Limit >= 2, Turns, [Next]_vars
  PROVE  Turns'
<1>1. CASE Dispatch(Plans(deferrals), Work)
  <2>1. PICK p \in Plans(deferrals), eligible \in SUBSET Work :
          \E leader \in Leaders(p, eligible) : \E waiting \in Waiting(Work, leader, eligible) :
            Wave(p, eligible, leader, waiting)
    BY <1>1 DEF Dispatch
  <2>2. PICK leader \in Leaders(p, eligible) :
          \E waiting \in Waiting(Work, leader, eligible) : Wave(p, eligible, leader, waiting)
    BY <2>1
  <2>3. Unled \/ \E action, rows, s : Led(action, rows, s)
    BY <2>2, WavesLead
  <2>4. CASE Unled
    BY <2>4, UnledTurn DEF Unled, Turns
  <2>5. ASSUME NEW action, NEW rows, NEW s, Led(action, rows, s)
        PROVE  Turns'
    BY <2>5, LedTurn DEF Turns
  <2> QED BY <2>3, <2>4, <2>5
<1>2. ASSUME NEW r \in Runs, Record(r, Plans(held[r].deferrals))
      PROVE  Turns'
  <2>1. PICK p \in Plans(held[r].deferrals) :
          \/ UNCHANGED <<deferrals, blocked>>
          \/ /\ InputAgrees(held[r].deferrals, deferrals, Observed(p, NoComparison))
             /\ deferrals' = DeferralsAfter(held[r].deferrals, p, NoComparison)
             /\ blocked' = [w \in Work |-> 0]
    BY <1>2 DEF Record
  <2>2. UNCHANGED queued
    BY <1>2 DEF Record
  <2>3. CASE UNCHANGED <<deferrals, blocked>>
    BY <2>2, <2>3 DEF Turns, Turn, Row, Ahead
  <2>4. CASE /\ deferrals' = DeferralsAfter(held[r].deferrals, p, NoComparison)
             /\ blocked' = [w \in Work |-> 0]
    <3>1. p.top.rows \subseteq TopIds /\ p.open.rows \subseteq OpenIds
      BY PlansSound DEF Sound, Empty, Decided
    <3>2. \A i \in LeaderIds : i \notin Observed(p, NoComparison)
      BY <3>1, Apart DEF Observed, NoComparison
    <3>3. \A i \in LeaderIds : deferrals'[i] = 0
      BY <2>4, <3>2, Parts DEF DeferralsAfter, Deferred
    <3> QED BY <2>4, <3>3, UnledTurn DEF Turns
  <2> QED BY <2>1, <2>3, <2>4
<1>3. CASE OtherPatch \/ (\E r \in Runs : Hold(r)) \/ UNCHANGED vars
  <2>1. UNCHANGED <<deferrals, queued, blocked>>
    BY <1>3 DEF OtherPatch, Hold, tables, vars
  <2> QED BY <2>1 DEF Turns, Turn, Row, Ahead
<1> QED BY <1>1, <1>2, <1>3 DEF Next

LEMMA TurnBounds ==
  ASSUME TypeOK, NEW w \in Work, Turn(w)
  PROVE  blocked[w] <= 2 * Limit + Cardinality(Work) - 2
<1>1. /\ Row(w) \in Nat /\ blocked[w] \in Nat
      /\ Cardinality(Work) \in Nat /\ Cardinality(Work) # 0
  BY RowsTyped, FS_EmptySet
<1>2. CASE Row(w) < Limit
  BY <1>1, <1>2 DEF Turn
<1>3. CASE Row(w) >= Limit
  <2>1. Cardinality(Ahead(w)) \in Nat
    <3>1. IsFiniteSet(Ahead(w))
      BY FiniteLeaders, FS_Subset DEF Ahead
    <3> QED BY <3>1, FS_CardinalityType
  <2> QED BY <1>1, <1>3, <2>1 DEF Turn
<1> QED BY <1>1, <1>2, <1>3

(* Blocked work leads in its turn, for every amount of work and every      *)
(* limit but 1, where the scheduled action is due at once and goes first   *)
(* once more; the code has 3 (scheduler.py:4957).                          *)
THEOREM InTurn == ASSUME Limit >= 2 PROVE Spec => []ServedInTurn
<1>1. Init => Turns
  <2> SUFFICES ASSUME Init, NEW w \in Work PROVE Turn(w)
    BY DEF Turns
  <2>1. blocked[w] = 0 /\ queued[w] = 0 /\ Row(w) = 0
    BY Parts DEF Init, Row, LeaderIds
  <2> QED BY <2>1 DEF Turn
<1>2. TypeOK /\ TypeOK' /\ Turns /\ [Next]_vars => Turns'
  BY TurnsKept
<1>3. TypeOK /\ Turns => ServedInTurn
  BY TurnBounds DEF Turns, ServedInTurn
<1> QED BY <1>1, <1>2, <1>3, Typing, PTL DEF Spec
=============================================================================
