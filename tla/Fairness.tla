------------------------------ MODULE Fairness ------------------------------
(***************************************************************************)
(* How the scheduler remembers whom it passed over (scheduler.py,          *)
(* decision_policy.py, patches.py).  A plan is a tree of comparisons: the  *)
(* base planner against the research-strategy operations, below the        *)
(* planner its strata for an open problem, and, when work has queued too   *)
(* long behind the primary action of its wave, above both a comparison of  *)
(* the scheduled primary with the work it blocks.  Two tables in the store *)
(* count deferrals, one of decisions and one of waves.  Recording a        *)
(* dispatch moves both; so does the record of a run that cites no          *)
(* dispatch, which may arrive after newer decisions.                       *)
(***************************************************************************)
EXTENDS Integers, FiniteSets

CONSTANTS
  Operations,   \* the research-strategy operations
  Strata,       \* the strata of the open problem
  Work,         \* the companion candidates of a wave
  Runs,         \* runs planned and executed without a dispatch
  Limit         \* SCHEDULER_DEFERRAL_LIMIT, PARALLEL_WAVE_DEFERRAL_LIMIT

ASSUME FairnessConstants ==
  /\ IsFiniteSet(Operations) /\ IsFiniteSet(Strata) /\ IsFiniteSet(Work)
  /\ Limit \in Nat \ {0}

Planner == <<"top", "planner">>
TopIds == {Planner} \union {<<"top", o>> : o \in Operations}
OpenIds == {<<"open", s>> : s \in Strata}
Scheduled(leaf) == <<"scheduled", leaf>>
Serialized(w) == <<"serialized", w>>
ScheduledIds == {Scheduled(leaf) : leaf \in TopIds \union OpenIds}
LeaderIds == ScheduledIds \union {Serialized(w) : w \in Work}
Ids == TopIds \union OpenIds \union LeaderIds

VARIABLES
  deferrals,      \* scheduler_decision_deferrals; 0 stands for no row
  queued,         \* scheduler_candidate_deferrals, of the last wave
  revision,       \* the head of the store
  lastDecision,   \* last_state_revision of scheduler_decision_fairness_meta
  held,           \* what each direct run was planned from
  waited,         \* history: how often in a row its own comparison passed it over
  blocked         \* history: waves in a row that work could have led and did not

tables == <<deferrals, queued, lastDecision>>
vars == <<deferrals, queued, revision, lastDecision, held, waited, blocked>>

Nobody == <<"nobody">>
NotHeld == [rev |-> 0, deferrals |-> [i \in Ids |-> 0]]

Init ==
  /\ deferrals = [i \in Ids |-> 0]
  /\ queued = [w \in Work |-> 0]
  /\ revision = 1
  /\ lastDecision = 0
  /\ held = [r \in Runs |-> NotHeld]
  /\ waited = [i \in Ids |-> 0]
  /\ blocked = [w \in Work |-> 0]

-----------------------------------------------------------------------------
(* One comparison.  Its rows are the admissible candidates; mandatory      *)
(* constraints and the policy tier leave a pool of them, which stands for  *)
(* the classes, and within the pool the most overdue candidate goes first. *)

Due(counts, pool) == {i \in pool : counts[i] >= Limit}

(* Mutant: what is due is compared by priority alone. *)
DecisionOutcomesByPriority(counts, pool) ==
  IF Due(counts, pool) = {} THEN pool ELSE Due(counts, pool)

DecisionOutcomes(counts, pool) ==
  IF Due(counts, pool) = {} THEN pool
  ELSE {i \in Due(counts, pool) : \A j \in Due(counts, pool) : counts[j] <= counts[i]}

NoComparison == [rows |-> {}, pool |-> {}, selected |-> Nobody]

Comparisons(counts, ids) ==
  UNION {UNION {{[rows |-> rows, pool |-> pool, selected |-> i] :
                   i \in DecisionOutcomes(counts, pool)} :
                pool \in (SUBSET rows) \ {{}}} :
         rows \in (SUBSET ids) \ {{}}}

(* A gate is traced as the only row of its tree; the strata it came out of *)
(* stay nested under it.                                                   *)
Gates(counts) ==
  {[gate |-> TRUE, must |-> TRUE, top |-> NoComparison, open |-> open] :
     open \in Comparisons(counts, OpenIds) \union {NoComparison}}

(* The planner's row stands beside the operations that are due, and the    *)
(* strata are nested under it whichever row is selected.                   *)
Choices(counts) ==
  {[gate |-> FALSE, must |-> must, top |-> top, open |-> open] :
     must \in BOOLEAN,
     top \in {c \in Comparisons(counts, TopIds) : Planner \in c.rows},
     open \in Comparisons(counts, OpenIds) \union {NoComparison}}

(* Only an operation can be a mandatory row beside the planner's. *)
Plans(counts) ==
  Gates(counts) \union
    {p \in Choices(counts) : p.must => Planner \notin p.top.pool}

(* The action that a plan schedules, by the row it comes from. *)
Leaf(p) ==
  IF p.gate \/ (p.top.selected = Planner /\ p.open.rows # {})
  THEN (IF p.open.rows # {} THEN p.open.selected ELSE Planner)
  ELSE p.top.selected

-----------------------------------------------------------------------------
(* Work blocked only by serializable ownership of the primary may lead.    *)

Overdue(eligible) == {w \in eligible : queued[w] >= Limit}

LeaderRows(p, eligible) == {Scheduled(Leaf(p))} \union {Serialized(w) : w \in eligible}

LeaderHistory(rows) == \E i \in rows : deferrals[i] > 0

LeaderCompared(p, eligible) ==
  /\ ~p.must /\ eligible # {}
  /\ (\E w \in Work : queued[w] >= Limit) \/ LeaderHistory(LeaderIds)
  /\ LeaderHistory(LeaderRows(p, eligible)) \/ Overdue(eligible) # {}

(* Mutant: the rows of the leader comparison carry no deferral limit. *)
LeaderSelectedByPriority(p, eligible) ==
  IF ~LeaderHistory(LeaderRows(p, eligible))
  THEN {Serialized(w) : w \in {v \in Overdue(eligible) :
          \A u \in Overdue(eligible) : queued[u] <= queued[v]}}
  ELSE {Scheduled(Leaf(p))}

(* The first comparison goes to the work that queued longest; after that   *)
(* the scheduled action leads until somebody is due, and wins a draw.      *)
LeaderSelected(p, eligible) ==
  LET rows == LeaderRows(p, eligible)
      overdue == Overdue(eligible)
      scheduled == Scheduled(Leaf(p)) IN
  IF ~LeaderHistory(rows)
  THEN {Serialized(w) : w \in {v \in overdue :
          \A u \in overdue : queued[u] <= queued[v]}}
  ELSE IF Due(deferrals, rows) = {} \/ scheduled \in DecisionOutcomes(deferrals, rows)
  THEN {scheduled}
  ELSE DecisionOutcomes(deferrals, rows)

Leaders(p, eligible) ==
  IF LeaderCompared(p, eligible)
  THEN {[rows |-> LeaderRows(p, eligible), pool |-> LeaderRows(p, eligible),
         selected |-> i] : i \in LeaderSelected(p, eligible)}
  ELSE {NoComparison}

Promoted(leader) == leader.rows # {} /\ leader.selected \notin ScheduledIds

-----------------------------------------------------------------------------
(* A trace is a plan under its leader comparison. *)

Observed(p, leader) == leader.rows \union p.top.rows \union p.open.rows

(* Mutant: a nested winner counts as selected whatever became of its parent. *)
AncestorsSelectedAlways(p, leader, i) == TRUE

AncestorsSelected(p, leader, i) ==
  /\ i \in TopIds \union OpenIds => ~Promoted(leader)
  /\ i \in OpenIds => p.gate \/ p.top.selected = Planner

Comparison(p, leader, i) ==
  IF i \in LeaderIds THEN leader ELSE IF i \in TopIds THEN p.top ELSE p.open

(* The rows that a trace defers: passed over within their own pool, or     *)
(* standing under a parent that was not selected.                          *)
Deferred(p, leader) ==
  {i \in Observed(p, leader) :
     AncestorsSelected(p, leader, i) =>
       LET c == Comparison(p, leader, i) IN i \in c.pool \ {c.selected}}

(* Mutant: a row that the trace does not mention is kept. *)
DeferralsKept(counts, p, leader) ==
  [i \in Ids |-> IF i \in Deferred(p, leader) THEN counts[i] + 1
                 ELSE IF i \in Observed(p, leader) THEN 0 ELSE counts[i]]

(* The table is emptied and filled from the trace. *)
DeferralsAfter(counts, p, leader) ==
  [i \in Ids |-> IF i \in Deferred(p, leader) THEN counts[i] + 1 ELSE 0]

(* What comes to run: the dispatched action and the rows it descends from. *)
Ran(p, leader) ==
  IF Promoted(leader) THEN {leader.selected}
  ELSE {leader.selected, p.top.selected} \union
       (IF p.gate \/ p.top.selected = Planner THEN {p.open.selected} ELSE {})

(* The history variable: a comparison was decided if its winner ran. *)
WaitedAfter(p, leader) ==
  [i \in Ids |->
     LET c == Comparison(p, leader, i) IN
     CASE i \notin c.rows -> 0
       [] i \in c.rows /\ c.selected \notin Ran(p, leader) -> waited[i]
       [] OTHER -> IF i \in c.pool \ {c.selected} THEN waited[i] + 1 ELSE 0]

(* Everything the wave rejects for want of a place waits; the rest of its  *)
(* rows are dropped.                                                       *)
QueuedAfter(counts, waiting) ==
  [w \in Work |-> IF w \in waiting THEN counts[w] + 1 ELSE 0]

(* Which work a wave may leave waiting: the leader is not its own          *)
(* companion, and what its primary blocks has nowhere else to go.          *)
Waiting(work, leader, eligible) ==
  {waiting \in SUBSET work :
     IF Promoted(leader) THEN \A w \in waiting : Serialized(w) # leader.selected
     ELSE eligible \subseteq waiting}

-----------------------------------------------------------------------------
(* One wave is planned and its dispatch recorded, on one revision of the   *)
(* store: a dispatch planned from an older one is refused, and the wave    *)
(* planned again.                                                          *)
Wave(p, eligible, leader, waiting) ==
  /\ deferrals' = DeferralsAfter(deferrals, p, leader)
  /\ waited' = WaitedAfter(p, leader)
  /\ queued' = QueuedAfter(queued, waiting)
  /\ blocked' = [w \in Work |->
                   IF w \in eligible \intersect waiting /\ ~p.must THEN blocked[w] + 1 ELSE 0]
  /\ lastDecision' = revision
  /\ revision' = revision + 1
  /\ UNCHANGED held

Dispatch(plans, work) ==
  \E p \in plans, eligible \in SUBSET work :
  \E leader \in Leaders(p, eligible) :
  \E waiting \in Waiting(work, leader, eligible) :
    Wave(p, eligible, leader, waiting)

(* Mutant: a run is stamped with the revision it will be recorded at. *)
HoldAhead(r) ==
  /\ held[r].rev = 0
  /\ held' = [held EXCEPT ![r] = [rev |-> revision + 1, deferrals |-> deferrals]]
  /\ UNCHANGED <<tables, revision, waited, blocked>>

(* A direct run is planned. *)
Hold(r) ==
  /\ held[r].rev = 0
  /\ held' = [held EXCEPT ![r] = [rev |-> revision, deferrals |-> deferrals]]
  /\ UNCHANGED <<tables, revision, waited, blocked>>

(* Some other patch is committed. *)
OtherPatch ==
  /\ revision' = revision + 1
  /\ UNCHANGED <<tables, held, waited, blocked>>

(* Mutant: the counts in a trace are not compared with the table. *)
InputAgreesUnchecked(in, counts, rows) == TRUE

InputAgrees(in, counts, rows) == \A i \in rows : in[i] = counts[i]

(* Its snapshot, or a newer one, has decided already. *)
Consumed(r) == held[r].rev <= lastDecision

(* The run is recorded without a wave.  Its decision moves the table if it *)
(* is newer than the last; if the table is not what it was planned from,   *)
(* the patch is refused.                                                   *)
Record(r, plans) ==
  /\ held[r].rev # 0
  /\ \E p \in plans :
       LET applied == InputAgrees(held[r].deferrals, deferrals, Observed(p, NoComparison)) IN
       IF Consumed(r)
       THEN /\ revision' = revision + 1
            /\ UNCHANGED <<deferrals, lastDecision, waited, blocked>>
       ELSE IF applied
       THEN /\ deferrals' = DeferralsAfter(held[r].deferrals, p, NoComparison)
            /\ waited' = WaitedAfter(p, NoComparison)
            /\ lastDecision' = held[r].rev
            /\ revision' = revision + 1
            /\ blocked' = [w \in Work |-> 0]
       ELSE UNCHANGED <<deferrals, lastDecision, revision, waited, blocked>>
  /\ held' = [held EXCEPT ![r] = NotHeld]
  /\ UNCHANGED queued

Next ==
  \/ Dispatch(Plans(deferrals), Work)
  \/ OtherPatch
  \/ \E r \in Runs : Hold(r) \/ Record(r, Plans(held[r].deferrals))

Spec == Init /\ [][Next]_vars

-----------------------------------------------------------------------------
TypeOK ==
  /\ deferrals \in [Ids -> Nat] /\ waited \in [Ids -> Nat]
  /\ queued \in [Work -> Nat] /\ blocked \in [Work -> Nat]
  /\ revision \in Nat /\ lastDecision \in Nat /\ lastDecision < revision
  /\ held \in [Runs -> [rev : Nat, deferrals : [Ids -> Nat]]]
  /\ \A r \in Runs : held[r].rev <= revision

Part(f, ids) == [i \in ids |-> f[i]]

Top == INSTANCE Deferral WITH
  Candidates <- TopIds, count <- Part(deferrals, TopIds), waited <- Part(waited, TopIds)
Open == INSTANCE Deferral WITH
  Candidates <- OpenIds, count <- Part(deferrals, OpenIds), waited <- Part(waited, OpenIds)
Leader == INSTANCE Deferral WITH
  Candidates <- LeaderIds, count <- Part(deferrals, LeaderIds), waited <- Part(waited, LeaderIds)

(* One table serves three nested comparisons, and late runs write to it;   *)
(* yet each of the comparisons keeps the promise of Deferral on its own    *)
(* (patches.py:5439, decision_policy.py:192).                              *)
StrataFair ==
  /\ Top!Init /\ [][Top!Next]_(Top!vars)
  /\ Open!Init /\ [][Open!Next]_(Open!vars)
  /\ Leader!Init /\ [][Leader!Next]_(Leader!vars)

(* Work that only the ownership of the primary keeps out of the waves      *)
(* leads one before long, as long as no mandatory action leads instead: it *)
(* is overdue after Limit waves and then waits its turn among the leaders  *)
(* (scheduler.py:4957).  With a limit of 1, which the code does not use,   *)
(* the scheduled action may lead once more than this.                      *)
ServedInTurn ==
  \A w \in Work : blocked[w] <= 2 * Limit + Cardinality(Work) - 2
=============================================================================
