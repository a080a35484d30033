----------------------------- MODULE Admission -----------------------------
(***************************************************************************)
(* Parallel wave admission: which companion actions run beside the         *)
(* primary action of one scheduler step (parallel_admission.py, policy     *)
(* version 25, and parallel_relaxation.py).  The search is a layered beam  *)
(* with a quotient, a dominance test and optimistic bounds, a greedy lower *)
(* bound, a best-first completion of what the beam cut off, and a max-min  *)
(* distribution of the tokens left.  One step of this module is one layer  *)
(* of the beam, one node of the completion, or one later phase.            *)
(***************************************************************************)
EXTENDS Integers, Sequences, FiniteSets, FiniteSetsExt, SequencesExt

CONSTANTS
  Waves,         \* the admission problems to search
  MinGrant,      \* MIN_STEP_BUDGET
  Limit,         \* PARALLEL_WAVE_DEFERRAL_LIMIT
  BeamWidth,     \* states kept per layer
  ParkLimit,     \* PARALLEL_ADMISSION_COMPLETION_FRONTIER_STATE_LIMIT
  NodeLimit      \* PARALLEL_ADMISSION_ANYTIME_STATE_LIMIT

ASSUME PositiveSizes ==
  /\ {MinGrant, Limit, BeamWidth, NodeLimit} \subseteq Nat \ {0}
  /\ ParkLimit \in Nat

None == "none"
Certification == {"verification", "integration"}
Discovery == {"research", "adversarial"}
Classes == Certification \union Discovery \union {"literature", "advisory"}
Capacities == Certification \union {"search", "literature", "advisory"}

(* What every candidate and the primary action carry. *)
IsRow(r) ==
  /\ r.class \in Classes /\ {r.allowed, r.exact} \subseteq BOOLEAN
  /\ {r.deferrals, r.request} \subseteq Nat /\ {r.rank, r.id} \subseteq Int

VARIABLES
  wave,      \* the problem: primary action, candidates, capacities, tokens
  rows,      \* the candidates worth searching, in admission order
  layer,     \* rows already decided by the beam
  beam,      \* the partial waves kept
  best,      \* the incumbent wave
  cut,       \* what the beam discarded: best bound, least ids, parked states
  queue,     \* open nodes of the best-first completion
  reps,      \* representative of each class of equivalent nodes
  nodes,     \* nodes expanded by the completion
  phase,
  granted    \* tokens granted to each admitted row, and what is left

vars == <<wave, rows, layer, beam, best, cut, queue, reps, nodes, phase, granted>>

-----------------------------------------------------------------------------
(* Lexicographic order on tuples of integers, as Python compares tuples. *)

LexLess(a, b) ==
  \E i \in 1..Len(b) :
    /\ i - 1 <= Len(a)
    /\ \A j \in 1..(i - 1) : a[j] = b[j]
    /\ i > Len(a) \/ a[i] < b[i]

LexAtMost(a, b) == a = b \/ LexLess(a, b)

LexMax(S) == CHOOSE a \in S : \A b \in S : LexAtMost(b, a)
LexMin(S) == CHOOSE a \in S : \A b \in S : LexAtMost(a, b)
Plus(a, b) == [i \in DOMAIN a |-> a[i] + b[i]]

-----------------------------------------------------------------------------
(* Candidate rows. *)

Exclusive(r) == r.mode # "ordinary"

Protected(r) == r.class \in Certification \/ r.mode = "delivery"

(* Identifiers are unique (parallel_admission.py:4565).  A request is cut   *)
(* to what its action may spend: unprotected work leaves the reserve alone  *)
(* (budget.py:84).                                                          *)
ASSUME WavesAssumption ==
  \A w \in Waves :
    /\ IsRow(w.primary) /\ \A r \in w.candidates : IsRow(r)
    /\ IsFiniteSet(w.candidates)
    /\ \A r, q \in w.candidates : r.id = q.id => r = q
    /\ w.caps \in [Capacities -> Nat] /\ w.enforced \in BOOLEAN
    /\ {w.total, w.remaining, w.reserve} \subseteq Nat
    /\ w.enforced /\ w.primary.request > 0 =>
         w.primary.request + (IF Protected(w.primary) THEN 0 ELSE w.reserve) <= w.remaining

CapacityClass(r) == IF r.class \in Discovery THEN "search" ELSE r.class

Priority(r) ==
  CASE r.class = "integration" -> 30
    [] r.class = "verification" -> 25
    [] r.class = "literature" -> IF r.exact THEN 21 ELSE 20
    [] r.class = "advisory" -> 15
    [] r.class = "adversarial" -> 10
    [] r.class = "research" -> 5

Due(r) == r.deferrals >= Limit

Weight(r) == IF Due(r) THEN r.deferrals + 1 ELSE 0

OrderKey(r) ==
  <<IF Due(r) THEN -1 ELSE 0, IF Due(r) THEN -r.deferrals ELSE 0,
    -Priority(r), r.rank, r.id>>

SameRoute(a, b) == a.route # None /\ a.route = b.route
SameTarget(a, b) == a.target # None /\ a.target = b.target

Identity(r) == <<r.class, r.mode, r.target, r.route, r.rank>>

(* Mutant: certification of two kinds counts as a lasting overlap. *)
StructuralCertification(a, b) ==
  Exclusive(a) \/ Exclusive(b) \/ {a.class, b.class} = Certification

(* Overlaps that no later wave resolves. *)
Structural(a, b) == Exclusive(a) \/ Exclusive(b) \/ Identity(a) = Identity(b)

(* Overlaps in what two actions may write: they can only run one by one. *)
Ownership(a, b) ==
  \/ /\ SameRoute(a, b)
     /\ \/ {a.class, b.class} \intersect Certification # {}
        \/ a.class = b.class /\ a.class \in Discovery
  \/ {a.class, b.class} = Certification
  \/ /\ SameTarget(a, b)
     /\ \/ {a.class, b.class} \subseteq Certification
        \/ a.class \in Certification /\ b.class \in Discovery
        \/ a.class \in Discovery /\ b.class \in Certification

Conflict(a, b) == Structural(a, b) \/ Ownership(a, b)

(* The rows after i that row i excludes, as the bitset index builds them. *)
Blocks(i) ==
  LET r == rows[i]
  IN  {j \in (i + 1)..Len(rows) :
         LET s == rows[j]
         IN  \/ Exclusive(r) \/ Exclusive(s)
             \/ Identity(r) = Identity(s)
             \/ /\ SameRoute(r, s)
                /\ \/ s.class \in Certification
                   \/ r.class \in Certification
                   \/ r.class \in Discovery /\ s.class = r.class
             \/ r.class = "verification" /\ s.class = "integration"
             \/ r.class = "integration" /\ s.class = "verification"
             \/ /\ SameTarget(r, s)
                /\ \/ /\ r.class \in Certification
                      /\ s.class \in Certification \union Discovery
                   \/ r.class \in Discovery /\ s.class \in Certification}

-----------------------------------------------------------------------------
(* The problem once the primary action is placed. *)

MaxCompanions == IF wave.total > 0 THEN wave.total - 1 ELSE 0

StartCounts ==
  [c \in Capacities |-> IF c = CapacityClass(wave.primary) THEN 1 ELSE 0]

NonNegative(n) == IF n > 0 THEN n ELSE 0
Least(a, b) == IF a < b THEN a ELSE b

(* Mutant: the primary action is charged to the reserve alone. *)
PoolsWithoutRequest ==
  LET reserved == Least(wave.remaining, wave.reserve)
      prot == IF Protected(wave.primary)
              THEN reserved - Least(wave.primary.request, reserved) ELSE reserved
  IN  IF wave.enforced THEN [prot |-> prot, free |-> wave.remaining - reserved]
                       ELSE [prot |-> 0, free |-> 0]

(* Both token pools after the primary took its request. *)
StartPools ==
  LET request == wave.primary.request
      reserved == Least(wave.remaining, wave.reserve)
      left == NonNegative(wave.remaining - request)
      unspent == IF Protected(wave.primary)
                 THEN reserved - Least(request, reserved) ELSE reserved
      prot == Least(unspent, left)
  IN  IF wave.enforced THEN [prot |-> prot, free |-> left - prot]
                       ELSE [prot |-> 0, free |-> 0]

Start ==
  [sel |-> <<>>, ids |-> <<>>, blocks |-> {}, counts |-> StartCounts,
   prot |-> StartPools.prot, free |-> StartPools.free, fair |-> 0, prio |-> 0]

Score(s) == <<s.fair, s.prio, Len(s.sel), s.prot + s.free>>

Available(r, pools) == IF Protected(r) THEN pools.prot + pools.free ELSE pools.free

(* Rows that could be admitted into the wave that holds only the primary. *)
Searchable(r) ==
  /\ MaxCompanions > 0
  /\ r.allowed
  /\ ~Conflict(r, wave.primary)
  /\ StartCounts[CapacityClass(r)] < wave.caps[CapacityClass(r)]
  /\ \/ ~wave.enforced
     \/ r.request = 0
     \/ r.request >= MinGrant /\ Available(r, StartPools) >= MinGrant

Sorted(S, Before(_, _)) ==
  [k \in 1..Cardinality(S) |->
     CHOOSE a \in S : Cardinality({b \in S : Before(b, a)}) = k - 1]

Ordered(S) == Sorted(S, LAMBDA a, b : LexLess(OrderKey(a), OrderKey(b)))

Better(s, t) ==
  LexLess(Score(t), Score(s)) \/ (Score(s) = Score(t) /\ LexLess(s.ids, t.ids))

Admits(s, p) ==
  LET r == rows[p]
  IN  /\ \A q \in Range(s.sel) : ~Conflict(r, rows[q])
      /\ Len(s.sel) < MaxCompanions
      /\ s.counts[CapacityClass(r)] < wave.caps[CapacityClass(r)]
      /\ wave.enforced /\ r.request > 0 =>
           r.request >= MinGrant /\ Available(r, s) >= MinGrant

(* The smallest useful grant: the rest of the tokens is shared at the end. *)
Charge(r) == IF wave.enforced /\ r.request > 0 THEN MinGrant ELSE 0

Include(s, p) ==
  LET r == rows[p]
      reserved == IF Protected(r) THEN Least(Charge(r), s.prot) ELSE 0
  IN  [sel |-> Append(s.sel, p),
       ids |-> Append(s.ids, r.id),
       blocks |-> s.blocks \union Blocks(p),
       counts |-> [s.counts EXCEPT ![CapacityClass(r)] = @ + 1],
       prot |-> s.prot - reserved,
       free |-> s.free - (Charge(r) - reserved),
       fair |-> s.fair + Weight(r),
       prio |-> s.prio + Priority(r)]

-----------------------------------------------------------------------------
(* Equivalence and dominance of partial waves before row n. *)

Blocked(s, n) == {j \in s.blocks : j >= n}

FutureKey(s, n) == <<Score(s), s.counts, s.prot, s.free, Blocked(s, n)>>

Quotient(S, n) ==
  {s \in S : ~\E t \in S : /\ FutureKey(s, n) = FutureKey(t, n)
                           /\ LexLess(t.ids, s.ids)}

(* Mutant: what a partial wave excludes is not compared. *)
DominatesByResources(a, b, n) ==
  /\ LexAtMost(Score(b), Score(a))
  /\ Len(a.sel) <= Len(b.sel)
  /\ \A c \in Capacities : a.counts[c] <= b.counts[c]
  /\ a.prot >= b.prot /\ a.free >= b.free
  /\ Score(a) = Score(b) => LexAtMost(a.ids, b.ids)

Dominates(a, b, n) ==
  /\ LexAtMost(Score(b), Score(a))
  /\ Len(a.sel) <= Len(b.sel)
  /\ \A c \in Capacities : a.counts[c] <= b.counts[c]
  /\ a.prot >= b.prot /\ a.free >= b.free
  /\ Blocked(a, n) \subseteq Blocked(b, n)
  /\ Score(a) = Score(b) => LexAtMost(a.ids, b.ids)

Nondominated(S, n) == {s \in S : ~\E t \in S \ {s} : Dominates(t, s, n)}

-----------------------------------------------------------------------------
(* Optimistic bounds on what the rows from n on can still add. *)

Slots(s) == MaxCompanions - Len(s.sel)

Room(s, c, forbidden) ==
  IF c = forbidden THEN 0 ELSE NonNegative(wave.caps[c] - s.counts[c])

(* Mutant: only verification is ever expected from the suffix. *)
ForbiddenIntegration(s) ==
  IF s.counts["integration"] > 0 THEN {"verification"} ELSE {"integration"}

(* A wave never holds both certification classes: one of them is forbidden. *)
Forbidden(s) ==
  IF s.counts["verification"] > 0 THEN {"integration"}
  ELSE IF s.counts["integration"] > 0 THEN {"verification"}
  ELSE Certification

(* Searchable rows all count: what makes a row ineligible for the bound    *)
(* already kept it out of the search.                                      *)
Eligible(n) == n..Len(rows)

Gain(Q) == <<SumFunction([p \in Q |-> Weight(rows[p])]),
             SumFunction([p \in Q |-> Priority(rows[p])]), Cardinality(Q)>>

(* Class capacities and the two token pools, conflicts relaxed. *)
ResourceBound(s, n) ==
  LET Paying(Q) == {p \in Q : Charge(rows[p]) > 0}
      Shared(Q) == {p \in Paying(Q) : ~Protected(rows[p])}
      Fits(Q, forbidden) ==
        /\ Cardinality(Q) <= Slots(s)
        /\ \A c \in Capacities :
             Cardinality({p \in Q : CapacityClass(rows[p]) = c})
               <= Room(s, c, forbidden)
        /\ Cardinality(Paying(Q)) <= (s.prot + s.free) \div MinGrant
        /\ Cardinality(Shared(Q)) <= s.free \div MinGrant
  IN  Plus(Score(s),
           LexMax({Append(Gain(Q), -(MinGrant * Cardinality(Paying(Q)))) :
                     Q \in {R \in SUBSET Eligible(n) :
                              \E f \in Forbidden(s) : Fits(R, f)}}))

(* Groups of rows of which an admitted wave holds at most one; a row that   *)
(* shares none is a group of its own (its position in the code).            *)
RouteGroup(r) ==
  IF r.route = None THEN <<None, r.id>>
  ELSE IF r.class \in Certification THEN <<"certification", r.route>>
  ELSE IF r.class \in Discovery THEN <<r.class, r.route>>
  ELSE <<None, r.id>>

MixedGroup(r, discovery) ==
  IF r.route # None /\ r.class \in Certification \union {discovery}
  THEN <<"mixed", r.route>> ELSE RouteGroup(r)

TargetGroup(r) ==
  IF r.target # None /\ r.class \in Certification
  THEN <<"target", r.target>> ELSE <<None, r.id>>

(* Row p is worth more than row q; among equals the later one is taken. *)
Above(p, q) ==
  LET a == <<Weight(rows[p]), Priority(rows[p])>>
      b == <<Weight(rows[q]), Priority(rows[q])>>
  IN  LexLess(b, a) \/ (a = b /\ p > q)

(* The four groupings of the rows the bounds are computed for.              *)
Routes == [p \in DOMAIN rows |-> RouteGroup(rows[p])]
Mixed(discovery) == [p \in DOMAIN rows |-> MixedGroup(rows[p], discovery)]
Targets == [p \in DOMAIN rows |-> TargetGroup(rows[p])]
Groupings == {Routes, Targets} \union {Mixed(d) : d \in Discovery}

Suffix(n, c) == {p \in Eligible(n) : CapacityClass(rows[p]) = c}

Leaders(n, c, group) ==
  {p \in Suffix(n, c) : ~\E q \in Suffix(n, c) : group[q] = group[p] /\ Above(q, p)}

(* The best row of each group in the suffix, the 2 * MaxCompanions best    *)
(* groups only, and of those the ones the partial wave does not occupy.    *)
Representatives(s, n, c, group) ==
  {p \in Leaders(n, c, group) :
     /\ Cardinality({q \in Leaders(n, c, group) : Above(q, p)}) < 2 * MaxCompanions
     /\ \A q \in Range(s.sel) : group[q] # group[p]}

Strongest(Q, k) == {p \in Q : Cardinality({q \in Q : Above(q, p)}) < k}

(* The rows the class capacities leave room for, class by class. *)
Pool(s, n, group, forbidden) ==
  UNION {Strongest(Representatives(s, n, c, group),
                   Least(Room(s, c, forbidden), Slots(s))) : c \in Capacities}

CliqueBound(s, n, group) ==
  Plus(Score(s),
       Append(LexMax({Gain(Strongest(Pool(s, n, group, f), Slots(s))) :
                        f \in Forbidden(s)}), 0))

Optimistic(s, n) ==
  LexMin({ResourceBound(s, n)} \union {CliqueBound(s, n, g) : g \in Groupings})

(* The least identifier tuple a completion that meets the bound can have.  *)
LeastIds(s, n, bound) ==
  LET missing == bound[3] - Len(s.sel)
      tails == {[k \in 1..missing |-> rows[q[k]].id] :
                  q \in {Sorted(Q, <) : Q \in kSubset(missing, n..Len(rows))}}
  IN  IF missing < 0 \/ tails = {} THEN <<>> ELSE s.ids \o LexMin(tails)

(* A partial wave with what its completions from row n on can reach. *)
Rated(s, n) ==
  LET bound == Optimistic(s, n)
  IN  [state |-> s, at |-> n, bound |-> bound, least |-> LeastIds(s, n, bound)]

(* A partial wave is worth keeping if it may still beat the incumbent. *)
Promising(e, incumbent) ==
  \/ LexLess(Score(incumbent), e.bound)
  \/ e.bound = Score(incumbent) /\ LexLess(e.least, incumbent.ids)

-----------------------------------------------------------------------------
NoCut == [bound |-> <<>>, ids |-> <<>>, parked |-> {}, overflow |-> FALSE]

Init ==
  /\ wave \in Waves
  /\ rows = Ordered({r \in wave.candidates : Searchable(r)})
  /\ layer = 0
  /\ beam = {Start}
  /\ best = Start
  /\ cut = NoCut
  /\ queue = {} /\ reps = {} /\ nodes = 0
  /\ phase = "beam"
  /\ granted = [tokens |-> <<>>, prot |-> 0, free |-> 0]

(* Order in which a layer keeps states: bound, least ids, own ids. *)
Ahead(e, f) ==
  \/ LexLess(f.bound, e.bound)
  \/ /\ f.bound = e.bound
     /\ \/ LexLess(e.least, f.least)
        \/ e.least = f.least /\ LexLess(e.state.ids, f.state.ids)

(* Remember the best bound the beam gave up, and the states themselves     *)
(* until there are too many of them.                                       *)
CutOff(dropped) ==
  LET bound == LexMax({e.bound : e \in dropped})
      ids == LexMin({e.least : e \in {f \in dropped : f.bound = bound}})
      parked == cut.parked \union dropped
      overflow == cut.overflow \/ Cardinality(parked) > ParkLimit
      fresh == cut.bound = <<>> \/ LexLess(cut.bound, bound)
  IN  [bound |-> IF fresh THEN bound ELSE cut.bound,
       ids |-> IF fresh THEN ids
               ELSE IF bound = cut.bound THEN LexMin({ids, cut.ids}) ELSE cut.ids,
       parked |-> IF overflow THEN {} ELSE parked,
       overflow |-> overflow]

(* One layer of the beam: decide row layer + 1 in every partial wave. *)
Layer ==
  /\ phase = "beam"
  /\ layer < Len(rows) /\ beam # {}
  /\ LET n == layer + 2
         grown == beam \union
                    {Include(s, layer + 1) : s \in {t \in beam : Admits(t, layer + 1)}}
         kept == Nondominated(Quotient(grown, n), n)
         leader == CHOOSE s \in kept : \A t \in kept \ {s} : Better(s, t)
         incumbent == IF Better(leader, best) THEN leader ELSE best
         rated == {Rated(s, n) : s \in kept}
         viable == {e \in rated : Promising(e, incumbent)}
         first == {e \in viable :
                     Cardinality({f \in viable : Ahead(f, e)}) < BeamWidth}
     IN  /\ best' = incumbent
         /\ IF layer + 1 = Len(rows)
            THEN beam' = {} /\ cut' = cut
            ELSE /\ beam' = {e.state : e \in first}
                 /\ cut' = IF viable = first THEN cut ELSE CutOff(viable \ first)
  /\ layer' = layer + 1
  /\ UNCHANGED <<wave, rows, queue, reps, nodes, phase, granted>>

-----------------------------------------------------------------------------
(* The greedy policy of version 8: first fit in admission order, full      *)
(* requests.                                                               *)

Everything == Ordered(wave.candidates)

(* Mutant: the greedy policy overlooks conflicts between companions. *)
FitsAlone(g, r) ==
  /\ r.allowed
  /\ ~Conflict(r, wave.primary)
  /\ Cardinality(g.sel) < MaxCompanions
  /\ g.counts[CapacityClass(r)] < wave.caps[CapacityClass(r)]

Fits(g, r) ==
  /\ r.allowed
  /\ ~Conflict(r, wave.primary)
  /\ \A q \in g.sel : ~Conflict(r, q)
  /\ Cardinality(g.sel) < MaxCompanions
  /\ g.counts[CapacityClass(r)] < wave.caps[CapacityClass(r)]

Take(g, r) ==
  [g EXCEPT !.sel = @ \union {r}, !.counts[CapacityClass(r)] = @ + 1]

(* The candidates after r that would follow it, tokens left aside. *)
Followers(g, r, later) ==
  LET after[j \in 0..Len(later)] ==
        IF j = 0 THEN Take(g, r)
        ELSE IF Fits(after[j - 1], later[j]) THEN Take(after[j - 1], later[j])
        ELSE after[j - 1]
  IN  after

(* What later unprotected candidates will ask of the shared pool if r is   *)
(* admitted: a protected action leaves that much alone.                    *)
Demand(g, r, later) ==
  LET followers == Followers(g, r, later)[Len(later)].sel \ (g.sel \union {r})
  IN  SumFunction([q \in followers |-> IF Protected(q) THEN 0 ELSE q.request])

Offer(g, r, later) ==
  IF Protected(r)
  THEN NonNegative(g.total - Least(g.free, Demand(g, r, later)))
  ELSE g.free

GreedyStep(g, k) ==
  LET r == Everything[k]
      later == SubSeq(Everything, k + 1, Len(Everything))
      offer == Offer(g, r, later)
      pays == wave.enforced /\ r.request > 0
      grant == IF pays THEN Least(r.request, offer) ELSE 0
      reserved == IF Protected(r) THEN Least(grant, g.prot) ELSE 0
  IN  IF ~Fits(g, r) \/ (pays /\ grant < MinGrant) THEN g
      ELSE [Take(g, r) EXCEPT !.total = NonNegative(@ - grant),
                              !.prot = @ - reserved,
                              !.free = NonNegative(@ - (grant - reserved))]

(* The greedy walk starts from the same primary action; its shared pool is *)
(* what the primary's request leaves of the unreserved tokens.             *)
GreedyStart ==
  LET request == wave.primary.request
      reserved == Least(wave.remaining, wave.reserve)
      spent == IF Protected(wave.primary) THEN Least(request, reserved) ELSE 0
  IN  [sel |-> {}, counts |-> StartCounts,
       total |-> IF wave.enforced THEN NonNegative(wave.remaining - request) ELSE 0,
       prot |-> IF wave.enforced THEN reserved - spent ELSE 0,
       free |-> IF wave.enforced
                THEN NonNegative(wave.remaining - reserved - (request - spent)) ELSE 0]

(* The walk after each of its candidates. *)
Walk ==
  LET walk[k \in 0..Len(Everything)] ==
        IF k = 0 THEN GreedyStart ELSE GreedyStep(walk[k - 1], k)
  IN  walk

Greedy == Walk[Len(Everything)].sel

GreedyPositions == Sorted({p \in DOMAIN rows : rows[p] \in Greedy}, <)

(* The same wave, built up by the search. *)
Rebuilt ==
  LET built[k \in 0..Len(GreedyPositions)] ==
        IF k = 0 THEN Start ELSE Include(built[k - 1], GreedyPositions[k])
  IN  built

GreedyState == Rebuilt[Len(GreedyPositions)]

GreedyAdmissible ==
  \A k \in DOMAIN GreedyPositions : Admits(Rebuilt[k - 1], GreedyPositions[k])

-----------------------------------------------------------------------------
(* Best-first completion of the search the beam truncated. *)

NodeKey(e) == <<e.at, FutureKey(e.state, e.at)>>

(* The entries of E that enter the queue: those that may still win and are *)
(* not equivalent to an earlier one with lesser identifiers.               *)
Entering(E, incumbent) ==
  LET open == {e \in E : Promising(e, incumbent)}
  IN  {e \in open :
         /\ ~\E r \in reps : r.key = NodeKey(e) /\ LexAtMost(r.ids, e.state.ids)
         /\ ~\E f \in open : /\ NodeKey(f) = NodeKey(e)
                            /\ LexLess(f.state.ids, e.state.ids)}

Represent(E) ==
  {r \in reps : ~\E e \in E : NodeKey(e) = r.key}
    \union {[key |-> NodeKey(e), ids |-> e.state.ids] : e \in E}

Stale(e) == ~\E r \in reps : r.key = NodeKey(e) /\ r.ids = e.state.ids

(* What the beam cut off may still beat the incumbent. *)
Unsettled(incumbent) ==
  /\ cut.bound # <<>>
  /\ \/ LexLess(Score(incumbent), cut.bound)
     \/ cut.bound = Score(incumbent) /\ LexLess(cut.ids, incumbent.ids)

(* The wave chosen by the beam is never worse than the greedy one; if the  *)
(* beam cut off something that may be better, search on from there.        *)
CompareGreedy ==
  /\ phase = "beam"
  /\ layer = Len(rows) \/ beam = {}
  /\ best' = IF GreedyAdmissible /\ Better(GreedyState, best)
             THEN GreedyState ELSE best
  /\ IF ~GreedyAdmissible
     THEN phase' = "refused" /\ UNCHANGED <<queue, reps>>
     ELSE IF Unsettled(best')
     THEN LET entries == Entering(IF cut.overflow THEN {Rated(Start, 1)}
                                  ELSE cut.parked, best')
          IN  phase' = "complete" /\ queue' = entries /\ reps' = Represent(entries)
     ELSE phase' = "allocate" /\ UNCHANGED <<queue, reps>>
  /\ UNCHANGED <<wave, rows, layer, beam, cut, nodes, granted>>

Sooner(e, f) ==
  \/ LexLess(f.bound, e.bound)
  \/ /\ e.bound = f.bound
     /\ LexLess(e.least, f.least) \/ (e.least = f.least /\ e.at < f.at)

(* Mutant: one node more than the limit. *)
MayExpandBeyond == queue # {} /\ nodes <= NodeLimit

MayExpand == queue # {} /\ nodes < NodeLimit

(* Expand the most promising open node. *)
Expand ==
  /\ phase = "complete"
  /\ MayExpand
  /\ \E e \in queue :
       /\ ~\E f \in queue : Sooner(f, e)
       /\ LET live == ~Stale(e) /\ Promising(e, best)
              inner == live /\ e.at <= Len(rows)
              children == IF ~inner THEN {}
                          ELSE {e.state} \union
                               (IF Admits(e.state, e.at)
                                THEN {Include(e.state, e.at)} ELSE {})
              winners == {s \in children \union (IF live THEN {e.state} ELSE {}) :
                            Better(s, best)}
              incumbent == IF winners = {} THEN best
                           ELSE CHOOSE s \in winners :
                                  \A t \in winners \ {s} : Better(s, t)
              entries == Entering({Rated(s, e.at + 1) : s \in children},
                                  incumbent)
          IN  /\ best' = incumbent
              /\ queue' = (queue \ {e}) \union entries
              /\ reps' = Represent(entries)
  /\ nodes' = nodes + 1
  /\ UNCHANGED <<wave, rows, layer, beam, cut, phase, granted>>

(* Mutant: what the beam cut off is still counted when all is explored. *)
EndCompletionAsCut ==
  /\ phase = "complete"
  /\ ~MayExpand
  /\ phase' = "allocate"
  /\ UNCHANGED <<wave, rows, layer, beam, best, cut, queue, reps, nodes, granted>>

(* What is still open bounds the optimum; nothing open proves it reached. *)
EndCompletion ==
  /\ phase = "complete"
  /\ ~MayExpand
  /\ LET open == {e \in queue : ~Stale(e) /\ Promising(e, best)}
         bound == LexMax({e.bound : e \in open})
     IN  cut' = IF open = {} THEN NoCut
                ELSE [NoCut EXCEPT
                        !.bound = bound,
                        !.ids = LexMin({e.least : e \in {f \in open : f.bound = bound}})]
  /\ phase' = "allocate"
  /\ UNCHANGED <<wave, rows, layer, beam, best, queue, reps, nodes, granted>>

-----------------------------------------------------------------------------
(* Distribution of the remaining tokens. *)

Chosen == Range(best.sel)

(* Mutant: the tokens go to the first actions in admission order. *)
TopUpInOrder(grants, eligible, available) ==
  LET want(p) == rows[p].request - grants[p]
      before(p) == SumFunction([q \in {e \in eligible : e < p} |-> want(q)])
      given(p) == IF p \in eligible
                  THEN Least(want(p), NonNegative(available - before(p))) ELSE 0
  IN  [grants |-> [p \in DOMAIN grants |-> grants[p] + given(p)],
       left |-> NonNegative(available - SumFunction([p \in eligible |-> want(p)]))]

(* Max-min allocation: raise the lowest grants together, no grant above    *)
(* its request; the indivisible rest goes to the first of the lowest.      *)
TopUp(grants, eligible, available) ==
  LET filled(level, p) ==
        IF p \in eligible /\ grants[p] < level
        THEN Least(rows[p].request, level) ELSE grants[p]
      cost(level) == SumFunction([p \in eligible |-> filled(level, p) - grants[p]])
      top == Max({rows[p].request : p \in eligible} \union {0})
      level == Max({l \in 0..top : cost(l) <= available})
      lowest == {p \in eligible : filled(level, p) = level /\ rows[p].request > level}
      rest == available - cost(level)
      raised == {p \in lowest : Cardinality({q \in lowest : q < p}) < rest}
  IN  [grants |-> [p \in DOMAIN grants |->
                     filled(level, p) + (IF p \in raised THEN 1 ELSE 0)],
       left |-> rest - Cardinality(raised)]

(* The reserved pool helps protected actions only, so it goes first; the   *)
(* shared pool then goes to all admitted actions.                          *)
Distribution ==
  LET minimum == [p \in Chosen |-> IF wave.enforced THEN Charge(rows[p])
                                   ELSE rows[p].request]
      first == TopUp(minimum, {p \in Chosen : Protected(rows[p])}, best.prot)
      second == TopUp(first.grants, Chosen, best.free)
  IN  IF wave.enforced
      THEN [tokens |-> second.grants, prot |-> first.left, free |-> second.left]
      ELSE [tokens |-> minimum, prot |-> 0, free |-> 0]

Allocate ==
  /\ phase = "allocate"
  /\ granted' = Distribution
  /\ phase' = "done"
  /\ UNCHANGED <<wave, rows, layer, beam, best, cut, queue, reps, nodes>>

(* Any other state in which no step is possible is a deadlock. *)
Finished == phase \in {"done", "refused"} /\ UNCHANGED vars

Next == Layer \/ CompareGreedy \/ Expand \/ EndCompletion \/ Allocate \/ Finished

Spec == Init /\ [][Next]_vars

-----------------------------------------------------------------------------
(* Why a candidate was not admitted (the outcome codes of the wave). *)

Admitted == {rows[p] : p \in Chosen}

FinalCount(c) ==
  StartCounts[c] + Cardinality({r \in Admitted : CapacityClass(r) = c})

Outcome(r) ==
  CASE r \in Admitted -> "selected"
    [] r \notin Admitted /\ Structural(r, wave.primary) -> "primary_or_structural_conflict"
    [] r \notin Admitted /\ ~Structural(r, wave.primary) /\ Ownership(r, wave.primary) ->
         "primary_serialization_queue"
    [] OTHER ->
         IF ~r.allowed THEN "budget_unauthorized"
         ELSE IF \E q \in Admitted : Conflict(r, q) THEN "sibling_conflict_queue"
         ELSE IF Cardinality(Admitted) >= MaxCompanions THEN "total_capacity_queue"
         ELSE IF FinalCount(CapacityClass(r)) >= wave.caps[CapacityClass(r)]
         THEN "class_capacity_queue"
         ELSE IF ~wave.enforced \/ r.request = 0 THEN "bounded_search_queue"
         ELSE IF Available(r, granted) <= 0 THEN "aggregate_allocation_queue"
         ELSE IF r.request < MinGrant \/ Available(r, granted) < MinGrant
         THEN "minimum_useful_allocation_queue"
         ELSE "bounded_search_queue"

(* The outcomes after which a candidate is owed service in a later wave. *)
Queued ==
  {"primary_serialization_queue", "sibling_conflict_queue",
   "total_capacity_queue", "class_capacity_queue",
   "aggregate_allocation_queue", "minimum_useful_allocation_queue",
   "bounded_search_queue"}

-----------------------------------------------------------------------------
(* Reference definition: the waves that may run, and the best of them. *)

Feasible(Q) ==
  LET paying == {r \in Q : wave.enforced /\ r.request > 0}
      owed == MinGrant * Cardinality({r \in paying : Protected(r)})
  IN  /\ Cardinality(Q) < wave.total \/ Q = {}
      /\ \A r \in Q : r.allowed /\ ~Conflict(r, wave.primary)
      /\ \A r \in Q : \A q \in Q \ {r} : ~Conflict(r, q)
      /\ \A r \in Q : Cardinality({q \in Q \union {wave.primary} :
                        CapacityClass(q) = CapacityClass(r)})
                          <= wave.caps[CapacityClass(r)]
      /\ \A r \in paying : r.request >= MinGrant
      /\ MinGrant * Cardinality({r \in paying : ~Protected(r)})
           + NonNegative(owed - StartPools.prot) <= StartPools.free \/ paying = {}

Worth(Q) ==
  <<SumFunction([r \in Q |-> Weight(r)]), SumFunction([r \in Q |-> Priority(r)]),
    Cardinality(Q),
    StartPools.prot + StartPools.free
      - MinGrant * Cardinality({r \in Q : wave.enforced /\ r.request > 0})>>

Names(Q) == LET q == Ordered(Q) IN [k \in DOMAIN q |-> q[k].id]

(* Q beats R: higher objective, or the same and lesser identifiers. *)
Beats(Q, R) ==
  \/ LexLess(Worth(R), Worth(Q))
  \/ Worth(Q) = Worth(R) /\ LexLess(Names(Q), Names(R))

Candidates == {Q \in SUBSET wave.candidates : Feasible(Q)}

-----------------------------------------------------------------------------
TypeOK ==
  /\ rows \in Seq(wave.candidates)
  /\ layer \in 0..Len(rows)
  /\ phase \in {"beam", "complete", "allocate", "done", "refused"}
  /\ \A s \in beam \union {best} : Range(s.sel) \subseteq DOMAIN rows
  /\ nodes \in 0..NodeLimit

(* The certificate the search attaches to its result. *)
Certified == cut.bound = <<>> \/ LexAtMost(cut.bound, Score(best))
CertifiedIds ==
  Certified /\ ~(cut.bound = Score(best) /\ LexLess(cut.ids, best.ids))

(* The admitted wave may run, no wave that may run has a higher objective  *)
(* once the certificate says so, and among equals it is the one with the   *)
(* least identifiers: quotient, dominance, bounds and truncation lose      *)
(* nothing the certificate does not admit (parallel_admission.py:2142).    *)
CertifiedOptimum ==
  phase = "done" =>
    /\ Feasible(Admitted)
    /\ Certified => \A Q \in Candidates : LexAtMost(Worth(Q), Worth(Admitted))
    /\ CertifiedIds => \A Q \in Candidates : ~Beats(Q, Admitted)

(* A search that was not stopped by its node limit proves its result.      *)
CompletionSettles == phase = "done" /\ nodes < NodeLimit => CertifiedIds

(* An optimistic bound is never below what a partial wave can become       *)
(* (parallel_admission.py:1693, parallel_relaxation.py:24).                *)
BoundAdmissible ==
  phase = "beam" /\ layer < Len(rows) =>
    \A s \in beam : \A Q \in SUBSET {rows[p] : p \in (layer + 1)..Len(rows)} :
      LET done == Q \union {rows[p] : p \in Range(s.sel)}
      IN  Feasible(done) => LexAtMost(Worth(done), Optimistic(s, layer + 1))

(* The search never does worse than the greedy policy it replaced, and the *)
(* greedy wave always fits it (parallel_admission.py:2324 raises if not).  *)
GreedyLowerBound ==
  /\ phase # "refused"
  /\ phase = "done" => LexAtMost(Score(GreedyState), Score(best))

(* An admitted wave is never refused for its tokens when it is dispatched  *)
(* (patches.py:5977): the grants and the primary's request stay within the *)
(* remaining allocation, and unprotected work within its unreserved part.  *)
WaveWithinBudget ==
  LET everyone == SumFunctionOnSet(granted.tokens, Chosen)
      open == SumFunctionOnSet(granted.tokens, {p \in Chosen : ~Protected(rows[p])})
      own == IF Protected(wave.primary) THEN 0 ELSE wave.primary.request
  IN  phase = "done" /\ wave.enforced =>
        /\ everyone + wave.primary.request + granted.prot + granted.free
             = wave.remaining
        /\ open + own <= NonNegative(wave.remaining - wave.reserve)
        /\ \A p \in Chosen :
             /\ granted.tokens[p] <= rows[p].request
             /\ rows[p].request > 0 => granted.tokens[p] >= MinGrant

(* Tokens go where they are fewest (parallel_admission.py:958): while an   *)
(* action wants more, nothing it could use is left over, and those that    *)
(* are more than one token ahead of it were raised from the reserve alone, *)
(* which it may not use.                                                   *)
MaxMinFair ==
  phase = "done" /\ wave.enforced =>
    \A p \in {q \in Chosen : granted.tokens[q] < rows[q].request} :
      LET ahead == {q \in Chosen : granted.tokens[q] > granted.tokens[p] + 1}
      IN  /\ granted.free = 0
          /\ Protected(rows[p]) => granted.prot = 0 /\ ahead = {}
          /\ \A q \in ahead : Protected(rows[q])
          /\ SumFunction([q \in ahead |-> granted.tokens[q] - Charge(rows[q])]) <= best.prot

(* A candidate that could run in some wave is either admitted or owed      *)
(* service later: it never drops out of the count of its waits.            *)
NobodyForgotten ==
  phase = "done" =>
    \A r \in wave.candidates :
      /\ r.allowed /\ ~Exclusive(r) /\ ~Exclusive(wave.primary)
      /\ Identity(r) # Identity(wave.primary)
      => Outcome(r) \in Queued \union {"selected"}
=============================================================================
