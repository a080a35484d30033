------------------------- MODULE AdmissionInvariant -------------------------
(***************************************************************************)
(* What the proofs about the search for companions speak of: the partial   *)
(* waves that may run, what they can still become, and the three parts of  *)
(* the inductive invariant.  SearchInv says that whatever is open may run, *)
(* KeptInv that it is exact and rated no worse than its future, CoverInv   *)
(* that every wave that may run is matched, open or below the bound of     *)
(* what was given up.                                                      *)
(***************************************************************************)
EXTENDS Admission

-----------------------------------------------------------------------------
(* Sums, orders and enumerations.                                           *)

\* The element that SumFunctionOnSet takes next.
Some(s) == CHOOSE x \in s : TRUE

\* What SumFunctionOnSet computes on the way to S.
Sums(f, S) ==
  CHOOSE g : g = [s \in SUBSET S |->
                    IF s = {} THEN 0 ELSE f[Some(s)] + g[s \ {Some(s)}]]

(* D[a] is the set of what precedes a in a strict total order on S. *)
Orders(S, D) ==
  /\ D \in [S -> SUBSET S]
  /\ \A a \in S : a \notin D[a]
  /\ \A a, b \in S : a \in D[b] => D[a] \subseteq D[b]
  /\ \A a, b \in S : a = b \/ a \in D[b] \/ b \in D[a]

\* The first m elements of an order.
Few(S, D, m) == {p \in S : Cardinality(D[p]) < m}

(* The number of elements before an element is its position. *)
Ranked(S, D) ==
  /\ Cardinality(S) \in Nat
  /\ \A a \in S : Cardinality(D[a]) \in 0..(Cardinality(S) - 1)
  /\ \A a, b \in S : a \in D[b] => Cardinality(D[a]) < Cardinality(D[b])
  /\ \A k \in 0..(Cardinality(S) - 1) : \E a \in S : Cardinality(D[a]) = k

(* q lists the elements of S in the order D. *)
Enumerates(q, S, D) ==
  /\ q \in Seq(S) /\ Len(q) = Cardinality(S)
  /\ \A a \in S : \E k \in 1..Len(q) : q[k] = a
  /\ \A j, k \in 1..Len(q) : j < k => q[j] \in D[q[k]]

(* The integers of S that are less. *)
Smaller(S) == [a \in S |-> {b \in S : b < a}]

-----------------------------------------------------------------------------
(* The problem, and the partial waves that may run.                         *)

(* q lists the rows of S in admission order, each of them once. *)
Lists(q, S) ==
  /\ q \in Seq(S) /\ Len(q) = Cardinality(S) /\ Cardinality(S) \in Nat
  /\ \A a \in S : \E k \in 1..Len(q) : q[k] = a
  /\ \A j, k \in 1..Len(q) : j < k => LexLess(OrderKey(q[j]), OrderKey(q[k]))
  /\ \A j, k \in 1..Len(q) : q[j] = q[k] => j = k

\* The rows of S that are admitted earlier.
Earlier(S) == [a \in S |-> {b \in S : LexLess(OrderKey(b), OrderKey(a))}]

\* The candidates the search considers.
Searched == {r \in wave.candidates : Searchable(r)}

(* The problem and its rows, as Init sets them and no step changes them. *)
Placed == wave \in Waves /\ Lists(rows, Searched)

(* What the rows, capacities and pools of a placed problem are. *)
ProblemType ==
  /\ IsRow(wave.primary) /\ wave.enforced \in BOOLEAN
  /\ wave.caps \in [Capacities -> Nat]
  /\ wave.remaining \in Nat /\ wave.reserve \in Nat
  /\ MaxCompanions \in Nat
  /\ StartCounts \in [Capacities -> Nat]
  /\ StartPools.prot \in Nat /\ StartPools.free \in Nat
  /\ Len(rows) \in Nat /\ DOMAIN rows = 1..Len(rows) /\ IsFiniteSet(DOMAIN rows)
  /\ \A p \in DOMAIN rows : /\ rows[p] \in wave.candidates
                            /\ IsRow(rows[p]) /\ Searchable(rows[p])
  /\ \A p, q \in DOMAIN rows : rows[p].id = rows[q].id => p = q

(* What each row is charged. *)
Charges == [p \in DOMAIN rows |-> Charge(rows[p])]

\* The rows of a capacity class, and those without a reserve.
InClass(Q, c) == {p \in Q : CapacityClass(rows[p]) = c}
Unprotected(Q) == {p \in Q : ~Protected(rows[p])}

(* A partial wave that may run: its rows are distinct and do not exclude    *)
(* each other, it stays within the capacities and has paid for every row.   *)
Fitting(s) ==
  /\ Len(s.sel) <= MaxCompanions
  /\ \A p, q \in Range(s.sel) : p # q => ~Conflict(rows[p], rows[q])
  /\ \A p \in Range(s.sel) :
       s.counts[CapacityClass(rows[p])] <= wave.caps[CapacityClass(rows[p])]
  /\ \A p \in Range(s.sel) :
       wave.enforced /\ rows[p].request > 0 => rows[p].request >= MinGrant

\* The counts are those of the rows.
Counted(s) ==
  /\ Cardinality(Range(s.sel)) = Len(s.sel)
  /\ s.counts \in [Capacities -> Nat]
  /\ \A c \in Capacities :
       s.counts[c] = StartCounts[c] + Cardinality(InClass(Range(s.sel), c))

\* What the rows are charged has left the pools.
Paid(s) ==
  /\ s.prot \in Nat /\ s.free \in Nat
  /\ s.prot + s.free + SumFunctionOnSet(Charges, Range(s.sel))
       = StartPools.prot + StartPools.free
  /\ s.free + SumFunctionOnSet(Charges, Unprotected(Range(s.sel))) <= StartPools.free

\* The identifiers are those of the rows.
Shaped(s) ==
  /\ s.sel \in Seq(DOMAIN rows)
  /\ s.ids = [k \in 1..Len(s.sel) |-> rows[s.sel[k]].id]
  /\ s.fair \in Nat /\ s.prio \in Nat

Sound(s) == Shaped(s) /\ Counted(s) /\ Paid(s) /\ Fitting(s)

-----------------------------------------------------------------------------
(* Scores, drafts and layers.                                               *)

\* Sequences of k integers.
Tuples(k) == {x \in Seq(Int) : Len(x) = k}

(* f starts at a and takes n steps with F. *)
Unfolds(f, G, a, n, F) ==
  f \in [0..n -> G] /\ f[0] = a /\ \A k \in 1..n : f[k] = F[<<f[k - 1], k>>]

\* The positions of the greedy wave.
GreedyRows == {p \in DOMAIN rows : rows[p] \in Greedy}

\* Records that Include works on, sound or not.
Drafts ==
  [sel : Seq(Int), ids : Seq(Int), blocks : SUBSET Int, counts : [Capacities -> Int],
   prot : Int, free : Int, fair : Int, prio : Int]

\* Different partial waves have different identifiers.
Unlike(S) == \A s, t \in S : s.ids = t.ids => s = t

\* The best of unlike partial waves.
Best(S) == CHOOSE s \in S : \A t \in S \ {s} : Better(s, t)

\* Each partial wave of B, without row p and with it.
Grown(B, p) == B \cup {Include(s, p) : s \in {t \in B : Admits(t, p)}}

-----------------------------------------------------------------------------
(* The invariant of the search.                                             *)

(* An open node: a partial wave of the rows before one, and its bounds. *)
IsEntry(e) ==
  /\ Sound(e.state)
  /\ e.at \in 1..(Len(rows) + 1)
  /\ \A p \in Range(e.state.sel) : p < e.at
  /\ e.bound \in Tuples(4) /\ e.least \in Seq(Int)

(* The partial waves of the rows up to n. *)
IsLayer(B, n) ==
  /\ IsFiniteSet(B) /\ Unlike(B)
  /\ \A s \in B : Sound(s) /\ \A p \in Range(s.sel) : p <= n

(* What the beam gave up: the states themselves and the best they may reach. *)
IsCut(c) ==
  /\ IsFiniteSet(c.parked) /\ \A e \in c.parked : IsEntry(e)
  /\ c.bound = <<>> \/ (c.bound \in Tuples(4) /\ c.ids \in Seq(Int))

\* The phase, the layer and the nodes spent.
Counters ==
  /\ layer \in 0..Len(rows) /\ nodes \in 0..NodeLimit
  /\ phase \in {"beam", "complete", "allocate", "done", "refused"}

(* The incumbent may run, and so may whatever is still open. *)
Open ==
  /\ Sound(best) /\ IsLayer(beam, layer)
  /\ phase = "beam" => IsCut(cut)
  /\ IsFiniteSet(queue) /\ \A e \in queue : IsEntry(e)

(* From the comparison on, the incumbent is no worse than the greedy wave. *)
Compared ==
  phase \in {"complete", "allocate", "done"} =>
    GreedyAdmissible /\ LexAtMost(Score(GreedyState), Score(best))

\* A search that ends below its limit has a certificate.
Settles == phase \in {"allocate", "done"} /\ nodes < NodeLimit => CertifiedIds

SearchInv == Placed /\ Counters /\ Open /\ Compared /\ Settles

-----------------------------------------------------------------------------
(* The distribution of the tokens.                                          *)

(* A row's grant once every eligible row below a level is raised to it.     *)
Filled(g, E, l, p) ==
  IF p \in E /\ g[p] < l THEN Least(rows[p].request, l) ELSE g[p]

\* What the filling costs.
Cost(g, E, l) == SumFunction([p \in E |-> Filled(g, E, l, p) - g[p]])

(* The rows that still want more at a level they all share.                 *)
Lowest(g, E, l) == {p \in E : Filled(g, E, l, p) = l /\ rows[p].request > l}

(* The grants g, within the requests of the rows of D, may be raised on E.  *)
Grants(g, D, E) ==
  /\ D \in SUBSET DOMAIN rows /\ E \in SUBSET D
  /\ g \in [D -> Nat] /\ \A p \in D : g[p] <= rows[p].request

(* What a distribution of a tokens among the rows of E promises: h grants   *)
(* no less than g and no more than requested, the sum is kept, and some     *)
(* level separates the rows that still want more from those raised.         *)
Raised(g, D, E, a, h, left) ==
  /\ left \in Nat
  /\ h \in [D -> Nat]
  /\ \A p \in D : g[p] <= h[p] /\ h[p] <= rows[p].request
  /\ \A p \in D \ E : h[p] = g[p]
  /\ SumFunctionOnSet(h, D) + left = SumFunctionOnSet(g, D) + a
  /\ \E l \in Nat : \A p \in E :
       /\ h[p] < rows[p].request => left = 0 /\ h[p] >= l
       /\ h[p] > g[p] => h[p] <= l + 1

(* The least useful grants, then the reserved pool, then the shared one.    *)
Minimum == [p \in Chosen |-> Charge(rows[p])]
Covered == {p \in Chosen : Protected(rows[p])}
First == TopUp(Minimum, Covered, best.prot)
Second == TopUp(First.grants, Chosen, best.free)

-----------------------------------------------------------------------------
(* The greedy walk, and the search that follows it.                         *)

\* The states of the greedy walk.
Walks ==
  [sel : SUBSET wave.candidates, counts : [Capacities -> Nat],
   total : Nat, prot : Nat, free : Nat]

(* h is what the walk makes of g when it admits r. *)
Accepts(g, h, r) ==
  \E a \in Nat :
    LET pays == wave.enforced /\ r.request > 0
        v == IF Protected(r) THEN Least(a, g.prot) ELSE 0
    IN  /\ Fits(g, r)
        /\ pays => MinGrant <= a /\ a <= (IF Protected(r) THEN g.total ELSE g.free)
        /\ pays => r.request >= MinGrant
        /\ ~pays => a = 0
        /\ h.sel = g.sel \cup {r}
        /\ h.counts = [g.counts EXCEPT ![CapacityClass(r)] = @ + 1]
        /\ h.total = NonNegative(g.total - a)
        /\ h.prot = g.prot - v
        /\ h.free = NonNegative(g.free - (a - v))

(* A grant never leaves the walk richer than the search, which pays the     *)
(* least charge: P says the row is protected, a is its grant, c its charge. *)
NoRicher(gt, gp, gf, hp, hf) == gf <= hf /\ gt <= hp + hf /\ (gp <= hp \/ gf = 0)

\* What each of the two can pay.
Afford(P, gt, gf, hp, hf, a, c) ==
  /\ c <= a /\ (a = c \/ a <= (IF P THEN gt ELSE gf))
  /\ c <= (IF P THEN hp + hf ELSE hf)

(* The walk has admitted the rows of the partial wave h, for no less.       *)
Follows(g, h) ==
  /\ Sound(h)
  /\ g.sel = {rows[p] : p \in Range(h.sel)} /\ Cardinality(g.sel) = Len(h.sel)
  /\ g.counts = h.counts
  /\ g.free <= h.free /\ g.total <= h.prot + h.free
  /\ g.prot <= h.prot \/ g.free = 0

(* The first j rows of the greedy wave are those the walk has admitted of   *)
(* its first k candidates, and the search admits them in turn.              *)
InStep(k, j) ==
  /\ \A i \in 1..j : Admits(Rebuilt[i - 1], GreedyPositions[i])
  /\ Follows(Walk[k], Rebuilt[j])
  /\ {GreedyPositions[i] : i \in 1..j} = {p \in GreedyRows : rows[p] \in Walk[k].sel}

-----------------------------------------------------------------------------
(* Completions, and what they are worth.                                    *)

(* Comparing scores and then identifiers, the first pair is no worse.       *)
NoWorse(v1, i1, v2, i2) ==
  LexLess(v2, v1) \/ (v1 = v2 /\ LexAtMost(i1, i2))

\* What the rows are worth and cost, one by one and summed up.
Weights == [p \in DOMAIN rows |-> Weight(rows[p])]
Priorities == [p \in DOMAIN rows |-> Priority(rows[p])]
Fair(R) == SumFunctionOnSet(Weights, R)
Prio(R) == SumFunctionOnSet(Priorities, R)
Bill(R) == SumFunctionOnSet(Charges, R)
Guarded(R) == {p \in R : Protected(rows[p])}

(* The rows of R may still join the partial wave s, all from row n on.      *)
Completion(R, s, n) ==
  /\ R \subseteq n..Len(rows)
  /\ R \cap Blocked(s, n) = {}
  /\ \A p, q \in R : p # q => ~Conflict(rows[p], rows[q])
  /\ Len(s.sel) + Cardinality(R) <= MaxCompanions
  /\ \A p \in R : s.counts[CapacityClass(rows[p])]
                    + Cardinality(InClass(R, CapacityClass(rows[p])))
                      <= wave.caps[CapacityClass(rows[p])]
  /\ Bill(Unprotected(R)) + NonNegative(Bill(Guarded(R)) - s.prot) <= s.free

(* What s is worth with them, and the identifiers it then holds.            *)
Total(s, R) ==
  <<s.fair + Fair(R), s.prio + Prio(R), Len(s.sel) + Cardinality(R),
    s.prot + s.free - Bill(R)>>

\* The identifiers of its rows, in the order of their positions.
Idents(R) == [k \in 1..Cardinality(R) |-> rows[Sorted(R, <)[k]].id]
Listing(s, R) == s.ids \o Idents(R)

\* An increasing sequence.
Rising(q) == \A j, k \in 1..Len(q) : j < k => q[j] < q[k]

(* What a partial wave keeps is what its rows make it.                      *)
Exact(s) ==
  LET R == Range(s.sel)
  IN  /\ s.fair = Fair(R) /\ s.prio = Prio(R)
      /\ s.blocks = UNION {Blocks(p) : p \in R}
      /\ s.free = StartPools.free - Bill(Unprotected(R))
                    - NonNegative(Bill(Guarded(R)) - StartPools.prot)
      /\ Rising(s.sel)

(* A partial wave that has decided the rows before n. *)
Ready(s, n) ==
  /\ Sound(s) /\ Exact(s)
  /\ n \in 1..(Len(rows) + 1)
  /\ \A p \in Range(s.sel) : p < n

(* Paying from the reserve first leaves each pool what the rows make it:    *)
(* U and G are what the unprotected and the protected rows cost.            *)
PoolsExact(SP, SF, U, G, p, f) ==
  /\ SP \in Nat /\ SF \in Nat /\ U \in Nat /\ G \in Nat /\ p \in Nat /\ f \in Nat
  /\ f = SF - U - NonNegative(G - SP)
  /\ p + f + (U + G) = SP + SF

(* What can pay for a row and for others can pay for the row, and then for  *)
(* the others.                                                              *)
PoolsPay(U, G, p, f) ==
  /\ U \in Nat /\ G \in Nat /\ p \in Nat /\ f \in Nat
  /\ U + NonNegative(G - p) <= f

(* Some completion of s is worth at least v, with identifiers no greater    *)
(* than i if it is worth just that.                                         *)
Reach(s, n, v, i) ==
  \E R \in SUBSET DOMAIN rows :
    Completion(R, s, n) /\ NoWorse(Total(s, R), Listing(s, R), v, i)

-----------------------------------------------------------------------------
(* Rows that rise to better ones, and groups of rows.                       *)

\* The rows at the positions R.
RowsAt(R) == {rows[p] : p \in R}

\* The rows of T above each of them.
Over(T) == [p \in T |-> {q \in T : Above(q, p)}]

(* The rows of X can be replaced by different rows of T worth no less.      *)
Lifts(X, T) ==
  \E f \in [X -> T] : /\ \A x, y \in X : f[x] = f[y] => x = y
                      /\ \A x \in X : f[x] = x \/ Above(f[x], x)

\* Rows of one group exclude one another.
Grouping(g) ==
  \A p, q \in DOMAIN rows : p # q /\ g[p] = g[q] => Conflict(rows[p], rows[q])

\* The leaders of the groups the partial wave does not occupy.
FreeHeads(s, n, c, g) == {p \in Leaders(n, c, g) : \A q \in Range(s.sel) : g[q] # g[p]}

-----------------------------------------------------------------------------
(* What is open is exact and honestly rated.                                *)

(* An open node that is rated no worse than anything it can become.        *)
Honest(e) ==
  /\ Ready(e.state, e.at)
  /\ e.bound \in Tuples(4) /\ e.least \in Seq(Int)
  /\ \A v, i \in Seq(Int) :
       Reach(e.state, e.at, v, i) => NoWorse(e.bound, e.least, v, i)

(* What is still open is exact: its sums, its blocked rows and its pools   *)
(* are those of its rows, and its rating is no worse than its future.      *)
KeptInv ==
  /\ Exact(best)
  /\ \A s \in beam : Exact(s)
  /\ phase = "beam" => \A e \in cut.parked : Honest(e)
  /\ \A e \in queue : Honest(e)
  /\ phase = "beam" => queue = {} /\ reps = {}
  /\ phase = "beam" /\ layer = Len(rows) => \A s \in beam : s = best

(* A layer of the beam, part by part.                                       *)
Kept == Nondominated(Quotient(Grown(beam, layer + 1), layer + 2), layer + 2)
Incumbent == IF Better(Best(Kept), best) THEN Best(Kept) ELSE best
Viable == {e \in {Rated(s, layer + 2) : s \in Kept} : Promising(e, Incumbent)}
Leading == {e \in Viable : Cardinality({f \in Viable : Ahead(f, e)}) < BeamWidth}

\* The row after the k-th of the greedy wave.
RebuiltAt(k) == IF k = 0 THEN 1 ELSE GreedyPositions[k] + 1

(* A step of the completion, part by part.                                  *)
Lively(e) == ~Stale(e) /\ Promising(e, best)
Children(e) == IF Lively(e) /\ e.at <= Len(rows) THEN Grown({e.state}, e.at) ELSE {}
Winners(e) == {s \in Children(e) \cup (IF Lively(e) THEN {e.state} ELSE {}) : Better(s, best)}
Offspring(e) == {Rated(s, e.at + 1) : s \in Children(e)}
Winner(e) == IF Winners(e) = {} THEN best ELSE Best(Winners(e))

-----------------------------------------------------------------------------
(* No wave that may run is lost.                                            *)

\* s is worth v, and its identifiers are no greater.
Matched(s, v, i) == NoWorse(Score(s), s.ids, v, i)

\* The beam gave up v, and kept the means to reach it.
Cuts(c, v, i) ==
  /\ c.bound # <<>> /\ NoWorse(c.bound, c.ids, v, i)
  /\ c.overflow \/ \E e \in c.parked : Reach(e.state, e.at, v, i)

(* What the beam covers. *)
BeamCovers(v, i) ==
  \/ Matched(best, v, i)
  \/ \E s \in beam : Reach(s, layer + 1, v, i)
  \/ Cuts(cut, v, i)

\* No other node with the same future has hidden e.
Fresh(e, R) == \E r \in R : r.key = NodeKey(e) /\ r.ids = e.state.ids

\* What is open among the nodes Q with the representatives R, from row n on.
OpenFrom(s, Q, R, v, i, n) ==
  \/ Matched(s, v, i)
  \/ \E e \in Q : Fresh(e, R) /\ e.at >= n /\ Reach(e.state, e.at, v, i)

\* A representative never hides what no open node covers.
Represents(s, Q, R) ==
  \A r \in R : \A n \in 1..(Len(rows) + 1) : \A t :
    Ready(t, n) /\ r.key = <<n, FutureKey(t, n)>> /\ LexAtMost(r.ids, t.ids)
    => \A v, i \in Seq(Int) : Reach(t, n, v, i) => OpenFrom(s, Q, R, v, i, n)

\* The bound of what was given up covers v.
BoundCovers(v, i) == cut.bound # <<>> /\ NoWorse(cut.bound, cut.ids, v, i)

\* Whatever may run is matched, still open, or below that bound.
CoverInv ==
  /\ \A v, i \in Seq(Int) :
       Reach(Start, 1, v, i) =>
         /\ phase = "beam" => BeamCovers(v, i)
         /\ phase = "complete" => OpenFrom(best, queue, reps, v, i, 1)
         /\ phase \in {"allocate", "done"} => Matched(best, v, i) \/ BoundCovers(v, i)
  /\ phase = "complete" => Represents(best, queue, reps)
  /\ phase \in {"allocate", "done"} =>
       cut.bound = <<>> \/ (cut.bound \in Seq(Int) /\ cut.ids \in Seq(Int))

=============================================================================
