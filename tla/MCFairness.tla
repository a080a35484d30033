----------------------------- MODULE MCFairness -----------------------------
(***************************************************************************)
(* Three scenes, so that none multiplies the states of another: work that  *)
(* competes for the lead over plans of a few shapes; plans of every shape; *)
(* and direct runs that are recorded late, over comparisons of strata.     *)
(***************************************************************************)
EXTENDS Fairness, TLC

CONSTANT MaxCount   \* bound on the rows of the two tables

VARIABLE scene

MCInit == Init /\ scene \in {"leaders", "plans", "records"}

Bounded ==
  /\ \A i \in Ids : deferrals[i] < MaxCount
  /\ \A w \in Work : queued[w] < MaxCount

(* One stratum or none under the planner, and an operation or a gate that  *)
(* takes its place.                                                        *)
Shapes ==
  {p \in Plans(deferrals) :
     /\ p.top.rows = TopIds => p.top.selected # Planner
     /\ p.open.rows = {} \/ (p.top.rows = {Planner} /\ \E i \in OpenIds : p.open.rows = {i})}

Leading ==
  /\ scene = "leaders"
  /\ Bounded
  /\ Dispatch(Shapes, Work)

Planning ==
  /\ scene = "plans"
  /\ Bounded
  /\ Dispatch(Plans(deferrals), {})

Recording ==
  /\ scene = "records"
  /\ Bounded
  /\ \/ Dispatch(Gates(deferrals), {})
     \/ OtherPatch
     \/ \E r \in Runs : Hold(r) \/ Record(r, Gates(held[r].deferrals))

MCNext == (Leading \/ Planning \/ Recording) /\ UNCHANGED scene

MCSpec == MCInit /\ [][MCNext]_<<vars, scene>>

Symmetry == Permutations(Strata) \union Permutations(Work) \union Permutations(Runs)

(* Revisions matter only by their order. *)
View ==
  <<scene, deferrals, queued, waited, blocked,
    [r \in Runs |-> <<held[r].rev = 0, Consumed(r), held[r].deferrals>>],
    {rs \in Runs \X Runs : held[rs[1]].rev < held[rs[2]].rev},
    \E r \in Runs : held[r].rev = revision>>
=============================================================================
