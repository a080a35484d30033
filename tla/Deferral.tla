------------------------------ MODULE Deferral ------------------------------
(***************************************************************************)
(* What the scheduler promises about one comparison of candidate policies  *)
(* (decision_policy.py): a candidate that is passed over often enough is   *)
(* due, the most overdue one goes first, and so nobody who stays in the    *)
(* comparison waits for ever.  A table holds, for each candidate, how      *)
(* often in a row it was passed over; a row is dropped when the candidate  *)
(* is selected, absent, or excluded by a rule that stands above fairness.  *)
(* The comparison may be part of a larger one.  When the larger one        *)
(* selects something else, every candidate present is counted up, although *)
(* nothing was decided between them.                                       *)
(***************************************************************************)
EXTENDS Integers, FiniteSets

CONSTANTS
  Candidates,   \* the candidates this comparison may hold
  Limit         \* SCHEDULER_DEFERRAL_LIMIT

ASSUME DeferralConstants ==
  /\ IsFiniteSet(Candidates) /\ Candidates # {}
  /\ Limit \in Nat \ {0}

VARIABLES
  count,    \* the table; 0 stands for no row
  waited    \* of these, how often its own comparison passed it over

vars == <<count, waited>>

Init ==
  /\ count = [c \in Candidates |-> 0]
  /\ waited = [c \in Candidates |-> 0]

Due(pool) == {c \in pool : count[c] >= Limit}

(* Mutant: any due candidate may go first. *)
MayServeAnyDue(pool, s) == Due(pool) # {} => s \in Due(pool)

(* Which of the candidates left by the higher rules may be selected; the   *)
(* priority that breaks the remaining ties changes from one plan to the    *)
(* next.                                                                   *)
MayServe(pool, s) ==
  Due(pool) # {} => s \in Due(pool) /\ \A d \in Due(pool) : count[d] <= count[s]

(* Mutant: rows saturate one short of the limit. *)
DecideSaturated(pool, s) ==
  /\ s \in pool
  /\ MayServe(pool, s)
  /\ count' = [c \in Candidates |->
                IF c \notin pool \ {s} THEN 0 ELSE IF count[c] < Limit - 1 THEN count[c] + 1 ELSE count[c]]
  /\ waited' = [c \in Candidates |-> IF c \in pool \ {s} THEN waited[c] ELSE 0]

(* The comparison is decided among a pool of candidates. *)
Decide(pool, s) ==
  /\ s \in pool
  /\ MayServe(pool, s)
  /\ count' = [c \in Candidates |-> IF c \in pool \ {s} THEN count[c] + 1 ELSE 0]
  /\ waited' = [c \in Candidates |-> IF c \in pool \ {s} THEN waited[c] + 1 ELSE 0]

(* The larger comparison selects something else. *)
Pass(present) ==
  /\ count' = [c \in Candidates |-> IF c \in present THEN count[c] + 1 ELSE 0]
  /\ waited' = [c \in Candidates |-> IF c \in present THEN waited[c] ELSE 0]

DecideSome == \E pool \in SUBSET Candidates : \E s \in pool : Decide(pool, s)
PassSome == \E present \in SUBSET Candidates : Pass(present)

Next == DecideSome \/ PassSome

(* The planner keeps deciding: run_workflow plans again after every wave.  *)
Spec == Init /\ [][Next]_vars /\ WF_vars(DecideSome)

-----------------------------------------------------------------------------
TypeOK ==
  /\ count \in [Candidates -> Nat]
  /\ waited \in [Candidates -> Nat]

(* Those that are at least as overdue as c. *)
Rivals(c) == {d \in Candidates \ {c} : count[d] >= count[c]}

(* However priorities and tiers change and whoever joins, no candidate is  *)
(* passed over by its own comparison more than Limit + N - 2 times in a    *)
(* row (decision_policy.py:329).                                           *)
BoundedWait ==
  \A c \in Candidates : waited[c] <= Limit + Cardinality(Candidates) - 2

(* The reason: once due, a candidate can only be passed over for one that  *)
(* is at least as overdue, and such a rival is gone once it was selected.  *)
OverdueFirst ==
  \A c \in Candidates :
    /\ waited[c] <= count[c]
    /\ count[c] >= Limit =>
         waited[c] + Cardinality(Rivals(c)) <= Limit + Cardinality(Candidates) - 2

(* A claim to be served is served or lapses (decision_policy.py:192).      *)
NoStarvation == \A c \in Candidates : (count[c] > 0) ~> (count[c] = 0)
=============================================================================
