----------------------------- MODULE MCDeferral -----------------------------
(* A comparison of four candidates, part of a larger one that passes it    *)
(* over while no row has reached MaxCount.                                 *)
EXTENDS Deferral

CONSTANT MaxCount   \* bound on the rows a larger comparison counts up

BoundedPass ==
  \E present \in SUBSET Candidates :
    /\ \A c \in present : count[c] < MaxCount
    /\ Pass(present)

MCNext == DecideSome \/ BoundedPass

MCSpec == Init /\ [][MCNext]_vars /\ WF_vars(DecideSome)
=============================================================================
