---------------------------- MODULE DispatchLedger ----------------------------
(***************************************************************************)
(* What the store promises about dispatched work, whatever crashes: waves  *)
(* of dispatches are opened one after another, each only when every        *)
(* dispatch before it is closed; a dispatch returns one result, whose      *)
(* patch lands at most once, and is closed according to what happened to   *)
(* the patch.                                                              *)
(***************************************************************************)
EXTENDS Naturals

CONSTANTS Dispatches,   \* pairs of a wave number and a position in the wave
          MaxWaves

VARIABLES opened,       \* number of waves opened so far
          stage         \* how far each dispatch has come

vars == <<opened, stage>>

Stages == {"absent", "open", "failed", "returned", "landed", "accepted", "rejected"}

Closed(d) == stage[d] \in {"absent", "accepted", "rejected"}

\* A wave of at least one dispatch is opened.
Open ==
  /\ opened < MaxWaves
  /\ \A d \in Dispatches : Closed(d)
  /\ opened' = opened + 1
  /\ \E wave \in (SUBSET {d \in Dispatches : d[1] = opened'}) \ {{}} :
       stage' = [d \in Dispatches |-> IF d \in wave THEN "open" ELSE stage[d]]

Move(d, from, to) ==
  /\ stage[d] = from
  /\ stage' = [stage EXCEPT ![d] = to]
  /\ UNCHANGED opened

\* A session returns a patch, or nothing that can be merged.
Return(d) == Move(d, "open", "returned") \/ Move(d, "open", "failed")

Land(d) == Move(d, "returned", "landed")

Close(d) ==
  \/ Move(d, "landed", "accepted")
  \/ Move(d, "returned", "rejected")
  \/ Move(d, "failed", "rejected")

Init ==
  /\ opened = 0
  /\ stage = [d \in Dispatches |-> "absent"]

Next == Open \/ \E d \in Dispatches : Return(d) \/ Land(d) \/ Close(d)

Spec == Init /\ [][Next]_vars
===============================================================================
