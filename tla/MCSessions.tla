----------------------------- MODULE MCSessions -----------------------------
(***************************************************************************)
(* Two scenes of two sessions each: a wave of two, and the leader of a     *)
(* wave with the writer beside it, without a hard stop and with a          *)
(* companion that never gets a child.                                      *)
(***************************************************************************)
EXTENDS Sessions

VARIABLE scene

MCInit ==
  /\ Init /\ scene \in {"wave", "beside"}
  /\ phase[Sidecar] = (IF scene = "wave" THEN "absent" ELSE "waiting")

MCNext ==
  /\ Next /\ UNCHANGED scene
  /\ scene = "beside" => control' = "running" /\ \A p \in Companions : child'[p] = "none"

MCSpec == MCInit /\ [][MCNext]_<<vars, scene>> /\ Fairness
=============================================================================
