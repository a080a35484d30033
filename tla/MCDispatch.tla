------------------------------ MODULE MCDispatch ------------------------------
(***************************************************************************)
(* Small instances of Dispatch: a wave whose companion is a verifier, and  *)
(* one whose companion is an advisor with a compact triage.                *)
(***************************************************************************)
EXTENDS Dispatch

Session(role, intent) == [role |-> role, intent |-> intent, safe |-> role = "phd_advisor"]

VerifierWaves ==
  {<<Session("researcher", "independent_solve"),
     Session("strict_informal_verifier", "independent_solve")>>}

AdvisorWaves ==
  {<<Session("researcher", "independent_solve"),
     Session("phd_advisor", "parallel_counterexample_search")>>}

LoneWaves == {<<Session("writer", "independent_solve")>>}
===============================================================================
