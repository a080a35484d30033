---------------------------- MODULE MCProofState ----------------------------
(***************************************************************************)
(* Small proof graphs for checking the proof-state kernel.                 *)
(***************************************************************************)
EXTENDS ProofState, TLC

\* Chain: a premise-free step concludes p, and p is the premise of the step
\* that concludes the root.
ChainConcl     == "ip" :> "p"  @@ "ir" :> "root"
ChainRouteOf   == "ip" :> "rp" @@ "ir" :> "rr"
ChainPremise   == "ip" :> {}   @@ "ir" :> {"p"}
ChainCondition == "ip" :> {}   @@ "ir" :> {}
ChainRoutes    == "rp" :> "p"  @@ "rr" :> "root"
NoDebt       == <<>>

RootDebt    == "d" :> "root"

\* Single: one premise-free step concludes the root.
OneConcl     == "i1" :> "root"
OneRouteOf   == "i1" :> "r1"
OnePremises  == "i1" :> {}
OneRoute     == "r1" :> "root"
=============================================================================
