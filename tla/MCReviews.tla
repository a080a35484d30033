------------------------------ MODULE MCReviews ------------------------------
(***************************************************************************)
(* Two scenes over the chain graph, so that neither multiplies the states  *)
(* of the other: texts and statuses that change under one family of        *)
(* reviewers, and reviews of p by every family, for and against its        *)
(* designation, while no text changes.                                     *)
(***************************************************************************)
EXTENDS MCProofState

Checkers == {"strict_informal_verifier", "integration_verifier"}

Changing ==
  /\ patch.open => patch.role \in Checkers
  /\ patch.family \in {"A", Unreviewed}
  /\ \A b \in db.certs :
       b.kind \in {ArtifactOf[role] : role \in Checkers} /\ b.family \in {"A", Unreviewed}
  /\ work.heterogeneous = {}

Reviewing ==
  /\ \A e \in DOMAIN work.text : work.text[e] = 0
  /\ work.heterogeneous \subseteq {"p"}
  /\ work.life["p"] # "superseded"
  /\ \A e \in {"p", "ip"} : work.val[e] # "challenged"
  /\ \A e \in {"root", "ir"} : work.val[e] = "untested"
  /\ work.life["root"] = "active" /\ work.life["rr"] = "active"
  /\ \A c \in patch.cites \cup db.certs : c.targeted /\ c.ent \in {"p", "ip", "rp"}

Scenes == Changing \/ Reviewing
=============================================================================
