---------------------------- MODULE MCPatchCommit ----------------------------
(***************************************************************************)
(* Two sessions of a workflow and one operator for checking PatchCommit.   *)
(* Row "i" is an inference, "c" a claim, "x" an artifact.                  *)
(***************************************************************************)
EXTENDS PatchCommit, TLC

SmallPatches == {"explain", "verify", "report", "challenge", "policy"}

Append1(r)        == [mode |-> "append", rows |-> {r}, to |-> "none", safe |-> TRUE]
Transition(r, to) == [mode |-> "transition", rows |-> {r}, to |-> to, safe |-> TRUE]
Attach(a)         == [mode |-> "write", rows |-> {a}, to |-> "none", safe |-> TRUE]
Unattributed      == [mode |-> "other", rows |-> {}, to |-> "none", safe |-> FALSE]

\* Extend an inference; verify a claim; attach a report and do both; challenge
\* the claim; an operation without attributable rows.
SmallOperations ==
  "explain"   :> {Append1("i")} @@
  "verify"    :> {Transition("c", "verified")} @@
  "report"    :> {Attach("x"), Transition("c", "verified"), Append1("i")} @@
  "challenge" :> {Transition("c", "challenged")} @@
  "policy"    :> {Unattributed}

SmallArtifact ==
  "report" :> "x" @@ [p \in SmallPatches \ {"report"} |-> "none"]

\* One session reports, the other reports or only verifies; the operator may
\* submit a report of the same name.
SmallAnswers ==
  "s1" :> {"report"} @@ "s2" :> {"verify", "report"} @@
  "op" :> {"explain", "challenge", "policy", "report"}
=============================================================================
