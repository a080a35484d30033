------------------------------ MODULE PatchLog ------------------------------
(***************************************************************************)
(* What the store promises about patches, whatever runs at the same time:  *)
(* they take effect one after another, each at most once, and each is      *)
(* mergeable with everything that took effect since its session read the   *)
(* store.  PatchCommit is shown to implement this specification.           *)
(***************************************************************************)
EXTENDS Naturals, Sequences

CONSTANTS Clients, Sessions, Patches, Operations, Requests

VARIABLES log, policy

vars == <<log, policy>>

\* Two operations commute when they write no common row, both append to it, or
\* both are the same transition of it.
Commute(a, b) ==
  \/ a.rows \cap b.rows = {}
  \/ a.mode = "append" /\ b.mode = "append"
  \/ /\ a.mode = "transition" /\ b.mode = "transition"
     /\ a.to = b.to
     /\ \E r \in a.rows : a.rows = {r} /\ b.rows = {r}

\* `later` may take effect after `earlier` although its session had not seen it.
Mergeable(earlier, later) ==
  /\ \A b \in Operations[later] : b.safe
  /\ \A a \in Operations[earlier], b \in Operations[later] :
       a.mode # "other" /\ Commute(a, b)

Landed(c) == \E i \in DOMAIN log : log[i].client = c

Delivered == UNION {log[i].requests : i \in DOMAIN log}

\* A patch of client c lands, whose session saw the revision `context`, the
\* policy `seen` and the answers to `requests`.  (Landed(c)' follows from the
\* append; stated first it spares TLC the choices in every other step.)
Land(c) ==
  /\ ~Landed(c)
  /\ Landed(c)'
  /\ \E p \in Patches, context \in 0..Len(log), seen \in 0..policy,
       requests \in SUBSET (Requests \ Delivered) :
       /\ c \in Sessions => seen = policy
       /\ \A i \in (context + 1)..Len(log) : Mergeable(log[i].patch, p)
       /\ log' = Append(log, [client |-> c, patch |-> p, context |-> context,
                              policy |-> seen, requests |-> requests,
                              delivered |-> Len(log)])
  /\ UNCHANGED policy

ChangePolicy == policy' = policy + 1 /\ UNCHANGED log

Init == log = <<>> /\ policy = 0

Next == ChangePolicy \/ \E c \in Clients : Land(c)

Spec == Init /\ [][Next]_vars
=============================================================================
