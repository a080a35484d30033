---------------------------- MODULE MCAdmission ----------------------------
(* Admission problems over a small catalogue of candidate actions. *)
EXTENDS Admission

CONSTANT Sizes   \* how many candidates a problem has

Row(rank, class, target, route, deferrals, request) ==
  [rank |-> rank, id |-> rank, class |-> class, mode |-> "ordinary",
   exact |-> FALSE, target |-> target, route |-> route,
   deferrals |-> deferrals, request |-> request, allowed |-> TRUE]

(* A verifier that excludes two workers who are together owed more than    *)
(* it, another owed less, an integration, work on a shared route, an       *)
(* action too small to fund, one without cost and one that runs alone.     *)
Catalogue ==
  {Row(1, "verification", "c1", "r1", 6, 7),
   Row(2, "research", "c1", "r2", 5, 6),
   Row(3, "adversarial", "c1", "r3", 4, 5),
   Row(4, "integration", "c2", "r4", 0, 6),
   Row(5, "research", "c3", "r4", 4, 4),
   Row(6, "literature", "c2", None, 0, 1),
   Row(7, "advisory", None, None, 3, 0),
   Row(8, "verification", "c1", "r5", 3, 4),
   [Row(9, "verification", "c3", "r5", 0, 3) EXCEPT !.mode = "delivery"]}

(* An action its own budget does not allow. *)
Barred == [Row(10, "adversarial", "c3", "r2", 0, 4) EXCEPT !.allowed = FALSE]

(* The same rows with identifiers in the opposite order of their ranks. *)
Reversed(S) == {[r EXCEPT !.id = 11 - r.rank] : r \in S}

Primary(class, request) == [Row(0, class, "c5", "r3", 0, request) EXCEPT !.id = 0]

Caps(workers) ==
  [c \in Capacities |-> IF c \in {"literature", "advisory"} THEN 1 ELSE workers]

Setting(primary, workers, enforced, remaining, reserve) ==
  [primary |-> primary, total |-> workers + 2, caps |-> Caps(workers),
   enforced |-> enforced, remaining |-> remaining, reserve |-> reserve]

Settings ==
  {Setting(Primary("advisory", 2), 1, FALSE, 0, 0),
   Setting([Primary("research", 2) EXCEPT !.route = "r9"], 3, TRUE, 13, 5),
   Setting(Primary("research", 3), 1, TRUE, 11, 1),
   Setting(Primary("verification", 3), 2, TRUE, 12, 6)}

(* All groups of the given sizes, and everything at once. *)
Groups == UNION {kSubset(k, Catalogue) : k \in Sizes} \union {Catalogue \union {Barred}}

MCWaves ==
  {[primary |-> s.primary, candidates |-> g, total |-> s.total, caps |-> s.caps,
    enforced |-> s.enforced, remaining |-> s.remaining, reserve |-> s.reserve] :
     s \in Settings, g \in Groups \union {Reversed(h) : h \in Groups}}
=============================================================================
