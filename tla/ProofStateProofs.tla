-------------------------- MODULE ProofStateProofs --------------------------
(***************************************************************************)
(* Proofs about the proof-state kernel, for every proof graph and bound.   *)
(*                                                                         *)
(* Every operation of a patch goes through Write, and a commit replaces    *)
(* the tables by Seal.  The proofs follow that shape: one lemma per step   *)
(* of sealing says what it changes, one lemma per group of operations      *)
(* says that what they write is Lawful, and each invariant is then         *)
(* preserved by Write, by Commit, by Begin and by Reject.                  *)
(*   TypeInv        types, and what keeps them: a closed transaction holds *)
(*                  nothing and only a verifying role cites evidence;      *)
(*   PendingReview  a status an open patch raised is cited by the patch;   *)
(*   ReviewInv      every certificate testifies to a configuration that    *)
(*                  was reviewed, and a verified inference has one that is *)
(*                  current;                                               *)
(*   AssuredInv     an integrated claim has an integrated route, and the   *)
(*                  review of each satisfies its assurance.                *)
(***************************************************************************)
EXTENDS ProofState, FiniteSetTheorems, TLAPS

-----------------------------------------------------------------------------
(* Types of what is read from the tables *)

\* A status read through a binding is a status (certificates.py, _entity_status).
LEMMA EntityStatusType ==
  ASSUME NEW s, TablesOK(s), NEW e \in Entities
  PROVE  EntityStatus(s, e) \in Status
BY DEF EntityStatus, TablesOK, Entities, Status

\* A subject digest is a text version with a route's relation.
LEMMA SubjectType ==
  ASSUME NEW s, TablesOK(s), NEW e \in Entities
  PROVE  Subject(s, e) \in Subjects
<1>1. (IF e \in Inferences \cup Routes THEN s.text[e] ELSE 0) \in 0..MaxText
  BY BoundsAssumption DEF TablesOK
<1>2. (e \in Routes /\ e \in s.sufficient) \in BOOLEAN
  OBVIOUS
<1> QED
  BY <1>1, <1>2 DEF Subject, Subjects

\* A dependency digest maps each entity it covers to a subject and a status.
LEMMA ViewType ==
  ASSUME NEW s, TablesOK(s), NEW D, D \subseteq Entities, NEW V, V \subseteq Claims
  PROVE  View(s, D, V) \in [D -> Subjects \X Status]
<1> SUFFICES ASSUME NEW d \in D
             PROVE  /\ Subject(s, d) \in Subjects
                    /\ (IF d \in V THEN s.val[d] ELSE EntityStatus(s, d)) \in Status
  BY DEF View
<1>1. d \in Entities
  OBVIOUS
<1>2. CASE d \in Claims \cup Inferences
  BY <1>1, <1>2, EntityStatusType, SubjectType DEF TablesOK, Status
<1>3. CASE d \notin Claims \cup Inferences
  BY <1>1, <1>3, EntityStatusType, SubjectType DEF TablesOK, Status
<1> QED
  BY <1>2, <1>3

\* The claims a seed rests on include the seeds and are claims.
LEMMA UpstreamType ==
  ASSUME NEW s, NEW seeds \in SUBSET Claims
  PROVE  seeds \subseteq Upstream(s, seeds) /\ Upstream(s, seeds) \subseteq Claims
BY DEF Upstream

\* So does the closure with the inferences that prove them.
LEMMA ClaimClosureType ==
  ASSUME NEW s, NEW seeds \in SUBSET Claims
  PROVE  /\ seeds \subseteq ClaimClosure(s, seeds)
         /\ ClaimClosure(s, seeds) \subseteq Claims \cup Inferences
BY UpstreamType DEF ClaimClosure, VerifiedIn

\* An inference rests on claims.
LEMMA DependsOnType ==
  ASSUME NEW i \in Inferences
  PROVE  DependsOn(i) \subseteq Claims
BY GraphAssumption DEF DependsOn

\* The closure of inferences holds claims and inferences only.
LEMMA InferenceClosureType ==
  ASSUME NEW s, NEW I \in SUBSET Inferences
  PROVE  InferenceClosure(s, I) \subseteq Claims \cup Inferences
<1>1. UNION {DependsOn(i) : i \in I} \subseteq Claims
  BY DependsOnType
<1> QED
  BY <1>1, ClaimClosureType DEF InferenceClosure

\* What a certificate of an inference covers includes everything the inference
\* directly depends on.
LEMMA ClosureOfInference ==
  ASSUME NEW s, NEW i \in Inferences
  PROVE  DependsOn(i) \subseteq Closure(s, i)
<1>1. Closure(s, i) = ClaimClosure(s, DependsOn(i))
  BY IdentifiersAssumption DEF Closure
<1> QED
  BY <1>1, DependsOnType, ClaimClosureType

\* What a report on an owner covers is on record as entities.
LEMMA OwnerClosureType ==
  ASSUME NEW s, NEW o \in Claims \cup Inferences \cup Routes
  PROVE  OwnerClosure(s, o) \subseteq Entities
<1>1. CASE o \in Claims
  <2>1. {o} \in SUBSET Claims
    BY <1>1
  <2>2. OwnerClosure(s, o) = ClaimClosure(s, {o})
    BY <1>1, IdentifiersAssumption DEF OwnerClosure
  <2> QED
    BY <2>1, <2>2, ClaimClosureType DEF Entities
<1>2. CASE o \in Inferences
  <2>1. {o} \in SUBSET Inferences
    BY <1>2
  <2>2. OwnerClosure(s, o) = InferenceClosure(s, {o})
    BY <1>2, IdentifiersAssumption DEF OwnerClosure
  <2> QED
    BY <2>1, <2>2, InferenceClosureType DEF Entities
<1>3. CASE o \in Routes
  <2>1. RouteInferences(s, o) \in SUBSET Inferences
    BY DEF RouteInferences, Present
  <2>2. OwnerClosure(s, o) = {o} \cup InferenceClosure(s, RouteInferences(s, o))
    BY <1>3, IdentifiersAssumption DEF OwnerClosure
  <2> QED
    BY <1>3, <2>1, <2>2, InferenceClosureType DEF Entities
<1> QED
  BY <1>1, <1>2, <1>3

\* What a certificate covers are entities (certificates.py, dependency_closure_ids).
LEMMA ClosureType ==
  ASSUME NEW s, NEW e \in Entities
  PROVE  Closure(s, e) \subseteq Entities
<1>1. CASE e \in Claims
  <2> DEFINE steps == {i \in VerifiedIn(s, Inferences) : Concl[i] = e}
  <2>1. steps \in SUBSET Inferences
    BY DEF VerifiedIn
  <2>2. Closure(s, e) = InferenceClosure(s, steps)
    BY <1>1, IdentifiersAssumption DEF Closure
  <2> QED
    BY <2>1, <2>2, InferenceClosureType DEF Entities
<1>2. CASE e \in Inferences
  <2>1. Closure(s, e) = ClaimClosure(s, DependsOn(e))
    BY <1>2, IdentifiersAssumption DEF Closure
  <2> QED
    BY <1>2, <2>1, DependsOnType, ClaimClosureType DEF Entities
<1>3. CASE e \in Routes
  <2>1. Closure(s, e) = OwnerClosure(s, e)
    BY <1>3, IdentifiersAssumption DEF Closure
  <2> QED
    BY <1>3, <2>1, OwnerClosureType
<1>4. CASE e \in Debts
  <2>1. Closure(s, e) = OwnerClosure(s, Owner[e])
    BY <1>4, IdentifiersAssumption DEF Closure
  <2>2. Owner[e] \in Claims \cup Inferences \cup Routes
    BY <1>4, GraphAssumption
  <2> QED
    BY <2>1, <2>2, OwnerClosureType
<1> QED
  BY <1>1, <1>2, <1>3, <1>4 DEF Entities

-----------------------------------------------------------------------------
(* What each step of sealing a patch leaves alone, and that it keeps types *)

\* Two tables agree on everything a certificate of an inference depends on
\* apart from lifecycles.
SameContent(s, t) == t.val = s.val /\ t.text = s.text /\ t.sufficient = s.sufficient

\* They agree on what integrations are judged by beside content and lifecycles.
SameTerms(s, t) ==
  t.debt = s.debt /\ t.blocking = s.blocking /\ t.heterogeneous = s.heterogeneous

\* They agree on everything but the certificates.
SameTables(s, t) == SameContent(s, t) /\ t.life = s.life /\ SameTerms(s, t)

\* The parts of a reconciliation: the routes it demotes and what becomes of
\* them, the claims that lose their last integrated route, the routes whose
\* obstacle is gone, and the lifecycles it leaves.
Obstacles(s, r) == Blocking(s, RouteOwners(s, r) \cup {RouteConcl[r]})
Broken(s) == {r \in Routes :
                /\ s.life[r] = "integrated"
                /\ ~(RouteIntegrationHealthy(s, r) /\ s.life[RouteConcl[r]] = "integrated")}
RouteAfter(s, r) == IF r \notin Broken(s) THEN s.life[r]
                    ELSE IF Obstacles(s, r) # {} THEN "blocked" ELSE "active"
Orphaned(s) == {c \in Claims :
                  /\ s.life[c] = "integrated"
                  /\ ~ \E r \in s.sufficient : RouteConcl[r] = c /\ RouteAfter(s, r) = "integrated"}
ClaimAfter(s, c) ==
  IF c \notin Orphaned(s) THEN s.life[c]
  ELSE IF \E r \in Broken(s) : RouteConcl[r] = c /\ Obstacles(s, r) # {}
       THEN "blocked" ELSE "active"
Reopened(s) == {r \in s.sufficient : /\ RouteAfter(s, r) = "blocked"
                                      /\ RouteIntegrationHealthy(s, r)
                                      /\ ClaimAfter(s, RouteConcl[r]) # "integrated"}
Moved(s) ==
  [e \in DOMAIN s.life |->
     IF e \in Routes THEN IF e \in Reopened(s) THEN "active" ELSE RouteAfter(s, e)
     ELSE IF ClaimAfter(s, e) = "blocked" /\ \E r \in Reopened(s) : RouteConcl[r] = e
          THEN "active" ELSE ClaimAfter(s, e)]

LEMMA ReconcileForm ==
  ASSUME NEW s
  PROVE  ReconcileInvalidIntegrations(s) = [s EXCEPT !.life = Moved(s)]
BY DEF ReconcileInvalidIntegrations, Moved, Reopened, ClaimAfter, Orphaned, RouteAfter, Broken,
       Obstacles

LEMMA MovedType ==
  ASSUME NEW s, TablesOK(s)
  PROVE  /\ Moved(s) \in [Claims \cup Routes -> Lifecycle \cup {Absent}]
         /\ \A e \in Claims \cup Routes :
              Moved(s)[e] = s.life[e] \/ Moved(s)[e] \in {"active", "blocked"}
<1>1. DOMAIN s.life = Claims \cup Routes
      /\ \A e \in Claims \cup Routes : s.life[e] \in Lifecycle \cup {Absent}
  BY DEF TablesOK
<1>2. \A r : RouteAfter(s, r) = s.life[r] \/ RouteAfter(s, r) \in {"active", "blocked"}
  BY DEF RouteAfter
<1>3. \A c : ClaimAfter(s, c) = s.life[c] \/ ClaimAfter(s, c) \in {"active", "blocked"}
  BY DEF ClaimAfter
<1>4. {"active", "blocked"} \subseteq Lifecycle
  BY DEF Lifecycle
<1>5. ASSUME NEW e \in Claims \cup Routes
      PROVE  Moved(s)[e] = s.life[e] \/ Moved(s)[e] \in {"active", "blocked"}
  BY <1>1, <1>2, <1>3 DEF Moved
<1>6. DOMAIN Moved(s) = Claims \cup Routes /\ Moved(s) = [e \in Claims \cup Routes |-> Moved(s)[e]]
  BY <1>1 DEF Moved
<1>7. \A e \in Claims \cup Routes : Moved(s)[e] \in Lifecycle \cup {Absent}
  BY <1>1, <1>4, <1>5
<1> QED
  BY <1>5, <1>6, <1>7

\* Reconciling integrations moves lifecycles and nothing else
\* (patches.py, _reconcile_invalid_integrations).
LEMMA ReconcileEffect ==
  ASSUME NEW s, TablesOK(s)
  PROVE  LET t == ReconcileInvalidIntegrations(s)
         IN /\ TablesOK(t) /\ SameContent(s, t) /\ SameTerms(s, t) /\ t.certs = s.certs
            /\ \A e \in Claims \cup Routes :
                 t.life[e] = s.life[e] \/ t.life[e] \in {"active", "blocked"}
<1> DEFINE t == ReconcileInvalidIntegrations(s)
           L == Moved(s)
<1>1. /\ L \in [Claims \cup Routes -> Lifecycle \cup {Absent}]
      /\ t = [s EXCEPT !.life = L]
      /\ \A e \in Claims \cup Routes : L[e] = s.life[e] \/ L[e] \in {"active", "blocked"}
  BY MovedType, ReconcileForm
<1> HIDE DEF L
<1> HIDE DEF t
<1>2. TablesOK(t) /\ SameContent(s, t) /\ SameTerms(s, t) /\ t.certs = s.certs /\ t.life = L
  BY <1>1 DEF TablesOK, SameContent, SameTerms
<1> QED
  BY <1>1, <1>2 DEF t

\* Withdrawing dependents challenges everything downstream that was verified,
\* takes back integrations, and does nothing else (certificates.py,
\* invalidate_dependents).
LEMMA InvalidateDependentsEffect ==
  ASSUME NEW s, TablesOK(s), NEW C, NEW I
  PROVE  LET t == InvalidateDependents(s, C, I)
         IN /\ TablesOK(t) /\ t.certs = s.certs /\ t.debt = s.debt
            /\ \A e \in Claims \cup Inferences :
                 t.val[e] = s.val[e] \/ (t.val[e] = "challenged" /\ s.val[e] \in Verified)
            /\ \A e \in Claims \cup Routes : t.life[e] = s.life[e] \/ t.life[e] = "active"
            /\ VerifiedIn(t, Downstream(s, C \cup {Concl[i] : i \in I})) = {}
<1> DEFINE t == InvalidateDependents(s, C, I)
<1> DEFINE down == Downstream(s, C \cup {Concl[i] : i \in I})
           lost == VerifiedIn(s, down \cup I \cup {i \in Present(s) : DependsOn(i) \cap down # {}})
           V == [e \in DOMAIN s.val |-> IF e \in lost THEN "challenged" ELSE s.val[e]]
           L == [e \in DOMAIN s.life |->
                   IF s.life[e] = "integrated"
                      /\ (e \in lost \/ (e \in Routes /\ RouteConcl[e] \in down))
                   THEN "active" ELSE s.life[e]]
<1>1. t = [s EXCEPT !.val = V, !.life = L]
  BY DEF InvalidateDependents
<1>0. down \subseteq Claims
  BY DEF Downstream
<1>7. lost = {x \in down \cup I \cup {i \in Present(s) : DependsOn(i) \cap down # {}} :
                s.val[x] \in Verified}
  BY DEF VerifiedIn
<1> HIDE DEF lost, down, t
<1>2. V \in [Claims \cup Inferences -> Validation \cup {Absent}]
  BY DEF TablesOK, Validation, Open
<1>3. L \in [Claims \cup Routes -> Lifecycle \cup {Absent}]
  BY DEF TablesOK, Lifecycle
<1>4. \A e \in Claims \cup Inferences :
        V[e] = s.val[e] \/ (V[e] = "challenged" /\ s.val[e] \in Verified)
  BY <1>7 DEF TablesOK
<1>6. \A e \in Claims \cup Routes : L[e] = s.life[e] \/ L[e] = "active"
  BY DEF TablesOK
<1>8. \A e \in down : V[e] \notin Verified
  BY <1>0, <1>7 DEF TablesOK, Verified
<1> HIDE DEF V, L
<1>5. TablesOK(t) /\ t.certs = s.certs /\ t.debt = s.debt /\ t.val = V /\ t.life = L
  BY <1>1, <1>2, <1>3 DEF TablesOK
<1>9. VerifiedIn(t, down) = {}
  BY <1>5, <1>8 DEF VerifiedIn
<1> QED
  BY <1>4, <1>5, <1>6, <1>9 DEF t, down

\* Integrating moves lifecycles and obligations, never a validation status.
LEMMA IntegrateEffect ==
  ASSUME NEW s, TablesOK(s), NEW c \in Claims, NEW r \in Routes, NEW resolved
  PROVE  LET t == [Integrate(s, c, r, resolved) EXCEPT !.reports = @ \cup {r}]
         IN /\ TablesOK(t) /\ t.certs = s.certs /\ t.val = s.val
            /\ \A e \in Claims : t.life[e] = s.life[e] \/ t.life[e] = "integrated"
            /\ \A d \in Debts : t.debt[d] = s.debt[d] \/ t.debt[d] = "resolved"
<1>1. [s.life EXCEPT ![r] = "integrated", ![c] = "integrated"]
        \in [Claims \cup Routes -> Lifecycle \cup {Absent}]
  BY DEF TablesOK, Lifecycle
<1>2. [d \in Debts |-> IF d \in resolved THEN "resolved" ELSE s.debt[d]]
        \in [Debts -> DebtStatus \cup {Absent}]
  BY DEF TablesOK, DebtStatus
<1> QED
  BY <1>1, <1>2 DEF Integrate, TablesOK

\* Reopening obligations changes nothing but obligations (certificates.py,
\* invalidate_stale_refuted_obligations).
LEMMA InvalidateStaleEffect ==
  ASSUME NEW s, TablesOK(s)
  PROVE  LET t == InvalidateStaleRefutedObligations(s)
         IN /\ TablesOK(t) /\ SameContent(s, t) /\ t.life = s.life /\ t.certs = s.certs
            /\ t.blocking = s.blocking /\ t.heterogeneous = s.heterogeneous
            /\ \A d \in Debts :
                 \/ t.debt[d] = s.debt[d]
                 \/ /\ s.debt[d] = "refuted" /\ t.debt[d] = "active"
                    /\ ~ \E b \in s.certs : b.ent = d /\ Current(s, b)
<1> DEFINE t == InvalidateStaleRefutedObligations(s)
           D == [d \in Debts |-> IF s.debt[d] = "refuted"
                                      /\ ~ \E b \in s.certs : b.ent = d /\ Current(s, b)
                                   THEN "active" ELSE s.debt[d]]
<1>1. /\ D \in [Debts -> DebtStatus \cup {Absent}]
      /\ t = [s EXCEPT !.debt = D]
      /\ \A d \in Debts :
           \/ D[d] = s.debt[d]
           \/ /\ s.debt[d] = "refuted" /\ D[d] = "active"
              /\ ~ \E b \in s.certs : b.ent = d /\ Current(s, b)
  BY DEF InvalidateStaleRefutedObligations, TablesOK, DebtStatus
<1> HIDE DEF D
<1> HIDE DEF t
<1>2. TablesOK(t) /\ SameContent(s, t) /\ t.life = s.life /\ t.certs = s.certs
      /\ t.blocking = s.blocking /\ t.heterogeneous = s.heterogeneous /\ t.debt = D
  BY <1>1 DEF TablesOK, SameContent
<1> QED
  BY <1>1, <1>2 DEF t

\* What a digest shows depends on the tables other than the certificates.
LEMMA SameReading ==
  ASSUME NEW s, NEW t, SameTables(s, t)
  PROVE  /\ \A e : Subject(t, e) = Subject(s, e) /\ EntityStatus(t, e) = EntityStatus(s, e)
         /\ \A D, V : View(t, D, V) = View(s, D, V)
         /\ \A b : BindingStatusCurrent(t, b) <=> BindingStatusCurrent(s, b)
         /\ \A b : Current(t, b) <=> Current(s, b)
<1> USE DEF SameTables, SameContent, SameTerms
<1>1. \A e : Subject(t, e) = Subject(s, e)
  BY DEF Subject
<1>2. \A e : EntityStatus(t, e) = EntityStatus(s, e)
  BY DEF EntityStatus
<1>3. \A D, V : View(t, D, V) = View(s, D, V)
  BY <1>1, <1>2 DEF View
<1>4. \A b : BindingStatusCurrent(t, b) <=> BindingStatusCurrent(s, b)
  BY <1>2 DEF BindingStatusCurrent
<1>5. \A b : Current(t, b) <=> Current(s, b)
  BY <1>1, <1>3, <1>4 DEF Current
<1> QED
  BY <1>1, <1>2, <1>3, <1>4, <1>5

\* A certificate's binding against the tables s.
Binding(s, p, c) ==
  [ent |-> c.ent, kind |-> ArtifactOf[p.role], outcome |-> c.outcome,
   targeted |-> c.targeted, family |-> p.family, subject |-> Subject(s, c.ent),
   status |-> EntityStatus(s, c.ent), deps |-> View(s, Closure(s, c.ent), {})]

\* A new binding is a well-formed certificate.
LEMMA BindingType ==
  ASSUME NEW s, TablesOK(s), NEW p \in Patches, p.role \in VerifyingRoles,
         NEW c \in p.cites, EntityStatus(s, c.ent) \in CertifiedStatus
  PROVE  CertificateOK(Binding(s, p, c))
<1>1. c \in [ent : Entities, outcome : Outcome, targeted : BOOLEAN]
  BY DEF Patches
<1> DEFINE D == Closure(s, c.ent)
           V == View(s, D, {})
<1>2. c.ent \in Entities
  BY <1>1
<1>3. D \subseteq Entities
  BY <1>2, ClosureType
<1>4. V \in [D -> Subjects \X Status] /\ DOMAIN V = D
  BY <1>3, ViewType
<1>5. Subject(s, c.ent) \in Subjects
  BY <1>2, SubjectType
<1>6. p.family \in Families \cup {Unreviewed}
  BY DEF Patches
<1> HIDE DEF D, V
<1>7. QED
  BY <1>1, <1>3, <1>4, <1>5, <1>6 DEF CertificateOK, Binding, D, V

\* Binding adds the patch's certificates and changes nothing else
\* (certificates.py, bind_new_certificates).
LEMMA BindEffect ==
  ASSUME NEW s, TablesOK(s), NEW p \in Patches, p.cites # {} => p.role \in VerifyingRoles
  PROVE  LET t == BindNewCertificates(s, p)
             new == {c \in p.cites : EntityStatus(s, c.ent) \in CertifiedStatus}
         IN /\ TablesOK(t) /\ SameTables(s, t)
            /\ t.certs = s.certs \cup {Binding(s, p, c) : c \in new}
<1> DEFINE t == BindNewCertificates(s, p)
           new == {c \in p.cites : EntityStatus(s, c.ent) \in CertifiedStatus}
           B == {Binding(s, p, c) : c \in new}
<1>1. t = [s EXCEPT !.certs = s.certs \cup B]
  BY DEF BindNewCertificates, Binding
<1>2. \A b \in B : CertificateOK(b)
  BY BindingType
<1> HIDE DEF t, B
<1>3. TablesOK(t) /\ SameTables(s, t) /\ t.certs = s.certs \cup B
  BY <1>1, <1>2 DEF TablesOK, SameTables, SameContent, SameTerms
<1> QED
  BY <1>3 DEF t, B

\* A certificate the promotion carries over.
Carried(before, s, b) ==
  /\ DOMAIN b.deps \cap Promoted(before, s) # {}
  /\ b.subject = Subject(s, b.ent)
  /\ BindingStatusCurrent(s, b)
  /\ b.deps = View(s, DOMAIN b.deps, Promoted(before, s))
Rebased(before, s, b) ==
  IF Carried(before, s, b) THEN [b EXCEPT !.deps = View(s, DOMAIN b.deps, {})] ELSE b

\* Rebasing a certificate keeps its entity, its subject and what it covers.
LEMMA RebasedType ==
  ASSUME NEW before, NEW s, TablesOK(s), NEW b, CertificateOK(b)
  PROVE  /\ CertificateOK(Rebased(before, s, b))
         /\ DOMAIN Rebased(before, s, b).deps = DOMAIN b.deps
         /\ Rebased(before, s, b).ent = b.ent
         /\ Rebased(before, s, b).subject = b.subject
<1> DEFINE V == View(s, DOMAIN b.deps, {})
<1>1. V \in [DOMAIN b.deps -> Subjects \X Status] /\ DOMAIN V = DOMAIN b.deps
  BY ViewType DEF CertificateOK
<1> HIDE DEF V
<1>2. CASE Carried(before, s, b)
  <2>1. Rebased(before, s, b) = [b EXCEPT !.deps = V]
    BY <1>2 DEF Rebased, V
  <2> QED
    BY <1>1, <2>1 DEF CertificateOK
<1>3. CASE ~Carried(before, s, b)
  BY <1>3 DEF Rebased
<1> QED
  BY <1>2, <1>3

\* Rebasing rewrites certificates one by one and changes nothing else
\* (certificates.py, rebase_dependency_lifecycle_bindings).
LEMMA RebaseEffect ==
  ASSUME NEW before, NEW s, TablesOK(s)
  PROVE  LET t == RebaseDependencyLifecycleBindings(before, s)
         IN /\ TablesOK(t) /\ SameTables(s, t)
            /\ t.certs = {Rebased(before, s, b) : b \in s.certs}
<1> DEFINE t == RebaseDependencyLifecycleBindings(before, s)
           B == {Rebased(before, s, b) : b \in s.certs}
<1>1. t = [s EXCEPT !.certs = B]
  BY DEF RebaseDependencyLifecycleBindings, Rebased, Carried
<1>2. ASSUME NEW b \in s.certs PROVE CertificateOK(Rebased(before, s, b))
  BY RebasedType DEF TablesOK
<1>3. \A b \in B : CertificateOK(b)
  BY <1>2
<1> HIDE DEF t, B
<1>4. TablesOK(t) /\ SameTables(s, t) /\ t.certs = B
  BY <1>1, <1>3 DEF TablesOK, SameTables, SameContent, SameTerms
<1> QED
  BY <1>4 DEF t, B

\* A new binding is current in the tables it was bound against; that of an
\* integrated claim needs the claim verified.
LEMMA BindingCurrent ==
  ASSUME NEW s, TablesOK(s), NEW p, NEW c,
         c.ent \in Claims => (s.life[c.ent] = "integrated" => s.val[c.ent] \in Verified)
  PROVE  Current(s, Binding(s, p, c)) /\ Binding(s, p, c).ent = c.ent
<1> DEFINE b == Binding(s, p, c)
<1>1. b.ent = c.ent /\ b.subject = Subject(s, c.ent) /\ b.status = EntityStatus(s, c.ent)
      /\ b.deps = View(s, Closure(s, c.ent), {})
  BY DEF Binding
<1>2. DOMAIN b.deps = Closure(s, c.ent)
  BY <1>1 DEF View
<1> HIDE DEF b
<1>3. BindingStatusCurrent(s, b)
  <2>1. CASE c.ent \in Claims
    BY <1>1, <2>1, IdentifiersAssumption DEF BindingStatusCurrent, EntityStatus
  <2>2. CASE c.ent \notin Claims
    BY <1>1, <2>2 DEF BindingStatusCurrent
  <2> QED
    BY <2>1, <2>2
<1> QED
  BY <1>1, <1>2, <1>3 DEF Current, b

\* The steps of sealing taken together: w are the tables the new certificates
\* are bound against.  A refuted obligation is reopened unless this patch
\* brought the refutation.
LEMMA SealEffect ==
  ASSUME NEW before, NEW s, TablesOK(s),
         NEW p \in Patches, p.cites # {} => p.role \in VerifyingRoles
  PROVE  LET t == Seal(before, s, p)
             u == ReconcileInvalidIntegrations(s)
             w == RebaseDependencyLifecycleBindings(before, u)
             new == {c \in p.cites : EntityStatus(w, c.ent) \in CertifiedStatus}
         IN /\ TablesOK(t) /\ SameContent(s, t) /\ t.life = u.life
            /\ TablesOK(u) /\ SameContent(s, u) /\ SameTerms(s, u)
            /\ TablesOK(w) /\ SameContent(s, w) /\ SameTables(u, w) /\ w.life = u.life
            /\ t.certs = {Rebased(before, u, b) : b \in s.certs} \cup {Binding(w, p, c) : c \in new}
            /\ t.blocking = s.blocking /\ t.heterogeneous = s.heterogeneous
            /\ \A d \in Debts :
                 \/ t.debt[d] = s.debt[d]
                 \/ s.debt[d] = "refuted" /\ t.debt[d] = "active" /\ d \notin {c.ent : c \in p.cites}
<1> DEFINE t == Seal(before, s, p)
           u == ReconcileInvalidIntegrations(s)
           w == RebaseDependencyLifecycleBindings(before, u)
           x == BindNewCertificates(w, p)
           new == {c \in p.cites : EntityStatus(w, c.ent) \in CertifiedStatus}
<1>1. TablesOK(u) /\ SameContent(s, u) /\ SameTerms(s, u) /\ u.certs = s.certs
  BY ReconcileEffect
<1> HIDE DEF u
<1>2. TablesOK(w) /\ SameTables(u, w)
      /\ w.certs = {Rebased(before, u, b) : b \in s.certs}
  BY <1>1, RebaseEffect
<1> HIDE DEF w
<1>3. TablesOK(x) /\ SameTables(w, x)
      /\ x.certs = w.certs \cup {Binding(w, p, c) : c \in new}
  BY <1>2, BindEffect
<1> HIDE DEF x
<1>4. t = InvalidateStaleRefutedObligations(x)
  BY DEF Seal, t, u, w, x
<1>5. /\ TablesOK(t) /\ SameContent(x, t) /\ t.life = x.life /\ t.certs = x.certs
      /\ t.blocking = x.blocking /\ t.heterogeneous = x.heterogeneous
      /\ \A d \in Debts :
           \/ t.debt[d] = x.debt[d]
           \/ /\ x.debt[d] = "refuted" /\ t.debt[d] = "active"
              /\ ~ \E b \in x.certs : b.ent = d /\ Current(x, b)
  BY <1>3, <1>4, InvalidateStaleEffect
<1> HIDE DEF t
<1>6. x.debt = s.debt /\ w.debt = s.debt
  BY <1>1, <1>2, <1>3 DEF SameTables, SameTerms
<1>7. ASSUME NEW d \in Debts, s.debt[d] = "refuted", NEW c \in p.cites, c.ent = d
      PROVE  \E b \in x.certs : b.ent = d /\ Current(x, b)
  <2>1. EntityStatus(w, d) = "refuted"
    BY <1>6, <1>7, IdentifiersAssumption, GraphAssumption DEF EntityStatus
  <2>2. c \in new
    BY <1>7, <2>1 DEF CertifiedStatus
  <2>3. c.ent \notin Claims
    BY <1>7, IdentifiersAssumption
  <2>4. Current(w, Binding(w, p, c)) /\ Binding(w, p, c).ent = d
    BY <1>2, <1>7, <2>3, BindingCurrent
  <2>5. Current(x, Binding(w, p, c))
    BY <1>3, <2>4, SameReading
  <2> QED
    BY <1>3, <2>2, <2>4, <2>5
<1>8. \A d \in Debts :
        \/ t.debt[d] = s.debt[d]
        \/ s.debt[d] = "refuted" /\ t.debt[d] = "active" /\ d \notin {c.ent : c \in p.cites}
  BY <1>5, <1>6, <1>7
<1> HIDE DEF new
<1>9. SameContent(s, w) /\ SameContent(s, t) /\ t.life = u.life /\ w.life = u.life
      /\ t.blocking = s.blocking /\ t.heterogeneous = s.heterogeneous
  BY <1>1, <1>2, <1>3, <1>5 DEF SameTables, SameContent, SameTerms
<1>10. t.certs = {Rebased(before, u, b) : b \in s.certs} \cup {Binding(w, p, c) : c \in new}
  BY <1>2, <1>3, <1>5
<1> QED
  BY <1>1, <1>2, <1>5, <1>8, <1>9, <1>10 DEF t, u, w, new

-----------------------------------------------------------------------------
(* Type correctness *)

\* TypeOK with what keeps the revision within its bound and lets only
\* verifying roles cite a certificate; a closed transaction holds nothing.
TypeInv ==
  /\ TypeOK
  /\ patch.open => revision < MaxRevision
  /\ patch.cites # {} => patch.role \in VerifyingRoles
  /\ ~patch.open => work = db

Cited(p) == {c.ent : c \in p.cites}

\* A closed transaction is a patch without operations or citations.
LEMMA NoPatchType == NoPatch \in Patches /\ NoPatch.cites = {} /\ ~NoPatch.open
BY BoundsAssumption DEF NoPatch, Patches

\* A new problem's tables have their types.
LEMMA TypeInit == Init => TypeInv
<1> SUFFICES ASSUME Init PROVE TypeInv
  OBVIOUS
<1>1. TablesOK(db)
  <2>1. [e \in Claims \cup Inferences |-> IF e \in Seeded \cup {Root} THEN "untested" ELSE Absent]
          \in [Claims \cup Inferences -> Validation \cup {Absent}]
    BY DEF Validation, Open
  <2>2. [e \in Claims \cup Routes |-> IF e \in Seeded \cup {Root} THEN "active" ELSE Absent]
          \in [Claims \cup Routes -> Lifecycle \cup {Absent}]
    BY DEF Lifecycle
  <2>3. [e \in Inferences \cup Routes |-> 0] \in [Inferences \cup Routes -> 0..MaxText]
    BY BoundsAssumption
  <2>4. [d \in Debts |-> IF d \in Seeded THEN "active" ELSE Absent]
          \in [Debts -> DebtStatus \cup {Absent}]
    BY DEF DebtStatus
  <2> QED
    BY <2>1, <2>2, <2>3, <2>4 DEF Init, TablesOK
<1>2. revision \in 0..MaxRevision
  BY BoundsAssumption DEF Init
<1> QED
  BY <1>1, <1>2, NoPatchType DEF Init, TypeInv, TypeOK

\* Every operation of a patch goes through Write: it is enough that what it
\* writes has the right type and that only a verifying role cites.
LEMMA WriteKeepsTypes ==
  ASSUME TypeInv, NEW op, NEW s, TablesOK(s),
         NEW cites \in SUBSET [ent : Entities, outcome : Outcome, targeted : BOOLEAN],
         cites # {} => patch.role \in VerifyingRoles,
         Write(op, s, cites)
  PROVE  TypeInv'
<1>1. patch' = [patch EXCEPT !.ops = patch.ops + 1, !.cites = patch.cites \cup cites]
  BY DEF Write
<1>2. patch.ops + 1 \in 0..MaxOps
  BY BoundsAssumption DEF Write, TypeInv, TypeOK, Patches
<1>3. patch.cites \cup cites \in SUBSET [ent : Entities, outcome : Outcome, targeted : BOOLEAN]
  BY DEF TypeInv, TypeOK, Patches
<1>4. patch' \in Patches /\ patch'.role = patch.role /\ patch'.open = patch.open
      /\ patch'.cites = patch.cites \cup cites
  BY <1>1, <1>2, <1>3 DEF TypeInv, TypeOK, Patches
<1>5. TablesOK(work') /\ TablesOK(db') /\ patch.open
  BY DEF Write, TypeInv, TypeOK
<1> QED
  BY <1>4, <1>5 DEF Write, TypeInv, TypeOK

\* A citation of an entity is a citation.
LEMMA CiteType ==
  ASSUME NEW e \in Entities, NEW outcome \in Outcome, NEW targeted \in BOOLEAN
  PROVE  Cite(e, outcome, targeted) \in [ent : Entities, outcome : Outcome, targeted : BOOLEAN]
BY DEF Cite

\* A claim falls when it is refuted or superseded.
Falls(before, s, c) ==
  \/ before.val[c] # "refuted" /\ s.val[c] = "refuted"
  \/ before.life[c] # "superseded" /\ s.life[c] = "superseded"

\* A status that becomes certified is cited.
Raising(s, cites) ==
  \A e \in Claims \cup Inferences :
    \/ s.val[e] \notin CertifiedStatus
    \/ work.val[e] \in CertifiedStatus
    \/ e \in {c.ent : c \in cites}

\* What is refuted is cited.
Refuting(s, cites) ==
  /\ \A e \in Claims \cup Inferences :
       s.val[e] = "refuted" => work.val[e] = "refuted" \/ e \in {c.ent : c \in cites}
  /\ \A d \in Debts :
       s.debt[d] = "refuted" => work.debt[d] = "refuted" \/ d \in {c.ent : c \in cites}

\* Nothing leaves the record, and a new inference has its premises on it.
Growing(s) ==
  /\ \A e \in Claims \cup Inferences : work.val[e] # Absent => s.val[e] # Absent
  /\ \A i \in Present(s) : i \in Present(work) \/ \A p \in Premises[i] : work.val[p] # Absent

\* When a claim on record falls, nothing downstream of it stays verified.
Withdrawing(s) ==
  \A c \in Claims :
    Falls(work, s, c) /\ work.val[c] # Absent => VerifiedIn(s, Downstream(work, {c})) = {}

\* What the proofs need to know of the tables s an operation writes and of its
\* citations.
Lawful(s, cites) ==
  /\ TablesOK(s) /\ s.certs = work.certs
  /\ cites \in SUBSET [ent : Entities, outcome : Outcome, targeted : BOOLEAN]
  /\ cites # {} => patch.role \in VerifyingRoles
  /\ Raising(s, cites) /\ Refuting(s, cites) /\ Growing(s) /\ Withdrawing(s)
LawfulWrite == \E op, s, cites : Write(op, s, cites) /\ Lawful(s, cites)

\* Operations that refute and supersede nothing.
Calm(s) ==
  /\ \A e \in Claims \cup Inferences : s.val[e] = "refuted" => work.val[e] = "refuted"
  /\ \A d \in Debts : s.debt[d] = "refuted" => work.debt[d] = "refuted"
  /\ \A c \in Claims : s.life[c] = "superseded" => work.life[c] = "superseded"

LEMMA CalmWithdrawsNothing ==
  ASSUME NEW s, Calm(s), NEW cites
  PROVE  Refuting(s, cites) /\ Withdrawing(s)
BY DEF Calm, Refuting, Withdrawing, Falls

\* Operations that keep the validation statuses keep the record.
LEMMA SameRecord ==
  ASSUME NEW s, \A e \in Claims \cup Inferences : s.val[e] = Absent <=> work.val[e] = Absent
  PROVE  Growing(s)
BY DEF Growing, Present

\* Operations that leave every validation status alone and cite nothing.
LEMMA PlainWrite ==
  ASSUME TypeInv, NEW op, NEW s, Write(op, s, {}), TablesOK(s),
         s.certs = work.certs, s.val = work.val,
         \A d \in Debts : s.debt[d] = "refuted" => work.debt[d] = "refuted",
         \A c \in Claims : s.life[c] = "superseded" => work.life[c] = "superseded"
  PROVE  LawfulWrite
<1>1. Calm(s) /\ Growing(s) /\ Raising(s, {})
  BY SameRecord DEF Calm, Raising
<1> QED
  BY <1>1, CalmWithdrawsNothing DEF LawfulWrite, Lawful

\* How the groups of statuses relate.
LEMMA CertifiedChoices ==
  /\ \A st \in Open : st \notin CertifiedStatus
  /\ Absent \notin CertifiedStatus /\ Verified \subseteq CertifiedStatus
  /\ Open \subseteq Validation /\ CertifiedStatus \subseteq Status
BY DEF Open, CertifiedStatus, Verified, Absent, Validation, Lifecycle, Status

\* What is downstream is a matter of the record alone.
LEMMA DownstreamOfRecord ==
  ASSUME NEW s, NEW t, Present(s) = Present(t), NEW C
  PROVE  Downstream(s, C) = Downstream(t, C)
BY DEF Downstream

\* Operations that shape the proof graph are lawful.
LEMMA GraphOperationLawful ==
  ASSUME TypeInv, GraphOperation
  PROVE  LawfulWrite
<1> USE DEF TypeInv, TypeOK
<1>1. ASSUME NEW c \in Claims, NEW st \in LifeChoices, AddClaim(c, st)
      PROVE  LawfulWrite
  <2> DEFINE s == [work EXCEPT !.val[c] = "untested", !.life[c] = st]
  <2>1. Write("add_claim", s, {})
    BY <1>1 DEF AddClaim
  <2>2. TablesOK(s) /\ s.certs = work.certs
        /\ s.val = [work.val EXCEPT ![c] = "untested"]
    BY BoundsAssumption DEF TablesOK, Validation, Open
  <2>3. /\ s.debt = work.debt /\ work.val[c] = Absent
        /\ \A x \in Claims : x # c => s.life[x] = work.life[x]
    BY <1>1 DEF AddClaim, TablesOK
  <2> HIDE DEF s
  <2>4. \A e \in Claims \cup Inferences : e # c => s.val[e] = work.val[e]
    BY <2>2 DEF TablesOK
  <2>5. s.val[c] = "untested" /\ "untested" \in Open /\ "untested" # Absent
    BY <2>2 DEF TablesOK, Open, Absent
  <2>6. Raising(s, {}) /\ Refuting(s, {})
    BY <2>3, <2>4, <2>5, CertifiedChoices DEF Raising, Refuting, Open
  <2>7. Growing(s)
    BY <2>4, <2>5, IdentifiersAssumption DEF Growing, Present
  <2>8. Withdrawing(s)
    BY <2>3, <2>4 DEF Withdrawing, Falls
  <2>9. Lawful(s, {})
    BY <2>2, <2>6, <2>7, <2>8 DEF Lawful
  <2> QED
    BY <2>1, <2>9 DEF LawfulWrite
<1>2. ASSUME NEW r \in Routes, NEW st \in LifeChoices, NEW b \in BOOLEAN, AddRoute(r, st, b)
      PROVE  LawfulWrite
  <2> DEFINE s == [work EXCEPT !.life[r] = st,
                               !.sufficient = IF b THEN @ \cup {r} ELSE @]
  <2>1. Write("add_route", s, {})
    BY <1>2 DEF AddRoute
  <2>2. TablesOK(s) /\ s.certs = work.certs /\ s.val = work.val /\ s.debt = work.debt
    BY BoundsAssumption DEF TablesOK
  <2>3. \A c \in Claims : s.life[c] = work.life[c]
    BY IdentifiersAssumption DEF TablesOK
  <2> HIDE DEF s
  <2> QED
    BY <2>1, <2>2, <2>3, PlainWrite
<1>3. ASSUME NEW r \in Routes, NEW t \in 0..MaxText, NEW b \in BOOLEAN, ReviseRoute(r, t, b)
      PROVE  LawfulWrite
  <2> DEFINE s == [work EXCEPT !.text[r] = t,
                               !.sufficient = IF b THEN @ \cup {r} ELSE @ \ {r}]
  <2>1. Write("update_route", s, {})
    BY <1>3 DEF ReviseRoute
  <2>2. TablesOK(s) /\ s.certs = work.certs /\ s.val = work.val
        /\ s.debt = work.debt /\ s.life = work.life
    BY DEF TablesOK
  <2> HIDE DEF s
  <2> QED
    BY <2>1, <2>2, PlainWrite
<1>4. ASSUME NEW r \in Routes, NEW st \in LifeChoices, SetRouteStatus(r, st)
      PROVE  LawfulWrite
  <2> DEFINE s == [work EXCEPT !.life[r] = st]
  <2>1. Write("update_route", s, {})
    BY <1>4 DEF SetRouteStatus
  <2>2. TablesOK(s) /\ s.certs = work.certs /\ s.val = work.val /\ s.debt = work.debt
    BY BoundsAssumption DEF TablesOK
  <2>3. \A c \in Claims : s.life[c] = work.life[c]
    BY IdentifiersAssumption DEF TablesOK
  <2> HIDE DEF s
  <2> QED
    BY <2>1, <2>2, <2>3, PlainWrite
<1>5. ASSUME NEW i \in Inferences, AddInference(i)
      PROVE  LawfulWrite
  <2> DEFINE s == [work EXCEPT !.val[i] = "untested"]
  <2>1. Write("add_inference", s, {})
    BY <1>5 DEF AddInference
  <2>2. TablesOK(s) /\ s.certs = work.certs
        /\ s.val = [work.val EXCEPT ![i] = "untested"]
    BY DEF TablesOK, Validation, Open
  <2>3. /\ s.debt = work.debt /\ s.life = work.life
        /\ \A p \in Premises[i] : work.val[p] # Absent
    BY <1>5 DEF AddInference
  <2> HIDE DEF s
  <2>4. \A e \in Claims \cup Inferences : e # i => s.val[e] = work.val[e]
    BY <2>2 DEF TablesOK
  <2>5. s.val[i] = "untested" /\ "untested" \in Open /\ "untested" # Absent
    BY <2>2 DEF TablesOK, Open, Absent
  <2>6. Raising(s, {}) /\ Calm(s)
    BY <2>3, <2>4, <2>5, CertifiedChoices DEF Raising, Calm, Open
  <2>7. Growing(s)
    BY <2>3, <2>4, <2>5 DEF Growing, Present
  <2>8. Lawful(s, {})
    BY <2>2, <2>6, <2>7, CalmWithdrawsNothing DEF Lawful
  <2> QED
    BY <2>1, <2>8 DEF LawfulWrite
<1>6. ASSUME NEW i \in Inferences, AppendExplanation(i)
      PROVE  LawfulWrite
  <2> DEFINE edited == [work EXCEPT !.text[i] = work.text[i] + 1]
             s == IF work.val[i] \in Verified THEN InvalidateDependents(edited, {}, {i})
                                              ELSE edited
  <2>1. Write("update_inference", s, {})
    BY <1>6 DEF AppendExplanation
  <2>2. work.text[i] + 1 \in 0..MaxText
    BY <1>6, BoundsAssumption DEF AppendExplanation, TablesOK
  <2>3. TablesOK(edited) /\ edited.certs = work.certs /\ edited.val = work.val
        /\ edited.life = work.life /\ edited.debt = work.debt
    BY <2>2 DEF TablesOK
  <2> HIDE DEF edited
  <2>4. /\ TablesOK(s) /\ s.certs = work.certs /\ s.debt = work.debt
        /\ \A e \in Claims \cup Inferences :
             s.val[e] = work.val[e] \/ (s.val[e] = "challenged" /\ work.val[e] \in Verified)
        /\ \A c \in Claims : s.life[c] = work.life[c] \/ s.life[c] = "active"
    BY <2>3, InvalidateDependentsEffect
  <2> HIDE DEF s
  <2>5. Raising(s, {}) /\ Calm(s)
    BY <2>4, CertifiedChoices DEF Raising, Calm, Open
  <2>6. Growing(s)
    BY <2>4, SameRecord DEF Verified, Absent
  <2>7. Lawful(s, {})
    BY <2>4, <2>5, <2>6, CalmWithdrawsNothing DEF Lawful
  <2> QED
    BY <2>1, <2>7 DEF LawfulWrite
<1>7. ASSUME NEW i \in Inferences, AppendEvidence(i)
      PROVE  LawfulWrite
  <2>1. Write("update_inference", work, {Cite(i, "positive", FALSE)})
    BY <1>7 DEF AppendEvidence
  <2>2. Cite(i, "positive", FALSE) \in [ent : Entities, outcome : Outcome, targeted : BOOLEAN]
    BY CiteType DEF Entities, Outcome
  <2>3. Calm(work) /\ Growing(work) /\ Raising(work, {Cite(i, "positive", FALSE)})
    BY SameRecord DEF Calm, Raising
  <2>4. Lawful(work, {Cite(i, "positive", FALSE)})
    BY <1>7, <2>2, <2>3, CalmWithdrawsNothing DEF Lawful, AppendEvidence
  <2> QED
    BY <2>1, <2>4 DEF LawfulWrite
<1>8. ASSUME NEW c \in Claims, NEW h \in BOOLEAN, SetClaimAssurance(c, h)
      PROVE  LawfulWrite
  <2> DEFINE s == [work EXCEPT !.heterogeneous = IF h THEN @ \cup {c} ELSE @ \ {c}]
  <2>1. Write("set_claim_assurance", s, {})
    BY <1>8 DEF SetClaimAssurance
  <2>2. TablesOK(s) /\ s.certs = work.certs /\ s.val = work.val
        /\ s.debt = work.debt /\ s.life = work.life
    BY DEF TablesOK
  <2> HIDE DEF s
  <2> QED
    BY <2>1, <2>2, PlainWrite
<1> QED
  BY <1>1, <1>2, <1>3, <1>4, <1>5, <1>6, <1>7, <1>8 DEF GraphOperation

\* Operations on obligations are lawful.
LEMMA DebtOperationLawful ==
  ASSUME TypeInv, DebtOperation
  PROVE  LawfulWrite
<1> USE DEF TypeInv, TypeOK
<1>1. ASSUME NEW d \in Debts, NEW b \in BOOLEAN, NEW st \in DebtStatus \ {"refuted"},
             AddDebt(d, b, st)
      PROVE  LawfulWrite
  <2> DEFINE s == [work EXCEPT !.debt[d] = IF @ = "refuted" THEN @ ELSE st,
                               !.blocking = IF b THEN @ \cup {d} ELSE @]
  <2>1. Write("add_debt", s, {})
    BY <1>1 DEF AddDebt
  <2>2. TablesOK(s) /\ s.certs = work.certs /\ s.val = work.val /\ s.life = work.life
    BY DEF TablesOK
  <2>3. \A x \in Debts : s.debt[x] = "refuted" => work.debt[x] = "refuted"
    BY DEF TablesOK
  <2> HIDE DEF s
  <2> QED
    BY <2>1, <2>2, <2>3, PlainWrite
<1>2. ASSUME NEW d \in Debts, NEW b \in BOOLEAN, NEW st \in DebtStatus \ {"refuted"},
             UpdateDebt(d, b, st)
      PROVE  LawfulWrite
  <2> DEFINE s == [work EXCEPT !.debt[d] = st,
                               !.blocking = IF b THEN @ \cup {d} ELSE @ \ {d}]
  <2>1. Write("update_debt", s, {})
    BY <1>2 DEF UpdateDebt
  <2>2. TablesOK(s) /\ s.certs = work.certs /\ s.val = work.val /\ s.life = work.life
    BY DEF TablesOK
  <2>3. \A x \in Debts : s.debt[x] = "refuted" => work.debt[x] = "refuted"
    BY DEF TablesOK
  <2> HIDE DEF s
  <2> QED
    BY <2>1, <2>2, <2>3, PlainWrite
<1>3. ASSUME NEW d \in Debts, RefuteDebt(d)
      PROVE  LawfulWrite
  <2> DEFINE s == [work EXCEPT !.debt[d] = "refuted"]
             cite == Cite(d, "refutation", TRUE)
  <2>1. Write("update_debt", s, {cite})
    BY <1>3 DEF RefuteDebt
  <2>2. TablesOK(s) /\ s.certs = work.certs /\ s.val = work.val /\ s.life = work.life
        /\ \A x \in Debts : x # d => s.debt[x] = work.debt[x]
    BY DEF TablesOK, DebtStatus
  <2>3. cite \in [ent : Entities, outcome : Outcome, targeted : BOOLEAN] /\ cite.ent = d
    BY CiteType DEF Entities, Outcome, Cite
  <2>4. patch.role \in VerifyingRoles
    BY <1>3 DEF RefuteDebt, VerifyingRoles
  <2> HIDE DEF s, cite
  <2>5. Raising(s, {cite}) /\ Refuting(s, {cite})
    BY <2>2, <2>3 DEF Raising, Refuting
  <2>6. Growing(s)
    BY <2>2, SameRecord
  <2>7. Withdrawing(s)
    BY <2>2 DEF Withdrawing, Falls
  <2>8. Lawful(s, {cite})
    BY <2>2, <2>3, <2>4, <2>5, <2>6, <2>7 DEF Lawful
  <2> QED
    BY <2>1, <2>8 DEF LawfulWrite
<1>4. ASSUME NEW d \in Debts, ResolveDebt(d)
      PROVE  LawfulWrite
  <2> DEFINE s == [work EXCEPT !.debt[d] = IF @ = "refuted" THEN @
                                           ELSE IF patch.role \in VerifyingRoles THEN "resolved"
                                           ELSE "active"]
  <2>1. Write("resolve_debt", s, {})
    BY <1>4 DEF ResolveDebt
  <2>2. TablesOK(s) /\ s.certs = work.certs /\ s.val = work.val /\ s.life = work.life
    BY DEF TablesOK, DebtStatus
  <2>3. \A x \in Debts : s.debt[x] = "refuted" => work.debt[x] = "refuted"
    BY DEF TablesOK
  <2> HIDE DEF s
  <2> QED
    BY <2>1, <2>2, <2>3, PlainWrite
<1> QED
  BY <1>1, <1>2, <1>3, <1>4 DEF DebtOperation

\* The evidence of a transition is well typed, whoever proposes it.
LEMMA EvidenceType ==
  ASSUME NEW e \in Entities, NEW outcome \in Outcome
  PROVE  /\ Evidence(e, outcome) \in SUBSET [ent : Entities, outcome : Outcome, targeted : BOOLEAN]
         /\ Evidence(e, outcome) # {} => patch.role \in VerifyingRoles
<1>1. (patch.role # "formal_backend") \in BOOLEAN
  OBVIOUS
<1> QED
  BY <1>1, CiteType DEF Evidence

\* A review on file can be cited again only for an entity that is certified.
LEMMA OnFileCertified ==
  ASSUME TypeInv, NEW e \in Claims \cup Inferences, NEW kind, NEW outcome,
         OnFile(e, kind, outcome)
  PROVE  work.val[e] \in CertifiedStatus
<1>1. PICK b \in work.certs : b.ent = e /\ BindingStatusCurrent(work, b)
  BY DEF OnFile, Current
<1>2. b.status \in CertifiedStatus
  BY <1>1 DEF TypeInv, TypeOK, TablesOK, CertificateOK
<1>3. CASE e \in Claims
  <2>1. work.val[e] \in Validation \cup {Absent}
    BY <1>3 DEF TypeInv, TypeOK, TablesOK
  <2>2. work.val[e] \in Verified \/ b.status = work.val[e]
    BY <1>1, <1>3 DEF BindingStatusCurrent
  <2> QED
    BY <1>2, <2>2, CertifiedChoices
<1>4. CASE e \in Inferences
  <2>1. b.status = work.val[e]
    BY <1>1, <1>4, IdentifiersAssumption DEF BindingStatusCurrent, EntityStatus
  <2> QED
    BY <1>2, <2>1
<1> QED
  BY <1>3, <1>4

\* Status transitions, integrations and external citations are lawful.
LEMMA StatusTransitionLawful ==
  ASSUME TypeInv, StatusTransition
  PROVE  LawfulWrite
<1> USE DEF TypeInv, TypeOK
<1>1. ASSUME NEW e \in Claims \cup Inferences, NEW st \in Demotions, Demote(e, st)
      PROVE  LawfulWrite
  <2> DEFINE s == [work EXCEPT !.val[e] = st]
             cites == Evidence(e, "blocked")
  <2>1. Write("propose_status_transition", s, cites)
    BY <1>1 DEF Demote
  <2>2. TablesOK(s) /\ s.certs = work.certs /\ s.val = [work.val EXCEPT ![e] = st]
        /\ s.life = work.life /\ s.debt = work.debt /\ work.val[e] # Absent
    BY <1>1, BoundsAssumption, CertifiedChoices DEF TablesOK, Demote
  <2>3. /\ cites \in SUBSET [ent : Entities, outcome : Outcome, targeted : BOOLEAN]
        /\ cites # {} => patch.role \in VerifyingRoles
    BY EvidenceType DEF Entities, Outcome
  <2> HIDE DEF s, cites
  <2>4. /\ \A x \in Claims \cup Inferences : x # e => s.val[x] = work.val[x]
        /\ s.val[e] = st /\ st \in Open
    BY <2>2, BoundsAssumption DEF TablesOK
  <2>5. Raising(s, cites)
    BY <2>4, CertifiedChoices DEF Raising
  <2>6. Calm(s) /\ Growing(s)
    BY <2>2, <2>4, SameRecord DEF Calm, Open, Absent
  <2>7. Lawful(s, cites)
    BY <2>2, <2>3, <2>5, <2>6, CalmWithdrawsNothing DEF Lawful
  <2> QED
    BY <2>1, <2>7 DEF LawfulWrite
<1>2. ASSUME NEW e \in Claims \cup Inferences, NEW fresh \in BOOLEAN, InformallyVerify(e, fresh)
      PROVE  LawfulWrite
  <2> DEFINE s == [work EXCEPT !.val[e] = "informally_verified"]
             cites == IF fresh THEN {Cite(e, "positive", TRUE)} ELSE {}
  <2>1. Write("propose_status_transition", s, cites)
    BY <1>2 DEF InformallyVerify
  <2>2. TablesOK(s) /\ s.certs = work.certs
        /\ s.val = [work.val EXCEPT ![e] = "informally_verified"]
        /\ s.life = work.life /\ s.debt = work.debt /\ work.val[e] # Absent
    BY <1>2 DEF TablesOK, Validation, Verified, InformallyVerify
  <2>3. cites \in SUBSET [ent : Entities, outcome : Outcome, targeted : BOOLEAN]
    <3>1. Cite(e, "positive", TRUE) \in [ent : Entities, outcome : Outcome, targeted : BOOLEAN]
      BY CiteType DEF Entities, Outcome
    <3> QED
      BY <3>1
  <2>4. patch.role \in VerifyingRoles
    BY <1>2 DEF InformallyVerify, VerifyingRoles
  <2>5. fresh \/ work.val[e] \in CertifiedStatus
    BY <1>2, OnFileCertified DEF InformallyVerify
  <2>6. fresh => e \in {c.ent : c \in cites}
    BY DEF Cite
  <2> HIDE DEF s, cites
  <2>7. /\ \A x \in Claims \cup Inferences : x # e => s.val[x] = work.val[x]
        /\ s.val[e] = "informally_verified"
    BY <2>2 DEF TablesOK
  <2>8. Raising(s, cites)
    BY <2>5, <2>6, <2>7 DEF Raising
  <2>9. Calm(s) /\ Growing(s)
    BY <2>2, <2>7, SameRecord DEF Calm, Absent
  <2>10. Lawful(s, cites)
    BY <2>2, <2>3, <2>4, <2>8, <2>9, CalmWithdrawsNothing DEF Lawful
  <2> QED
    BY <2>1, <2>10 DEF LawfulWrite
<1>3. ASSUME NEW e \in Claims \cup Inferences, FormallyVerify(e)
      PROVE  LawfulWrite
  <2> DEFINE s == [work EXCEPT !.val[e] = "formally_verified"]
             cite == Cite(e, "positive", TRUE)
  <2>1. Write("propose_status_transition", s, {cite})
    BY <1>3 DEF FormallyVerify
  <2>2. TablesOK(s) /\ s.certs = work.certs
        /\ s.val = [work.val EXCEPT ![e] = "formally_verified"]
        /\ s.life = work.life /\ s.debt = work.debt
    BY DEF TablesOK, Validation, Verified
  <2>3. cite \in [ent : Entities, outcome : Outcome, targeted : BOOLEAN]
    BY CiteType DEF Entities, Outcome
  <2>4. patch.role \in VerifyingRoles
    BY <1>3 DEF FormallyVerify, VerifyingRoles
  <2>5. work.val[e] \in CertifiedStatus
    BY <1>3, CertifiedChoices DEF FormallyVerify
  <2> HIDE DEF s, cite
  <2>6. /\ \A x \in Claims \cup Inferences : x # e => s.val[x] = work.val[x]
        /\ s.val[e] = "formally_verified"
    BY <2>2 DEF TablesOK
  <2>7. Raising(s, {cite})
    BY <2>5, <2>6 DEF Raising
  <2>8. Calm(s) /\ Growing(s)
    BY <2>2, <2>5, <2>6, CertifiedChoices, SameRecord DEF Calm, Absent
  <2>9. Lawful(s, {cite})
    BY <2>2, <2>3, <2>4, <2>7, <2>8, CalmWithdrawsNothing DEF Lawful
  <2> QED
    BY <2>1, <2>9 DEF LawfulWrite
<1>4. ASSUME NEW e \in Claims \cup Inferences, Refute(e)
      PROVE  LawfulWrite
  <2> DEFINE refuted == [work EXCEPT !.val[e] = "refuted"]
             s == IF e \in Claims THEN InvalidateDependents(refuted, {e}, {}) ELSE refuted
             cite == Cite(e, "refutation", TRUE)
  <2>1. Write("propose_status_transition", s, {cite})
    BY <1>4 DEF Refute
  <2>2. TablesOK(refuted) /\ refuted.certs = work.certs
        /\ refuted.val = [work.val EXCEPT ![e] = "refuted"]
        /\ refuted.life = work.life /\ refuted.debt = work.debt /\ work.val[e] # Absent
    BY <1>4 DEF TablesOK, Validation, Refute
  <2>10. Present(refuted) = Present(work)
    BY <2>2 DEF Present, TablesOK, Absent
  <2> HIDE DEF refuted
  <2>3. /\ TablesOK(s) /\ s.certs = work.certs /\ s.debt = work.debt
        /\ \A x \in Claims \cup Inferences :
             s.val[x] = refuted.val[x] \/ (s.val[x] = "challenged" /\ refuted.val[x] \in Verified)
        /\ \A x \in Claims : s.life[x] = work.life[x] \/ s.life[x] = "active"
        /\ e \in Claims => VerifiedIn(s, Downstream(work, {e})) = {}
    <3> DEFINE t == InvalidateDependents(refuted, {e}, {})
    <3>1. /\ TablesOK(t) /\ t.certs = refuted.certs /\ t.debt = refuted.debt
          /\ \A x \in Claims \cup Inferences :
               t.val[x] = refuted.val[x] \/ (t.val[x] = "challenged" /\ refuted.val[x] \in Verified)
          /\ \A x \in Claims \cup Routes : t.life[x] = refuted.life[x] \/ t.life[x] = "active"
          /\ VerifiedIn(t, Downstream(refuted, {e} \cup {Concl[i] : i \in {}})) = {}
      <4>1. TablesOK(refuted)
        BY <2>2
      <4> QED
        BY ONLY <4>1, InvalidateDependentsEffect
    <3>2. {e} \cup {Concl[i] : i \in {}} = {e}
      OBVIOUS
    <3>3. VerifiedIn(t, Downstream(work, {e})) = {}
      BY <2>10, <3>1, <3>2, DownstreamOfRecord
    <3> HIDE DEF t
    <3>4. IF e \in Claims THEN s = t ELSE s = refuted
      BY DEF t
    <3> HIDE DEF s
    <3> QED
      BY <2>2, <3>1, <3>3, <3>4
  <2>4. cite \in [ent : Entities, outcome : Outcome, targeted : BOOLEAN] /\ cite.ent = e
    BY CiteType DEF Entities, Outcome, Cite
  <2>5. patch.role \in VerifyingRoles
    BY <1>4 DEF Refute, VerifyingRoles
  <2> HIDE DEF s, cite
  <2>6. \A x \in Claims \cup Inferences :
          x # e => s.val[x] = work.val[x] \/ (s.val[x] = "challenged" /\ work.val[x] \in Verified)
    BY <2>2, <2>3 DEF TablesOK
  <2>7. s.val[e] # Absent
    BY <2>2, <2>3 DEF TablesOK, Absent
  <2>8. Raising(s, {cite}) /\ Refuting(s, {cite})
    BY <2>3, <2>4, <2>6, CertifiedChoices DEF Raising, Refuting, Open
  <2>9. Growing(s)
    BY <2>2, <2>6, <2>7, SameRecord DEF Verified, Absent
  <2>11. Withdrawing(s)
    BY <2>3, <2>6 DEF Withdrawing, Falls
  <2>12. Lawful(s, {cite})
    BY <2>3, <2>4, <2>5, <2>8, <2>9, <2>11 DEF Lawful
  <2> QED
    BY <2>1, <2>12 DEF LawfulWrite
<1>5. ASSUME NEW c \in Claims, NEW st \in LifeChoices, SetLifecycle(c, st)
      PROVE  LawfulWrite
  <2> DEFINE moved == [work EXCEPT !.life[c] = st]
             s == IF st = "superseded" THEN InvalidateDependents(moved, {c}, {}) ELSE moved
             cites == Evidence(c, "positive")
  <2>1. Write("propose_status_transition", s, cites)
    BY <1>5 DEF SetLifecycle
  <2>2. TablesOK(moved) /\ moved.certs = work.certs /\ moved.val = work.val
        /\ moved.debt = work.debt /\ moved.life = [work.life EXCEPT ![c] = st]
    BY BoundsAssumption DEF TablesOK
  <2> HIDE DEF moved
  <2>3. /\ TablesOK(s) /\ s.certs = work.certs /\ s.debt = work.debt
        /\ \A x \in Claims \cup Inferences :
             s.val[x] = work.val[x] \/ (s.val[x] = "challenged" /\ work.val[x] \in Verified)
        /\ \A x \in Claims : s.life[x] = moved.life[x] \/ s.life[x] = "active"
        /\ st = "superseded" => VerifiedIn(s, Downstream(work, {c})) = {}
    <3>1. CASE st = "superseded"
      <4> DEFINE t == InvalidateDependents(moved, {c}, {})
      <4>5. s = t
        BY <3>1
      <4>1. /\ TablesOK(t) /\ t.certs = moved.certs /\ t.debt = moved.debt
            /\ \A x \in Claims \cup Inferences :
                 t.val[x] = moved.val[x] \/ (t.val[x] = "challenged" /\ moved.val[x] \in Verified)
            /\ \A x \in Claims \cup Routes : t.life[x] = moved.life[x] \/ t.life[x] = "active"
            /\ VerifiedIn(t, Downstream(moved, {c} \cup {Concl[i] : i \in {}})) = {}
        <5>1. TablesOK(moved)
          BY <2>2
        <5> QED
          BY ONLY <5>1, InvalidateDependentsEffect
      <4> HIDE DEF s, t
      <4>2. {c} \cup {Concl[i] : i \in {}} = {c}
        OBVIOUS
      <4>3. Present(moved) = Present(work)
        BY <2>2 DEF Present
      <4>4. VerifiedIn(t, Downstream(work, {c})) = {}
        BY <4>1, <4>2, <4>3, DownstreamOfRecord
      <4> QED
        BY <2>2, <4>1, <4>4, <4>5
    <3>2. CASE st # "superseded"
      BY <2>2, <3>2
    <3> QED
      BY <3>1, <3>2
  <2>4. /\ cites \in SUBSET [ent : Entities, outcome : Outcome, targeted : BOOLEAN]
        /\ cites # {} => patch.role \in VerifyingRoles
    BY EvidenceType DEF Entities, Outcome
  <2> HIDE DEF s, cites
  <2>5. \A x \in Claims : x # c => moved.life[x] = work.life[x]
    BY <2>2 DEF TablesOK
  <2>6. Raising(s, cites) /\ Refuting(s, cites)
    BY <2>3, CertifiedChoices DEF Raising, Refuting, Open
  <2>7. Growing(s)
    BY <2>3, SameRecord DEF Verified, Absent
  <2>8. Withdrawing(s)
    <3>1. moved.life[c] = st
      BY <2>2 DEF TablesOK
    <3> QED
      BY <2>3, <2>5, <3>1 DEF Withdrawing, Falls
  <2>9. Lawful(s, cites)
    BY <2>3, <2>4, <2>6, <2>7, <2>8 DEF Lawful
  <2> QED
    BY <2>1, <2>9 DEF LawfulWrite
<1>6. ASSUME NEW r \in Routes, NEW resolved \in SUBSET Debts, NEW fresh \in BOOLEAN,
             IntegrateClaim(r, resolved, fresh)
      PROVE  LawfulWrite
  <2> DEFINE c == RouteConcl[r]
             s == [Integrate(work, c, r, resolved) EXCEPT !.reports = @ \cup {r}]
             cites == IF fresh THEN {Cite(c, "positive", TRUE), Cite(r, "positive", TRUE)} ELSE {}
  <2>1. Write("propose_status_transition", s, cites)
    BY <1>6 DEF IntegrateClaim
  <2>2. c \in Claims
    BY GraphAssumption
  <2>3. /\ TablesOK(s) /\ s.certs = work.certs /\ s.val = work.val
        /\ \A x \in Claims : s.life[x] = work.life[x] \/ s.life[x] = "integrated"
        /\ \A d \in Debts : s.debt[d] = work.debt[d] \/ s.debt[d] = "resolved"
    BY <2>2, IntegrateEffect
  <2>4. cites \in SUBSET [ent : Entities, outcome : Outcome, targeted : BOOLEAN]
    <3>1. /\ Cite(c, "positive", TRUE) \in [ent : Entities, outcome : Outcome, targeted : BOOLEAN]
          /\ Cite(r, "positive", TRUE) \in [ent : Entities, outcome : Outcome, targeted : BOOLEAN]
      BY <2>2, CiteType DEF Entities, Outcome
    <3> QED
      BY <3>1
  <2>5. patch.role \in VerifyingRoles
    BY <1>6 DEF IntegrateClaim, VerifyingRoles
  <2> HIDE DEF s, cites
  <2>6. Calm(s) /\ Growing(s) /\ Raising(s, cites)
    BY <2>3, SameRecord DEF Calm, Raising
  <2>7. Lawful(s, cites)
    BY <2>3, <2>4, <2>5, <2>6, CalmWithdrawsNothing DEF Lawful
  <2> QED
    BY <2>1, <2>7 DEF LawfulWrite
<1>7. ASSUME NEW c \in Claims, NEW i \in Inferences, CertifyExternalCitation(c, i)
      PROVE  LawfulWrite
  <2> DEFINE r == RouteOf[i]
             V == [work.val EXCEPT ![c] = "informally_verified", ![i] = "informally_verified"]
             s == [work EXCEPT !.val = V,
                               !.life[r] = IF @ = Absent THEN "active" ELSE @,
                               !.sufficient = IF work.life[r] = Absent THEN @ \cup {r} ELSE @]
             cites == {Cite(e, "positive", TRUE) : e \in {c, i, r}}
  <2>1. Write("certify_external_citation", s, cites)
    BY <1>7 DEF CertifyExternalCitation
  <2>2. r \in Routes
    BY GraphAssumption
  <2>3. /\ V \in [Claims \cup Inferences -> Validation \cup {Absent}]
        /\ \A e \in Claims \cup Inferences : e \notin {c, i} => V[e] = work.val[e]
        /\ V[c] = "informally_verified" /\ V[i] = "informally_verified"
    BY IdentifiersAssumption DEF TablesOK, Validation, Verified
  <2> HIDE DEF V
  <2>4. TablesOK(s) /\ s.certs = work.certs /\ s.val = V /\ s.debt = work.debt
        /\ s.life = [work.life EXCEPT ![r] = IF @ = Absent THEN "active" ELSE @]
    BY <2>2, <2>3 DEF TablesOK, Lifecycle
  <2>11. \A x \in Claims : s.life[x] = work.life[x]
    BY <2>2, <2>4, IdentifiersAssumption DEF TablesOK
  <2>5. cites \in SUBSET [ent : Entities, outcome : Outcome, targeted : BOOLEAN]
    <3>1. ASSUME NEW e \in {c, i, r}
          PROVE  Cite(e, "positive", TRUE) \in [ent : Entities, outcome : Outcome, targeted : BOOLEAN]
      BY <2>2, CiteType DEF Entities, Outcome
    <3> QED
      BY <3>1
  <2>6. c \in {x.ent : x \in cites} /\ i \in {x.ent : x \in cites}
    <3>1. Cite(c, "positive", TRUE) \in cites /\ Cite(i, "positive", TRUE) \in cites
      OBVIOUS
    <3>2. Cite(c, "positive", TRUE).ent = c /\ Cite(i, "positive", TRUE).ent = i
      BY DEF Cite
    <3> QED
      BY <3>1, <3>2
  <2>7. patch.role \in VerifyingRoles
    BY <1>7 DEF CertifyExternalCitation, VerifyingRoles
  <2> HIDE DEF s, cites
  <2>8. Raising(s, cites) /\ Calm(s)
    <3>1. \A e \in Claims \cup Inferences :
            s.val[e] = work.val[e] \/ (s.val[e] = "informally_verified" /\ e \in {c, i})
      BY <2>3, <2>4
    <3> QED
      BY <2>4, <2>6, <2>11, <3>1 DEF Raising, Calm
  <2>9. Growing(s)
    <3>1. work.val[i] = Absent => Premises[i] = {}
      BY <1>7 DEF CertifyExternalCitation, DependsOn
    <3>2. \A x \in Present(s) : x = i \/ x \in Present(work)
      BY <2>3, <2>4, IdentifiersAssumption DEF Present
    <3>3. \A e \in Claims \cup Inferences : work.val[e] # Absent => s.val[e] # Absent
      <4>1. \A e \in Claims \cup Inferences : s.val[e] = work.val[e] \/ s.val[e] = "informally_verified"
        BY <2>3, <2>4
      <4> QED
        BY <4>1 DEF Absent
    <3> QED
      BY <3>1, <3>2, <3>3 DEF Growing, Present
  <2>10. Lawful(s, cites)
    BY <2>4, <2>5, <2>7, <2>8, <2>9, CalmWithdrawsNothing DEF Lawful
  <2> QED
    BY <2>1, <2>10 DEF LawfulWrite
<1> QED
  BY <1>1, <1>2, <1>3, <1>4, <1>5, <1>6, <1>7 DEF StatusTransition

\* Every operation of a patch is lawful.
LEMMA OperationLawful ==
  ASSUME TypeInv, GraphOperation \/ DebtOperation \/ StatusTransition
  PROVE  LawfulWrite
BY GraphOperationLawful, DebtOperationLawful, StatusTransitionLawful

\* SealEffect for the patch that is open.
LEMMA CommitSeals ==
  ASSUME TypeInv
  PROVE  LET sealed == Seal(db, work, patch)
             u == ReconcileInvalidIntegrations(work)
             w == RebaseDependencyLifecycleBindings(db, u)
             new == {c \in patch.cites : EntityStatus(w, c.ent) \in CertifiedStatus}
         IN /\ TablesOK(sealed) /\ SameContent(work, sealed) /\ sealed.life = u.life
            /\ TablesOK(u) /\ SameContent(work, u) /\ SameTerms(work, u)
            /\ TablesOK(w) /\ SameContent(work, w) /\ SameTables(u, w) /\ w.life = u.life
            /\ sealed.certs = {Rebased(db, u, b) : b \in work.certs}
                               \cup {Binding(w, patch, c) : c \in new}
            /\ sealed.blocking = work.blocking /\ sealed.heterogeneous = work.heterogeneous
            /\ \A d \in Debts :
                 \/ sealed.debt[d] = work.debt[d]
                 \/ /\ work.debt[d] = "refuted" /\ sealed.debt[d] = "active"
                    /\ d \notin {c.ent : c \in patch.cites}
<1>1. TablesOK(work) /\ patch \in Patches /\ (patch.cites # {} => patch.role \in VerifyingRoles)
  BY DEF TypeInv, TypeOK
<1> QED
  BY ONLY <1>1, SealEffect

\* Sealing keeps types, and a commit happens only below the last revision.
LEMMA CommitKeepsTypes ==
  ASSUME TypeInv, Commit
  PROVE  TypeInv'
<1> DEFINE sealed == Seal(db, work, patch)
<1>1. TablesOK(sealed)
  BY SealEffect DEF TypeInv, TypeOK
<1> HIDE DEF sealed
<1>2. db' = sealed /\ work' = sealed /\ patch' = NoPatch /\ revision' = revision + 1
  BY DEF Commit, sealed
<1>3. revision + 1 \in 0..MaxRevision
  BY BoundsAssumption DEF Commit, TypeInv, TypeOK
<1>4. bound' \subseteq Entities
  <2>1. \A c \in patch.cites : c.ent \in Entities
    BY DEF TypeInv, TypeOK, Patches
  <2>2. bound' \subseteq {c.ent : c \in patch.cites}
    BY DEF Commit
  <2> QED
    BY <2>1, <2>2
<1> QED
  BY <1>1, <1>2, <1>3, <1>4, NoPatchType DEF TypeInv, TypeOK

\* A patch opens without citations.
LEMMA BeginKeepsTypes ==
  ASSUME TypeInv, NEW role \in VerifyingRoles \cup {"researcher", "host"},
         NEW family \in Families \cup {Unreviewed}, Begin(role, family)
  PROVE  TypeInv'
<1>1. patch' = [open |-> TRUE, role |-> role, family |-> family, cites |-> {}, ops |-> 0]
  BY DEF Begin, NoPatch
<1>2. patch' \in Patches /\ patch'.cites = {} /\ patch'.open
  BY <1>1, BoundsAssumption DEF Patches
<1> QED
  BY <1>1, <1>2 DEF Begin, TypeInv, TypeOK

\* TypeInv is inductive.
LEMMA TypeNext == TypeInv /\ [Next]_vars => TypeInv'
<1> SUFFICES ASSUME TypeInv, [Next]_vars PROVE TypeInv'
  OBVIOUS
<1>1. ASSUME NEW role \in Roles \cap VerifyingRoles, NEW family \in Families, Begin(role, family)
      PROVE  TypeInv'
  BY <1>1, BeginKeepsTypes
<1>2. ASSUME NEW role \in Roles \ VerifyingRoles, Begin(role, Unreviewed)
      PROVE  TypeInv'
  <2>1. role \in VerifyingRoles \cup {"researcher", "host"}
    BY BoundsAssumption
  <2> QED
    BY <1>2, <2>1, BeginKeepsTypes
<1>3. CASE GraphOperation \/ DebtOperation \/ StatusTransition
  BY <1>3, OperationLawful, WriteKeepsTypes DEF LawfulWrite, Lawful
<1>4. CASE Commit
  BY <1>4, CommitKeepsTypes
<1>5. CASE Reject
  BY <1>5, NoPatchType DEF Reject, TypeInv, TypeOK
<1>6. CASE UNCHANGED vars
  BY <1>6 DEF vars, TypeInv, TypeOK, TablesOK
<1> QED
  BY <1>1, <1>2, <1>3, <1>4, <1>5, <1>6 DEF Next

\* TypeInv holds throughout.
LEMMA TypeInvariant == Spec => []TypeInv
BY TypeInit, TypeNext, PTL DEF Spec

\* The tables, the open patch and the history always have their types, for
\* every proof graph, set of roles and bound (patches.py, apply_patch).
THEOREM TypeCorrect == Spec => []TypeOK
<1>1. TypeInv => TypeOK
  BY DEF TypeInv
<1> QED
  BY <1>1, TypeInvariant, PTL

-----------------------------------------------------------------------------
(* Reinstatement *)

\* While a patch is open, a claim or inference whose status it raised to a
\* certified one is cited by the patch.
PendingReview ==
  \A e \in Claims \cup Inferences :
    work.val[e] \in CertifiedStatus /\ db.val[e] \notin CertifiedStatus
    => e \in Cited(patch)

\* An operation that raises a status cites what it raised.
LEMMA WriteKeepsPending ==
  ASSUME TypeInv, PendingReview, NEW op, NEW s, NEW cites, Write(op, s, cites), Lawful(s, cites)
  PROVE  PendingReview'
<1>1. db' = db /\ work' = s
  BY DEF Write
<1>2. patch'.cites = patch.cites \cup cites
  BY DEF Write, TypeInv, TypeOK, Patches
<1>3. Cited(patch)' = Cited(patch) \cup {c.ent : c \in cites}
  BY <1>2 DEF Cited
<1> QED
  BY <1>1, <1>3 DEF PendingReview, Lawful, Raising

\* PendingReview is preserved by every step.
LEMMA PendingNext == TypeInv /\ PendingReview /\ [Next]_vars => PendingReview'
<1> SUFFICES ASSUME TypeInv, PendingReview, [Next]_vars PROVE PendingReview'
  OBVIOUS
<1>1. ASSUME NEW role, NEW family, Begin(role, family)
      PROVE  PendingReview'
  BY <1>1 DEF Begin, TypeInv, PendingReview
<1>2. CASE GraphOperation \/ DebtOperation \/ StatusTransition
  BY <1>2, OperationLawful, WriteKeepsPending DEF LawfulWrite
<1>3. CASE Commit
  BY <1>3 DEF Commit, PendingReview
<1>4. CASE Reject
  BY <1>4 DEF Reject, PendingReview
<1>5. CASE UNCHANGED vars
  BY <1>5 DEF vars, PendingReview, Cited
<1> QED
  BY <1>1, <1>2, <1>3, <1>4, <1>5 DEF Next

\* At a commit, what the patch raised is what it certifies.
LEMMA CommitReinstates ==
  ASSUME TypeInv, PendingReview, Commit,
         NEW e \in Claims \cup Inferences, db.val[e] \in Open, db'.val[e] \in Verified
  PROVE  e \in bound'
<1> DEFINE sealed == Seal(db, work, patch)
<1>1. TablesOK(sealed) /\ sealed.val = work.val
  <2>1. SameContent(work, sealed) /\ TablesOK(sealed)
    BY SealEffect DEF TypeInv, TypeOK
  <2> QED
    BY <2>1 DEF SameContent
<1>2. bound' = {x \in Cited(patch) : EntityStatus(sealed, x) \in CertifiedStatus}
      /\ db' = sealed
  BY DEF Commit, Cited
<1> HIDE DEF sealed
<1>3. e \in Cited(patch)
  BY <1>1, <1>2, CertifiedChoices DEF PendingReview
<1>4. EntityStatus(sealed, e) \in CertifiedStatus
  BY <1>1, <1>2, IdentifiersAssumption DEF EntityStatus, CertifiedStatus
<1> QED
  BY <1>2, <1>3, <1>4

\* No commit makes a claim or inference verified without a review of it in that
\* very patch, unless it already stood certified: an old certificate cannot
\* reinstate a withdrawn status (patches.py, _artifact_is_bound_to_entity).
THEOREM ReinstatementNeedsReview == Spec => ReinstatedByReview
<1> DEFINE Step == \A e \in Claims \cup Inferences :
                     db.val[e] \in Open /\ db'.val[e] \in Verified => e \in bound'
<1>1. Init => PendingReview
  BY DEF Init, PendingReview
<1>2. TypeInv /\ PendingReview /\ [Next]_vars => [Step]_vars
  <2> SUFFICES ASSUME TypeInv, PendingReview, Next,
                      NEW e \in Claims \cup Inferences,
                      db.val[e] \in Open, db'.val[e] \in Verified
               PROVE  e \in bound'
    OBVIOUS
  <2>1. CASE Commit
    BY <2>1, CommitReinstates
  <2>2. CASE db' = db
    BY <2>2 DEF Open, Verified
  <2>3. Commit \/ db' = db
    BY OperationLawful DEF Next, Begin, Reject, LawfulWrite, Write
  <2> QED
    BY <2>1, <2>2, <2>3
<1> QED
  BY <1>1, <1>2, TypeInvariant, PendingNext, PTL DEF Spec, ReinstatedByReview

-----------------------------------------------------------------------------
(* Reviews and what they were about *)

\* The configuration a certificate of an inference testifies to.
Judged(b) ==
  [ent |-> b.ent, subject |-> b.subject,
   truth |-> [p \in DependsOn(b.ent) |-> Truth(b.deps[p][2])]]

\* A certificate of an inference covers all the inference rests on and
\* testifies to a configuration in which it was reviewed.
Testifies(b, configurations) ==
  b.ent \in Inferences => DependsOn(b.ent) \subseteq DOMAIN b.deps /\ Judged(b) \in configurations

IntegratedVerified(s) == \A c \in Claims : s.life[c] = "integrated" => s.val[c] \in Verified

\* An open patch changes no certificate, every certificate testifies, and the
\* committed tables have the two facts of their validation that are needed to
\* read a current certificate as a statement about them.
ReviewInv ==
  /\ work.certs = db.certs
  /\ \A b \in db.certs : Testifies(b, reviewed)
  /\ IntegratedVerified(db)
  /\ \A i \in VerifiedIn(db, Inferences) : HasCertificate(db, i, ReviewKinds)

\* Promotion to an integration does not change what a premise is worth.
LEMMA TruthOfStatus ==
  ASSUME NEW s, TablesOK(s), IntegratedVerified(s), NEW c \in Claims
  PROVE  Truth(EntityStatus(s, c)) = Truth(s.val[c])
BY IdentifiersAssumption DEF Truth, EntityStatus, IntegratedVerified

\* Reading one entry of a dependency digest.
LEMMA ViewAt ==
  ASSUME NEW s, NEW D, NEW V, NEW d \in D
  PROVE  View(s, D, V)[d][2] = IF d \in V THEN s.val[d] ELSE EntityStatus(s, d)
BY DEF View

\* A digest taken of the present tables testifies to the present configuration.
LEMMA JudgedView ==
  ASSUME NEW s, TablesOK(s), IntegratedVerified(s), NEW b, b.ent \in Inferences,
         DependsOn(b.ent) \subseteq DOMAIN b.deps, b.deps = View(s, DOMAIN b.deps, {}),
         b.subject = Subject(s, b.ent)
  PROVE  Judged(b) = Configuration(s, b.ent)
<1>1. ASSUME NEW p \in DependsOn(b.ent)
      PROVE  Truth(b.deps[p][2]) = Truth(s.val[p])
  <2>1. p \in Claims
    BY DependsOnType
  <2>2. b.deps[p][2] = EntityStatus(s, p)
    BY ViewAt
  <2> QED
    BY <2>1, <2>2, TruthOfStatus
<1> QED
  BY <1>1 DEF Judged, Configuration

\* A rebased certificate testifies to what it testified to before.
LEMMA RebasedTestifies ==
  ASSUME NEW before, NEW s, TablesOK(s), NEW b, CertificateOK(b), NEW R, Testifies(b, R)
  PROVE  Testifies(Rebased(before, s, b), R)
<1> DEFINE n == Rebased(before, s, b)
           promoted == Promoted(before, s)
<1>1. n.ent = b.ent /\ n.subject = b.subject /\ DOMAIN n.deps = DOMAIN b.deps
  BY RebasedType
<1>2. SUFFICES ASSUME b.ent \in Inferences PROVE Judged(n) = Judged(b)
  BY <1>1 DEF Testifies
<1>3. DependsOn(b.ent) \subseteq DOMAIN b.deps
  BY <1>2 DEF Testifies
<1>4. CASE Carried(before, s, b)
  <2>1. b.deps = View(s, DOMAIN b.deps, promoted)
    BY <1>4 DEF Carried
  <2>2. n.deps = View(s, DOMAIN b.deps, {})
    BY <1>4 DEF Rebased, CertificateOK
  <2>3. ASSUME NEW p \in DependsOn(b.ent)
        PROVE  Truth(n.deps[p][2]) = Truth(b.deps[p][2])
    <3>1. p \in DOMAIN b.deps /\ p \in Claims
      BY <1>2, <1>3, DependsOnType
    <3>2. n.deps[p][2] = EntityStatus(s, p)
      BY <2>2, <3>1, ViewAt
    <3>3. b.deps[p][2] = IF p \in promoted THEN s.val[p] ELSE EntityStatus(s, p)
      BY <2>1, <3>1, ViewAt
    <3>4. p \in promoted => s.val[p] \in Verified /\ EntityStatus(s, p) = "integrated"
      BY <3>1, IdentifiersAssumption DEF Promoted, EntityStatus
    <3> HIDE DEF n, promoted
    <3> QED
      BY <3>2, <3>3, <3>4 DEF Truth
  <2> HIDE DEF n
  <2> QED
    BY <1>1, <2>3 DEF Judged
<1>5. CASE ~Carried(before, s, b)
  BY <1>5 DEF Rebased
<1> QED
  BY <1>4, <1>5

\* After a commit old certificates testify as before and new ones to a
\* configuration the commit reviewed.
LEMMA CommitTestifies ==
  ASSUME TypeInv, ReviewInv, Commit
  PROVE  ReviewInv'
<1> DEFINE sealed == Seal(db, work, patch)
           u == ReconcileInvalidIntegrations(work)
           w == RebaseDependencyLifecycleBindings(db, u)
           new == {c \in patch.cites : EntityStatus(w, c.ent) \in CertifiedStatus}
<1>1. /\ TablesOK(sealed) /\ SameContent(work, sealed) /\ sealed.life = u.life
      /\ TablesOK(u) /\ SameContent(work, u)
      /\ TablesOK(w) /\ SameContent(work, w) /\ w.life = u.life
      /\ sealed.certs = {Rebased(db, u, b) : b \in work.certs} \cup {Binding(w, patch, c) : c \in new}
  <2>1. TablesOK(work) /\ patch \in Patches /\ (patch.cites # {} => patch.role \in VerifyingRoles)
    BY DEF TypeInv, TypeOK
  <2> QED
    BY ONLY <2>1, SealEffect
<1>2. /\ db' = sealed /\ work' = sealed /\ Valid(sealed)
      /\ reviewed' = reviewed \cup
           {Configuration(sealed, i) : i \in {e \in Cited(patch) : EntityStatus(sealed, e) \in CertifiedStatus}
                                             \cap Inferences}
  BY DEF Commit, Cited
<1> HIDE DEF sealed, u, w
<1>3. IntegratedVerified(sealed) /\ \A i \in VerifiedIn(sealed, Inferences) : HasCertificate(sealed, i, ReviewKinds)
  BY <1>2 DEF Valid, CertifiedClaimValid, VerifiedInferenceValid, IntegratedVerified
<1>4. ASSUME NEW b \in work.certs
      PROVE  Testifies(Rebased(db, u, b), reviewed')
  <2>1. CertificateOK(b)
    BY DEF TypeInv, TypeOK, TablesOK
  <2>2. Testifies(b, reviewed')
    BY <1>2 DEF ReviewInv, Testifies
  <2> QED
    BY <1>1, <2>1, <2>2, RebasedTestifies
<1>5. ASSUME NEW c \in new
      PROVE  Testifies(Binding(w, patch, c), reviewed')
  <2> DEFINE b == Binding(w, patch, c)
             i == c.ent
  <2>1. b.ent = i /\ b.subject = Subject(w, i) /\ b.deps = View(w, Closure(w, i), {})
        /\ DOMAIN b.deps = Closure(w, i)
    BY DEF Binding, View
  <2>2. SUFFICES ASSUME i \in Inferences
                 PROVE  DependsOn(i) \subseteq Closure(w, i) /\ Judged(b) \in reviewed'
    BY <2>1 DEF Testifies
  <2>3. DependsOn(i) \subseteq Closure(w, i)
    BY <2>2, ClosureOfInference
  <2>4. w.val = sealed.val /\ w.text = sealed.text /\ w.sufficient = sealed.sufficient
        /\ w.life = sealed.life
    BY <1>1 DEF SameContent
  <2>5. IntegratedVerified(w)
    BY <1>3, <2>4 DEF IntegratedVerified
  <2> HIDE DEF b
  <2>6. Judged(b) = Configuration(w, i)
    BY <1>1, <2>1, <2>2, <2>3, <2>5, JudgedView
  <2>7. Configuration(w, i) = Configuration(sealed, i)
    BY <2>4 DEF Configuration, Subject
  <2>8. i \in Cited(patch) /\ EntityStatus(w, i) \in CertifiedStatus
    BY DEF Cited
  <2>9. EntityStatus(sealed, i) = EntityStatus(w, i)
    BY <2>2, <2>4, IdentifiersAssumption DEF EntityStatus
  <2> QED
    BY <1>2, <2>2, <2>3, <2>6, <2>7, <2>8, <2>9
<1>6. \A b \in sealed.certs : Testifies(b, reviewed')
  BY <1>1, <1>4, <1>5
<1> QED
  BY <1>2, <1>3, <1>6 DEF ReviewInv

\* ReviewInv is preserved by every step.
LEMMA ReviewNext == TypeInv /\ ReviewInv /\ [Next]_vars => ReviewInv'
<1> SUFFICES ASSUME TypeInv, ReviewInv, [Next]_vars PROVE ReviewInv'
  OBVIOUS
<1>1. CASE Commit
  BY <1>1, CommitTestifies
<1>2. CASE GraphOperation \/ DebtOperation \/ StatusTransition
  BY <1>2, OperationLawful DEF LawfulWrite, Lawful, Write, ReviewInv
<1>3. CASE Reject
  BY <1>3 DEF Reject, ReviewInv
<1>4. ASSUME NEW role, NEW family, Begin(role, family)
      PROVE  ReviewInv'
  BY <1>4 DEF Begin, ReviewInv
<1>5. CASE UNCHANGED vars
  BY <1>5 DEF vars, ReviewInv
<1> QED
  BY <1>1, <1>2, <1>3, <1>4, <1>5 DEF Next

\* Nothing is certified at the start.
LEMMA ReviewInit == Init => ReviewInv
<1> SUFFICES ASSUME Init PROVE ReviewInv
  OBVIOUS
<1>1. db.certs = {} /\ work.certs = {}
  BY DEF Init
<1>2. IntegratedVerified(db)
  BY DEF Init, IntegratedVerified, Absent
<1>3. VerifiedIn(db, Inferences) = {}
  BY DEF Init, VerifiedIn, Verified, Absent
<1> QED
  BY <1>1, <1>2, <1>3 DEF ReviewInv

\* A current certificate testifies to the present configuration.
LEMMA ReviewInvImplies ==
  ASSUME TypeInv, ReviewInv
  PROVE  ReviewedAsItStands
<1> SUFFICES ASSUME NEW i \in VerifiedIn(db, Inferences)
             PROVE  Configuration(db, i) \in reviewed
  BY DEF ReviewedAsItStands
<1>1. PICK b \in db.certs : b.ent = i /\ Current(db, b)
  BY DEF ReviewInv, HasCertificate
<1>2. i \in Inferences /\ DependsOn(i) \subseteq DOMAIN b.deps /\ Judged(b) \in reviewed
  BY <1>1 DEF VerifiedIn, ReviewInv, Testifies
<1>3. Judged(b) = Configuration(db, i)
  BY <1>1, <1>2, JudgedView DEF Current, TypeInv, TypeOK, ReviewInv
<1> QED
  BY <1>2, <1>3

\* Whatever the proof graph and however patches interleave, a verified
\* inference was reviewed with its present text and with each premise and
\* condition standing as it does now (certificates.py).
THEOREM ReviewsStand == Spec => []ReviewedAsItStands
<1>1. Init => ReviewInv
  BY ReviewInit
<1>2. TypeInv /\ ReviewInv => ReviewedAsItStands
  BY ReviewInvImplies
<1> QED
  BY <1>1, <1>2, TypeInvariant, ReviewNext, PTL DEF Spec

-----------------------------------------------------------------------------
(* Heterogeneous review *)

\* What the validation of a commit says of an integrated claim: some route to it
\* is integrated, and the review of every such route satisfies its assurance.
AssuredInv ==
  /\ \A c \in Claims : db.life[c] = "integrated" =>
       \E r \in Routes : RouteConcl[r] = c /\ db.life[r] = "integrated"
  /\ \A r \in Routes : db.life[r] = "integrated" =>
       ClaimAssuranceSatisfied(db, RouteConcl[r], r)

\* Validation establishes it, and nothing but a commit changes the tables.
LEMMA AssuredNext == TypeInv /\ AssuredInv /\ [Next]_vars => AssuredInv'
<1> SUFFICES ASSUME TypeInv, AssuredInv, [Next]_vars PROVE AssuredInv'
  OBVIOUS
<1>1. CASE Commit
  <2> DEFINE sealed == Seal(db, work, patch)
  <2>1. db' = sealed /\ Valid(sealed) /\ TablesOK(sealed)
    BY <1>1, SealEffect DEF Commit, TypeInv, TypeOK
  <2> HIDE DEF sealed
  <2>2. sealed.sufficient \subseteq Routes
    BY <2>1 DEF TablesOK
  <2>3. ASSUME NEW c \in Claims, sealed.life[c] = "integrated"
        PROVE  \E r \in Routes : RouteConcl[r] = c /\ sealed.life[r] = "integrated"
    BY <2>1, <2>2, <2>3 DEF Valid, CertifiedClaimValid
  <2>4. ASSUME NEW r \in Routes, sealed.life[r] = "integrated"
        PROVE  ClaimAssuranceSatisfied(sealed, RouteConcl[r], r)
    <3>1. r \in sealed.sufficient /\ sealed.life[RouteConcl[r]] = "integrated"
      BY <2>1, <2>4 DEF Valid, IntegratedRouteValid
    <3>2. RouteConcl[r] \in Claims
      BY GraphAssumption
    <3> QED
      BY <2>1, <2>4, <3>1, <3>2 DEF Valid, CertifiedClaimValid
  <2> QED
    BY <2>1, <2>3, <2>4 DEF AssuredInv
<1>2. CASE db' = db
  BY <1>2 DEF AssuredInv
<1>3. Commit \/ db' = db
  BY OperationLawful DEF Next, Begin, Reject, LawfulWrite, Write, vars
<1> QED
  BY <1>1, <1>2, <1>3

\* Two families that covered a route are two that reviewed each of its steps.
LEMMA CoveredByBoth ==
  ASSUME NEW F, IsFiniteSet(F), NEW C, C \subseteq F, Cardinality(C) >= 2
  PROVE  Cardinality(F) >= 2
<1>1. Cardinality(F) \in Nat /\ Cardinality(C) \in Nat /\ Cardinality(C) <= Cardinality(F)
  BY FS_Subset, FS_CardinalityType
<1> QED
  BY <1>1

\* The designation is honoured in every such state.
LEMMA AssuredInvImplies ==
  ASSUME TypeInv, AssuredInv
  PROVE  HeterogeneousReview
<1> DEFINE on(e) == {b \in db.certs : b.ent = e /\ b.kind \in ReviewKinds}
           families(e) == {b.family : b \in on(e)}
<1> SUFFICES ASSUME NEW c \in db.heterogeneous, db.life[c] = "integrated",
                    ~ \E b \in on(c) : b.kind = "formal_backend_result",
                    families(c) \cap HumanFamilies = {},
                    NEW i \in VerifiedIn(db, Inferences), Concl[i] = c,
                    RouteConcl[RouteOf[i]] = c, db.life[RouteOf[i]] = "integrated"
             PROVE  Cardinality(families(c) \cap families(i) \cap ModelFamilies) >= 2
  BY DEF HeterogeneousReview
<1> DEFINE r == RouteOf[i]
           covers(f) == \A e \in {c} \cup RouteInferences(db, r) :
             \E b \in db.certs : /\ b.ent = e /\ b.family = f
                                /\ b.kind \in ReviewKinds /\ Current(db, b)
           covering == {f \in ModelFamilies : covers(f)}
           both == families(c) \cap families(i) \cap ModelFamilies
<1>1. i \in RouteInferences(db, r)
  BY DEF VerifiedIn, Verified, RouteInferences, Present, Absent
<1>2. \A f : covers(f) => f \in families(c) /\ f \in families(i)
  BY <1>1
<1>3. Cardinality(covering) >= 2
  <2>1. ClaimAssuranceSatisfied(db, c, r)
    BY GraphAssumption DEF AssuredInv, VerifiedIn
  <2>2. ~ \E f \in HumanFamilies : covers(f)
    BY <1>2
  <2>3. ~ \E b \in db.certs : /\ b.ent = c /\ b.targeted
                              /\ b.kind = "formal_backend_result" /\ Current(db, b)
    BY DEF ReviewKinds
  <2> QED
    BY ONLY <2>1, <2>2, <2>3, c \in db.heterogeneous DEF ClaimAssuranceSatisfied
<1>4. covering \subseteq both
  BY <1>2
<1>5. IsFiniteSet(both)
  BY ReviewerAssumption, FS_Subset
<1> HIDE DEF covering, both
<1>6. Cardinality(both) >= 2
  BY <1>3, <1>4, <1>5, CoveredByBoth
<1> QED
  BY <1>6 DEF both

\* A designated claim is integrated only on the word of two model families, a
\* human or a formal check, whichever of designation and integration came first
\* (assurance.py, claim_assurance_summary).
THEOREM DesignationHonoured == Spec => []HeterogeneousReview
<1>1. Init => AssuredInv
  <2> SUFFICES ASSUME Init PROVE AssuredInv
    OBVIOUS
  <2>1. \A e \in Claims \cup Routes : db.life[e] # "integrated"
    BY DEF Init, Absent
  <2> QED
    BY <2>1 DEF AssuredInv
<1>2. TypeInv /\ AssuredInv => HeterogeneousReview
  BY AssuredInvImplies
<1> QED
  BY <1>1, <1>2, TypeInvariant, AssuredNext, PTL DEF Spec

-----------------------------------------------------------------------------
(* A commit leaves nothing to reconcile *)

\* Tables with nothing to reconcile: every integrated route holds up and its
\* claim is integrated, every integrated claim has such a route, and no blocked
\* route that holds up waits for a claim that is not integrated.
Reconciled(s) ==
  /\ \A r \in Routes : s.life[r] = "integrated" =>
       RouteIntegrationHealthy(s, r) /\ s.life[RouteConcl[r]] = "integrated"
  /\ \A c \in Claims : s.life[c] = "integrated" =>
       \E r \in s.sufficient : RouteConcl[r] = c /\ s.life[r] = "integrated"
  /\ \A r \in s.sufficient :
       s.life[r] = "blocked" /\ RouteIntegrationHealthy(s, r)
       => s.life[RouteConcl[r]] = "integrated"

\* A route holds up, and is obstructed, whatever the lifecycles.
LEMMA HealthIgnoresLifecycles ==
  ASSUME NEW s, NEW t, SameContent(s, t), SameTerms(s, t)
  PROVE  \A r : /\ RouteIntegrationHealthy(t, r) <=> RouteIntegrationHealthy(s, r)
                /\ Obstacles(t, r) = Obstacles(s, r)
BY DEF SameContent, SameTerms, RouteIntegrationHealthy, VerifiedTerminal, VerifiedIn, Present,
       RouteInferences, RouteOwners, Blocking, Obstacles

\* So tables that agree on all but certificates are reconciled together.
LEMMA ReconciledTogether ==
  ASSUME NEW s, NEW t, SameTables(s, t), Reconciled(s)
  PROVE  Reconciled(t)
BY HealthIgnoresLifecycles DEF SameTables, SameContent, Reconciled

\* Reconciled tables are left as they are.
LEMMA ReconciledStay ==
  ASSUME NEW s, TablesOK(s), Reconciled(s)
  PROVE  ReconcileInvalidIntegrations(s) = s
<1>1. s.sufficient \subseteq Routes /\ DOMAIN s.life = Claims \cup Routes
  BY DEF TablesOK
<1>2. Broken(s) = {}
  BY DEF Broken, Reconciled
<1>3. \A r : RouteAfter(s, r) = s.life[r]
  BY <1>2 DEF RouteAfter
<1>4. Orphaned(s) = {}
  BY <1>3 DEF Orphaned, Reconciled
<1>5. \A c : ClaimAfter(s, c) = s.life[c]
  BY <1>4 DEF ClaimAfter
<1>6. Reopened(s) = {}
  BY <1>1, <1>3, <1>5 DEF Reopened, Reconciled
<1>7. Moved(s) = s.life
  <2>1. Moved(s) = [e \in DOMAIN s.life |-> s.life[e]]
    BY <1>3, <1>5, <1>6 DEF Moved
  <2> QED
    BY <2>1 DEF TablesOK
<1> QED
  BY <1>7, ReconcileForm DEF TablesOK

\* One pass reconciles.
LEMMA OnePassReconciles ==
  ASSUME NEW s, TablesOK(s)
  PROVE  Reconciled(ReconcileInvalidIntegrations(s))
<1> DEFINE t == ReconcileInvalidIntegrations(s)
<1>1. /\ TablesOK(t) /\ SameContent(s, t) /\ SameTerms(s, t) /\ t.life = Moved(s)
      /\ t.sufficient = s.sufficient
  BY ReconcileEffect, ReconcileForm DEF SameContent, TablesOK
<1> HIDE DEF t
<1>2. \A r : RouteIntegrationHealthy(t, r) <=> RouteIntegrationHealthy(s, r)
  BY <1>1, HealthIgnoresLifecycles
<1>3. s.sufficient \subseteq Routes /\ DOMAIN s.life = Claims \cup Routes
      /\ \A r \in Routes : RouteConcl[r] \in Claims
  BY GraphAssumption DEF TablesOK
<1>4. \A r \in Routes : t.life[r] = IF r \in Reopened(s) THEN "active" ELSE RouteAfter(s, r)
  BY <1>1, <1>3 DEF Moved
<1>5. \A c \in Claims :
        t.life[c] = IF ClaimAfter(s, c) = "blocked" /\ \E r \in Reopened(s) : RouteConcl[r] = c
                    THEN "active" ELSE ClaimAfter(s, c)
  BY <1>1, <1>3, IdentifiersAssumption DEF Moved
<1>6. ASSUME NEW r \in Routes, t.life[r] = "integrated"
      PROVE  /\ RouteAfter(s, r) = "integrated" /\ s.life[r] = "integrated"
             /\ RouteIntegrationHealthy(s, r) /\ s.life[RouteConcl[r]] = "integrated"
  <2>1. RouteAfter(s, r) = "integrated"
    BY <1>4, <1>6
  <2>2. r \notin Broken(s) /\ s.life[r] = "integrated"
    BY <2>1 DEF RouteAfter
  <2> QED
    BY <2>1, <2>2 DEF Broken
<1>7. ASSUME NEW r \in s.sufficient, RouteAfter(s, r) = "integrated"
      PROVE  t.life[r] = "integrated"
  BY <1>3, <1>4, <1>7 DEF Reopened
<1>8. ASSUME NEW c \in Claims, NEW r \in s.sufficient, RouteConcl[r] = c,
             RouteAfter(s, r) = "integrated", s.life[c] = "integrated"
      PROVE  t.life[c] = "integrated"
  <2>1. ClaimAfter(s, c) = "integrated"
    BY <1>8 DEF ClaimAfter, Orphaned
  <2> QED
    BY <1>5, <2>1
<1>9. ASSUME NEW r \in Routes, t.life[r] = "integrated"
      PROVE  RouteIntegrationHealthy(t, r) /\ t.life[RouteConcl[r]] = "integrated"
  <2>1. r \in s.sufficient
    BY <1>6, <1>9 DEF RouteIntegrationHealthy
  <2> QED
    BY <1>2, <1>3, <1>6, <1>8, <1>9, <2>1
<1>10. ASSUME NEW c \in Claims, t.life[c] = "integrated"
       PROVE  \E r \in t.sufficient : RouteConcl[r] = c /\ t.life[r] = "integrated"
  <2>1. ClaimAfter(s, c) = "integrated"
    BY <1>5, <1>10
  <2>2. c \notin Orphaned(s) /\ s.life[c] = "integrated"
    BY <2>1 DEF ClaimAfter
  <2>3. PICK r \in s.sufficient : RouteConcl[r] = c /\ RouteAfter(s, r) = "integrated"
    BY <2>2 DEF Orphaned
  <2> QED
    BY <1>1, <1>7, <2>3
<1>11. ASSUME NEW r \in t.sufficient, t.life[r] = "blocked", RouteIntegrationHealthy(t, r)
       PROVE  t.life[RouteConcl[r]] = "integrated"
  <2>1. r \notin Reopened(s) /\ RouteAfter(s, r) = "blocked"
    BY <1>1, <1>3, <1>4, <1>11
  <2>2. ClaimAfter(s, RouteConcl[r]) = "integrated"
    BY <1>1, <1>2, <1>11, <2>1 DEF Reopened
  <2> QED
    BY <1>1, <1>3, <1>5, <2>2
<1>12. Reconciled(t)
  BY <1>9, <1>10, <1>11 DEF Reconciled
<1> QED
  BY <1>12 DEF t

\* While a patch is open, what it refuted is cited by it, and what is on record
\* stays there.
PendingRefutation ==
  /\ \A e \in Claims \cup Inferences :
       work.val[e] = "refuted" => db.val[e] = "refuted" \/ e \in Cited(patch)
  /\ \A d \in Debts :
       work.debt[d] = "refuted" => db.debt[d] = "refuted" \/ d \in Cited(patch)
  /\ \A e \in Claims \cup Inferences : db.val[e] # Absent => work.val[e] # Absent

\* What a lawful write adds to the citations of its patch.
LEMMA WriteCites ==
  ASSUME TypeInv, NEW op, NEW s, NEW cites, Write(op, s, cites)
  PROVE  /\ db' = db /\ work' = s
         /\ Cited(patch)' = Cited(patch) \cup {c.ent : c \in cites}
<1>1. db' = db /\ work' = s
  BY DEF Write
<1>2. patch'.cites = patch.cites \cup cites
  BY DEF Write, TypeInv, TypeOK, Patches
<1> QED
  BY <1>1, <1>2 DEF Cited

LEMMA RefutationNext == TypeInv /\ PendingRefutation /\ [Next]_vars => PendingRefutation'
<1> SUFFICES ASSUME TypeInv, PendingRefutation, [Next]_vars PROVE PendingRefutation'
  OBVIOUS
<1>1. ASSUME NEW role, NEW family, Begin(role, family)
      PROVE  PendingRefutation'
  BY <1>1 DEF Begin, TypeInv, PendingRefutation
<1>2. CASE GraphOperation \/ DebtOperation \/ StatusTransition
  <2>1. PICK op, s, cites : Write(op, s, cites) /\ Lawful(s, cites)
    BY <1>2, OperationLawful DEF LawfulWrite
  <2> QED
    BY <2>1, WriteCites DEF PendingRefutation, Lawful, Refuting, Growing
<1>3. CASE Commit
  BY <1>3 DEF Commit, PendingRefutation
<1>4. CASE Reject
  BY <1>4 DEF Reject, PendingRefutation
<1>5. CASE UNCHANGED vars
  BY <1>5 DEF vars, PendingRefutation, Cited
<1> QED
  BY <1>1, <1>2, <1>3, <1>4, <1>5 DEF Next

\* A commit that reopens no refutation of earlier patches leaves the tables as
\* the reconciliation left them.
LEMMA CommitSettles ==
  ASSUME TypeInv, PendingRefutation, Commit,
         \A d \in Debts : db.debt[d] = "refuted" => db'.debt[d] # "active"
  PROVE  ReconcileInvalidIntegrations(db') = db'
<1> DEFINE sealed == Seal(db, work, patch)
           u == ReconcileInvalidIntegrations(work)
<1>1. TablesOK(work) /\ patch \in Patches /\ (patch.cites # {} => patch.role \in VerifyingRoles)
  BY DEF TypeInv, TypeOK
<1>2. /\ TablesOK(sealed) /\ SameContent(work, sealed) /\ sealed.life = u.life
      /\ TablesOK(u) /\ SameContent(work, u) /\ SameTerms(work, u)
      /\ sealed.blocking = work.blocking /\ sealed.heterogeneous = work.heterogeneous
      /\ \A d \in Debts :
           \/ sealed.debt[d] = work.debt[d]
           \/ work.debt[d] = "refuted" /\ sealed.debt[d] = "active"
              /\ d \notin {c.ent : c \in patch.cites}
  BY CommitSeals
<1>3. Reconciled(u)
  BY <1>1, OnePassReconciles
<1>4. db' = sealed
  BY DEF Commit
<1> HIDE DEF sealed, u
<1>5. \A d \in Debts : sealed.debt[d] = work.debt[d]
  BY <1>2, <1>4 DEF PendingRefutation, Cited
<1>6. sealed.debt = work.debt
  BY <1>1, <1>2, <1>5 DEF TablesOK
<1>7. SameTables(u, sealed)
  BY <1>2, <1>6 DEF SameTables, SameContent, SameTerms
<1> QED
  BY <1>2, <1>3, <1>4, <1>7, ReconciledTogether, ReconciledStay

\* Whatever a patch did, reconciling once is enough: no later step of the commit
\* gives the reconciliation more to do, unless it reopens an obligation that an
\* earlier patch had refuted (patches.py, apply_patch,
\* _reconcile_invalid_integrations).
THEOREM OnePassSettles == Spec => Settled
<1> DEFINE Step == /\ revision' # revision
                   /\ \A d \in Debts : db.debt[d] = "refuted" => db'.debt[d] # "active"
                   => ReconcileInvalidIntegrations(db') = db'
<1>1. Init => PendingRefutation
  BY DEF Init, PendingRefutation
<1>2. TypeInv /\ PendingRefutation /\ [Next]_vars => [Step]_vars
  <2> SUFFICES ASSUME TypeInv, PendingRefutation, Next, revision' # revision,
                      \A d \in Debts : db.debt[d] = "refuted" => db'.debt[d] # "active"
               PROVE  ReconcileInvalidIntegrations(db') = db'
    OBVIOUS
  <2>1. Commit
    BY OperationLawful DEF Next, Begin, Reject, LawfulWrite, Write
  <2> QED
    BY <2>1, CommitSettles
<1> QED
  BY <1>1, <1>2, TypeInvariant, RefutationNext, PTL DEF Spec, Settled

-----------------------------------------------------------------------------
(* Refutation reaches everything downstream *)

\* A longer record has more downstream.
LEMMA DownstreamGrows ==
  ASSUME NEW s, NEW t, Present(s) \subseteq Present(t), NEW C
  PROVE  Downstream(s, C) \subseteq Downstream(t, C)
BY DEF Downstream

\* Nothing else is downstream of a claim no inference on record uses.
LEMMA DownstreamOfUnused ==
  ASSUME NEW s, NEW c \in Claims, \A i \in Present(s) : c \notin DependsOn(i)
  PROVE  Downstream(s, {c}) \subseteq {c}
<1>1. \A i \in Present(s) : DependsOn(i) \cap {c} # {} => Concl[i] \in {c}
  OBVIOUS
<1>2. {c} \in SUBSET Claims
  OBVIOUS
<1> QED
  BY <1>1, <1>2 DEF Downstream

PremisesOnRecord(s) == \A i \in Present(s) : \A p \in Premises[i] : s.val[p] # Absent
ConditionsOnRecord(s) == \A i \in Present(s) : \A c \in Conditions[i] : s.val[c] # Absent

\* While a patch is open: when it refuted or superseded a claim, whatever stood
\* verified downstream of it stands verified only if the patch cites it.  For
\* claims that are not on record this needs that nothing on record uses them.
WithdrawalInv ==
  /\ PremisesOnRecord(db) /\ PremisesOnRecord(work) /\ ConditionsOnRecord(db)
  /\ \A c \in Claims : Falls(db, work, c) =>
       \A e \in Downstream(db, {c}) \ {c} :
         db.val[e] \in Verified /\ work.val[e] \in Verified => e \in Cited(patch)

\* The record at the start is complete, and holds nothing verified.
LEMMA WithdrawalInit == Init => WithdrawalInv
<1> SUFFICES ASSUME Init PROVE WithdrawalInv
  OBVIOUS
<1>1. /\ work = db
      /\ db.val = [e \in Claims \cup Inferences |->
                     IF e \in Seeded \cup {Root} THEN "untested" ELSE Absent]
  BY DEF Init
<1>2. ASSUME NEW i \in Present(db), NEW p \in Premises[i] \cup Conditions[i]
      PROVE  db.val[p] # Absent
  <2>1. i \in Inferences /\ i \in Seeded
    BY <1>1, IdentifiersAssumption DEF Present
  <2>2. p \in Claims /\ p \in Seeded \cup {Root}
    BY <2>1, SeedsAssumption, GraphAssumption
  <2> QED
    BY <1>1, <2>2 DEF Absent
<1>3. \A c \in Claims : ~Falls(db, work, c)
  BY <1>1 DEF Falls
<1> QED
  BY <1>1, <1>2, <1>3 DEF WithdrawalInv, PremisesOnRecord, ConditionsOnRecord

\* An operation keeps it: what it fells it withdraws, what it raises it cites.
LEMMA WriteWithdraws ==
  ASSUME TypeInv, PendingRefutation, WithdrawalInv,
         NEW op, NEW s, NEW cites, Write(op, s, cites), Lawful(s, cites)
  PROVE  WithdrawalInv'
<1>1. /\ db' = db /\ work' = s
      /\ Cited(patch)' = Cited(patch) \cup {c.ent : c \in cites}
  BY WriteCites
<1>2. PremisesOnRecord(s)
  <2> SUFFICES ASSUME NEW i \in Present(s), NEW p \in Premises[i]
               PROVE  s.val[p] # Absent
    BY DEF PremisesOnRecord
  <2>1. p \in Claims
    BY GraphAssumption DEF Present
  <2>2. work.val[p] # Absent
    BY DEF Lawful, Growing, WithdrawalInv, PremisesOnRecord
  <2> QED
    BY <2>1, <2>2 DEF Lawful, Growing
<1>3. ASSUME NEW c \in Claims, Falls(db, s, c), NEW e \in Downstream(db, {c}) \ {c},
             db.val[e] \in Verified, s.val[e] \in Verified
      PROVE  e \in Cited(patch) \cup {x.ent : x \in cites}
  <2>1. e \in Claims
    BY <1>3 DEF Downstream
  <2>2. CASE Falls(db, work, c)
    <3>1. CASE work.val[e] \in Verified
      BY <1>3, <2>2, <3>1 DEF WithdrawalInv
    <3>2. CASE work.val[e] = "refuted"
      BY <1>3, <2>1, <3>2 DEF PendingRefutation, Verified
    <3>3. CASE work.val[e] \notin Verified /\ work.val[e] # "refuted"
      <4>1. s.val[e] \in CertifiedStatus
        BY <1>3, CertifiedChoices
      <4>2. work.val[e] # "integrated"
        BY <2>1 DEF TypeInv, TypeOK, TablesOK, Validation, Open, Verified, Absent
      <4>3. work.val[e] \notin CertifiedStatus
        BY <3>3, <4>2 DEF CertifiedStatus
      <4> QED
        BY <2>1, <4>1, <4>3 DEF Lawful, Raising
    <3> QED
      BY <3>1, <3>2, <3>3
  <2>3. CASE ~Falls(db, work, c)
    <3>1. Falls(work, s, c)
      BY <1>3, <2>3 DEF Falls
    <3>2. CASE work.val[c] = Absent
      <4>1. db.val[c] = Absent
        BY <3>2 DEF PendingRefutation
      <4>2. \A i \in Present(db) : c \notin DependsOn(i)
        BY <4>1 DEF WithdrawalInv, PremisesOnRecord, ConditionsOnRecord, DependsOn
      <4> QED
        BY <1>3, <4>2, DownstreamOfUnused
    <3>3. CASE work.val[c] # Absent
      <4>1. VerifiedIn(s, Downstream(work, {c})) = {}
        BY <3>1, <3>3 DEF Lawful, Withdrawing
      <4>2. Present(db) \subseteq Present(work)
        BY DEF PendingRefutation, Present
      <4>3. e \in Downstream(work, {c})
        BY <1>3, <4>2, DownstreamGrows
      <4> QED
        BY <1>3, <4>1, <4>3 DEF VerifiedIn
    <3> QED
      BY <3>2, <3>3
  <2> QED
    BY <2>2, <2>3
<1> QED
  BY <1>1, <1>2, <1>3 DEF WithdrawalInv

\* A commit moves no validation status and supersedes nothing.
LEMMA CommitContent ==
  ASSUME TypeInv, Commit
  PROVE  /\ db' = work' /\ TablesOK(db') /\ db'.val = work.val
         /\ \A c \in Claims : db'.life[c] = "superseded" => work.life[c] = "superseded"
         /\ Valid(db') /\ patch' = NoPatch
         /\ bound' = {x \in Cited(patch) : EntityStatus(db', x) \in CertifiedStatus}
<1> DEFINE sealed == Seal(db, work, patch)
           u == ReconcileInvalidIntegrations(work)
<1>1. TablesOK(sealed) /\ SameContent(work, sealed) /\ sealed.life = u.life
  BY CommitSeals
<1>2. \A c \in Claims : u.life[c] = "superseded" => work.life[c] = "superseded"
  BY ReconcileEffect DEF TypeInv, TypeOK
<1> HIDE DEF u
<1>3. /\ db' = sealed /\ work' = sealed /\ Valid(sealed) /\ patch' = NoPatch
      /\ bound' = {x \in Cited(patch) : EntityStatus(sealed, x) \in CertifiedStatus}
  BY DEF Commit, Cited
<1> HIDE DEF sealed
<1> QED
  BY <1>1, <1>2, <1>3 DEF SameContent

LEMMA WithdrawalNext ==
  TypeInv /\ PendingRefutation /\ WithdrawalInv /\ [Next]_vars => WithdrawalInv'
<1> SUFFICES ASSUME TypeInv, PendingRefutation, WithdrawalInv, [Next]_vars
             PROVE  WithdrawalInv'
  OBVIOUS
<1>1. ASSUME NEW role, NEW family, Begin(role, family)
      PROVE  WithdrawalInv'
  <2>1. db' = db /\ work' = work /\ work = db
    BY <1>1 DEF Begin, TypeInv
  <2> QED
    BY <2>1 DEF WithdrawalInv, Falls
<1>2. CASE GraphOperation \/ DebtOperation \/ StatusTransition
  BY <1>2, OperationLawful, WriteWithdraws DEF LawfulWrite
<1>3. CASE Commit
  <2>1. db' = work' /\ db'.val = work.val /\ Valid(db')
    BY <1>3, CommitContent
  <2>2. PremisesOnRecord(db')
    BY <2>1 DEF WithdrawalInv, PremisesOnRecord, Present
  <2>3. ConditionsOnRecord(db')
    BY <2>1 DEF Valid, ConditionsOnRecord
  <2>4. \A c : ~Falls(db', work', c)
    BY <2>1 DEF Falls
  <2> QED
    BY <2>1, <2>2, <2>3, <2>4 DEF WithdrawalInv
<1>4. CASE Reject
  BY <1>4 DEF Reject, WithdrawalInv, Falls
<1>5. CASE UNCHANGED vars
  BY <1>5 DEF vars, WithdrawalInv, Falls, Cited
<1> QED
  BY <1>1, <1>2, <1>3, <1>4, <1>5 DEF Next

\* At the commit, what is cited and verified is what is bound.
LEMMA CommitRevokes ==
  ASSUME TypeInv, WithdrawalInv, Commit, NEW c \in Claims,
         \/ db.val[c] # "refuted" /\ db'.val[c] = "refuted"
         \/ db.life[c] # "superseded" /\ db'.life[c] = "superseded"
  PROVE  VerifiedIn(db, Downstream(db, {c}) \ {c}) \cap VerifiedIn(db', Claims) \subseteq bound'
<1>1. /\ TablesOK(db') /\ db'.val = work.val
      /\ \A x \in Claims : db'.life[x] = "superseded" => work.life[x] = "superseded"
      /\ bound' = {x \in Cited(patch) : EntityStatus(db', x) \in CertifiedStatus}
  BY CommitContent
<1>2. Falls(db, work, c)
  BY <1>1 DEF Falls
<1> SUFFICES ASSUME NEW e \in Downstream(db, {c}) \ {c}, e \in Claims,
                    db.val[e] \in Verified, db'.val[e] \in Verified
             PROVE  e \in bound'
  BY DEF VerifiedIn
<1>3. e \in Cited(patch)
  BY <1>1, <1>2 DEF WithdrawalInv
<1>4. EntityStatus(db', e) \in CertifiedStatus
  BY CertifiedChoices, IdentifiersAssumption DEF EntityStatus, CertifiedStatus
<1> QED
  BY <1>1, <1>3, <1>4

\* When a commit refutes or supersedes a claim, no claim derived from it, at any
\* distance and through whatever operations of that patch, keeps a verified
\* status without a new review in it (certificates.py, invalidate_dependents).
THEOREM RefutationReaches == Spec => RefutationRevokes
<1> DEFINE Step == \A c \in Claims :
                     (\/ db.val[c] # "refuted" /\ db'.val[c] = "refuted"
                      \/ db.life[c] # "superseded" /\ db'.life[c] = "superseded")
                     => VerifiedIn(db, Downstream(db, {c}) \ {c}) \cap VerifiedIn(db', Claims)
                          \subseteq bound'
<1>1. Init => PendingRefutation
  BY DEF Init, PendingRefutation
<1>2. TypeInv /\ WithdrawalInv /\ [Next]_vars => [Step]_vars
  <2> SUFFICES ASSUME TypeInv, WithdrawalInv, Next, NEW c \in Claims,
                      \/ db.val[c] # "refuted" /\ db'.val[c] = "refuted"
                      \/ db.life[c] # "superseded" /\ db'.life[c] = "superseded"
               PROVE  VerifiedIn(db, Downstream(db, {c}) \ {c}) \cap VerifiedIn(db', Claims)
                        \subseteq bound'
    OBVIOUS
  <2>1. Commit \/ db' = db
    BY OperationLawful DEF Next, Begin, Reject, LawfulWrite, Write
  <2>2. Commit
    BY <2>1
  <2> QED
    BY <2>2, CommitRevokes
<1> QED
  BY <1>1, <1>2, TypeInvariant, RefutationNext, WithdrawalInit, WithdrawalNext, PTL
  DEF Spec, RefutationRevokes

-----------------------------------------------------------------------------
(* Integrations that pass their guard are accepted *)

\* Committed tables in which a claim is verified have been validated, and what
\* a certificate of a claim or an inference covers are claims and inferences;
\* that of a route covers the route beside.
Covers(b) ==
  b.ent \notin Debts => DOMAIN b.deps \subseteq Claims \cup Inferences \cup {b.ent}
LandingInv ==
  /\ (\E c \in Claims : db.val[c] \in Verified) => Valid(db)
  /\ work.certs = db.certs /\ \A b \in db.certs : Covers(b)

\* A binding covers no route but the one it certifies.
LEMMA BindingCovers ==
  ASSUME NEW s, NEW p, NEW c, c.ent \in Entities
  PROVE  Covers(Binding(s, p, c))
<1> DEFINE b == Binding(s, p, c)
           e == c.ent
<1>1. b.ent = e /\ DOMAIN b.deps = Closure(s, e)
  BY DEF Binding, View
<1> SUFFICES DOMAIN b.deps \subseteq Claims \cup Inferences \cup {e} \/ e \in Debts
  BY <1>1 DEF Covers
<1> HIDE DEF b
<1>2. CASE e \in Claims
  <2> DEFINE steps == {i \in VerifiedIn(s, Inferences) : Concl[i] = e}
  <2>1. steps \in SUBSET Inferences /\ Closure(s, e) = InferenceClosure(s, steps)
    BY <1>2, IdentifiersAssumption DEF Closure, VerifiedIn
  <2> QED
    BY <1>1, <2>1, InferenceClosureType
<1>3. CASE e \in Inferences
  <2>1. Closure(s, e) = ClaimClosure(s, DependsOn(e))
    BY <1>3, IdentifiersAssumption DEF Closure
  <2> QED
    BY <1>1, <1>3, <2>1, DependsOnType, ClaimClosureType
<1>4. CASE e \in Routes
  <2>1. RouteInferences(s, e) \in SUBSET Inferences
    BY DEF RouteInferences, Present
  <2>2. Closure(s, e) = {e} \cup InferenceClosure(s, RouteInferences(s, e))
    BY <1>4, IdentifiersAssumption DEF Closure, OwnerClosure
  <2> QED
    BY <1>1, <2>1, <2>2, InferenceClosureType
<1> QED
  BY <1>1, <1>2, <1>3, <1>4 DEF Entities

LEMMA LandingNext == TypeInv /\ LandingInv /\ [Next]_vars => LandingInv'
<1> SUFFICES ASSUME TypeInv, LandingInv, [Next]_vars PROVE LandingInv'
  OBVIOUS
<1>1. CASE Commit
  <2> DEFINE sealed == Seal(db, work, patch)
             u == ReconcileInvalidIntegrations(work)
             w == RebaseDependencyLifecycleBindings(db, u)
             new == {c \in patch.cites : EntityStatus(w, c.ent) \in CertifiedStatus}
  <2>1. /\ TablesOK(u)
        /\ sealed.certs = {Rebased(db, u, b) : b \in work.certs}
                           \cup {Binding(w, patch, c) : c \in new}
    BY CommitSeals
  <2>2. db' = sealed /\ work' = sealed /\ Valid(sealed)
    BY <1>1 DEF Commit
  <2> HIDE DEF sealed, u, w
  <2>3. ASSUME NEW b \in work.certs PROVE Covers(Rebased(db, u, b))
    <3>1. CertificateOK(b) /\ Covers(b)
      BY DEF TypeInv, TypeOK, TablesOK, LandingInv
    <3> QED
      BY <2>1, <3>1, RebasedType DEF Covers
  <2>4. ASSUME NEW c \in new PROVE Covers(Binding(w, patch, c))
    BY BindingCovers DEF TypeInv, TypeOK, Patches
  <2>5. \A b \in sealed.certs : Covers(b)
    BY <2>1, <2>3, <2>4
  <2> QED
    BY <2>2, <2>5 DEF LandingInv
<1>2. CASE GraphOperation \/ DebtOperation \/ StatusTransition
  BY <1>2, OperationLawful DEF LawfulWrite, Lawful, Write, LandingInv
<1>3. CASE Reject
  BY <1>3 DEF Reject, LandingInv
<1>4. ASSUME NEW role, NEW family, Begin(role, family)
      PROVE  LandingInv'
  BY <1>4 DEF Begin, LandingInv
<1>5. CASE UNCHANGED vars
  BY <1>5 DEF vars, LandingInv
<1> QED
  BY <1>1, <1>2, <1>3, <1>4, <1>5 DEF Next

LEMMA LandingInit == Init => LandingInv
<1> SUFFICES ASSUME Init PROVE LandingInv
  OBVIOUS
<1>1. work = db /\ db.certs = {}
      /\ \A c \in Claims : db.val[c] \in {"untested", Absent}
  BY DEF Init
<1>2. "untested" \notin Verified /\ Absent \notin Verified
  BY DEF Verified, Absent
<1> QED
  BY <1>1, <1>2 DEF LandingInv

\* In validated tables every verified claim is grounded: it has a review of its
\* own, or it is integrated and a reviewed step on grounded claims concludes it.
LEMMA VerifiedGrounded ==
  ASSUME NEW s, TablesOK(s), Valid(s), NEW c \in Claims, s.val[c] \in Verified
  PROVE  c \in Grounded(s)
<1> DEFINE sound == {i \in VerifiedIn(s, Inferences) : HasCertificate(s, i, ReviewKinds)}
           Closed(S) == \A d \in VerifiedIn(s, Claims) :
             (\/ HasCertificate(s, d, ReviewKinds)
              \/ \E i \in sound : Concl[i] = d /\ DependsOn(i) \subseteq S) => d \in S
<1>1. Grounded(s) = {d \in Claims : \A S \in SUBSET Claims : Closed(S) => d \in S}
  BY DEF Grounded
<1>2. c \in VerifiedIn(s, Claims)
  BY DEF VerifiedIn
<1>3. HasCertificate(s, c, ReviewKinds \cup
        (IF s.life[c] = "integrated" THEN {"integration_report"} ELSE {}))
  BY DEF Valid, CertifiedClaimValid
<1>4. CASE HasCertificate(s, c, ReviewKinds)
  BY <1>1, <1>2, <1>4
<1>5. CASE ~HasCertificate(s, c, ReviewKinds)
  <2>1. s.life[c] = "integrated"
    BY <1>3, <1>5
  <2>2. PICK r \in Routes : RouteConcl[r] = c /\ s.life[r] = "integrated"
    BY <2>1 DEF Valid, CertifiedClaimValid, TablesOK
  <2>3. PICK i \in VerifiedIn(s, RouteInferences(s, r)) :
          /\ Concl[i] = c /\ HasCertificate(s, i, ReviewKinds)
          /\ DependsOn(i) \subseteq Grounded(s)
    BY <2>2 DEF Valid, IntegratedRouteValid
  <2>4. i \in sound
    BY <2>3 DEF VerifiedIn, RouteInferences, Present
  <2> HIDE DEF sound
  <2>5. ASSUME NEW S \in SUBSET Claims, Closed(S) PROVE c \in S
    <3>1. DependsOn(i) \subseteq S
      BY <1>1, <2>3, <2>5
    <3> QED
      BY <1>2, <2>3, <2>4, <2>5, <3>1
  <2> QED
    BY <1>1, <2>5
<1> QED
  BY <1>4, <1>5

\* Tables with the same verdicts and no certificate less ground no claim less.
LEMMA GroundedGrows ==
  ASSUME NEW s, NEW t, t.val = s.val,
         \A e \in Claims \cup Inferences :
           HasCertificate(s, e, ReviewKinds) => HasCertificate(t, e, ReviewKinds)
  PROVE  Grounded(s) \subseteq Grounded(t)
<1>1. VerifiedIn(t, Inferences) = VerifiedIn(s, Inferences)
      /\ VerifiedIn(t, Claims) = VerifiedIn(s, Claims)
  BY DEF VerifiedIn
<1> DEFINE sound(x) == {i \in VerifiedIn(x, Inferences) : HasCertificate(x, i, ReviewKinds)}
           Closed(x, S) == \A d \in VerifiedIn(x, Claims) :
             (\/ HasCertificate(x, d, ReviewKinds)
              \/ \E i \in sound(x) : Concl[i] = d /\ DependsOn(i) \subseteq S) => d \in S
<1>2. \A x : Grounded(x) = {d \in Claims : \A S \in SUBSET Claims : Closed(x, S) => d \in S}
  BY DEF Grounded
<1>3. sound(s) \subseteq sound(t)
  BY <1>1 DEF VerifiedIn
<1>4. ASSUME NEW S \in SUBSET Claims, Closed(t, S) PROVE Closed(s, S)
  BY <1>1, <1>3, <1>4 DEF VerifiedIn
<1> HIDE DEF Closed
<1> QED
  BY <1>2, <1>4

\* Integrating without resolving obligations moves two lifecycles.
LEMMA PlainIntegration ==
  ASSUME NEW s, TablesOK(s), NEW c \in Claims, NEW r \in Routes
  PROVE  LET t == Integrate(s, c, r, {})
         IN /\ TablesOK(t) /\ SameContent(s, t) /\ SameTerms(s, t) /\ t.certs = s.certs
            /\ t.life[c] = "integrated" /\ t.life[r] = "integrated"
            /\ \A e \in Claims \cup Routes : e \notin {c, r} => t.life[e] = s.life[e]
<1> DEFINE t == Integrate(s, c, r, {})
           L == [s.life EXCEPT ![r] = "integrated", ![c] = "integrated"]
           D == [d \in Debts |-> IF d \in {} THEN "resolved" ELSE s.debt[d]]
<1>1. D = s.debt
  BY DEF TablesOK
<1>2. t = [s EXCEPT !.life = L, !.debt = D]
  BY DEF Integrate
<1>3. L \in [Claims \cup Routes -> Lifecycle \cup {Absent}]
      /\ L[c] = "integrated" /\ L[r] = "integrated"
      /\ \A e \in Claims \cup Routes : e \notin {c, r} => L[e] = s.life[e]
  BY IdentifiersAssumption DEF TablesOK, Lifecycle
<1> HIDE DEF L, D, t
<1>4. TablesOK(t) /\ SameContent(s, t) /\ SameTerms(s, t) /\ t.certs = s.certs /\ t.life = L
  BY <1>1, <1>2, <1>3 DEF TablesOK, SameContent, SameTerms
<1> QED
  BY <1>3, <1>4 DEF t

\* What passes the guard leaves reconciled tables reconciled.
LEMMA IntegrationReconciled ==
  ASSUME NEW s, TablesOK(s), Reconciled(s), NEW r \in Routes,
         GuardIntegration(s, RouteConcl[r], r, {})
  PROVE  Reconciled(Integrate(s, RouteConcl[r], r, {}))
<1> DEFINE c == RouteConcl[r]
           t == Integrate(s, c, r, {})
<1>1. c \in Claims
  BY GraphAssumption
<1>2. /\ SameContent(s, t) /\ SameTerms(s, t)
      /\ t.life[c] = "integrated" /\ t.life[r] = "integrated"
      /\ \A e \in Claims \cup Routes : e \notin {c, r} => t.life[e] = s.life[e]
  BY <1>1, PlainIntegration
<1>3. RouteIntegrationHealthy(s, r)
  BY DEF GuardIntegration, RouteIntegrationHealthy
<1>4. r \in s.sufficient
  BY DEF GuardIntegration
<1> HIDE DEF t
<1>5. \A x : RouteIntegrationHealthy(t, x) <=> RouteIntegrationHealthy(s, x)
  BY <1>2, HealthIgnoresLifecycles
<1>6. t.sufficient = s.sufficient /\ s.sufficient \subseteq Routes
  BY <1>2 DEF SameContent, TablesOK
<1>7. \A x \in Routes : RouteConcl[x] \in Claims /\ x \notin Claims
  BY GraphAssumption, IdentifiersAssumption
<1>8. ASSUME NEW x \in Claims, s.life[x] = "integrated" PROVE t.life[x] = "integrated"
  BY <1>2, <1>7, <1>8
<1>9. ASSUME NEW x \in Routes, t.life[x] = "integrated"
      PROVE  RouteIntegrationHealthy(t, x) /\ t.life[RouteConcl[x]] = "integrated"
  <2>1. CASE x = r
    BY <1>2, <1>3, <1>5, <2>1
  <2>2. CASE x # r
    <3>1. s.life[x] = "integrated"
      BY <1>1, <1>2, <1>7, <1>9, <2>2
    <3> QED
      BY <1>5, <1>7, <1>8, <3>1 DEF Reconciled
  <2> QED
    BY <2>1, <2>2
<1>10. ASSUME NEW x \in Claims, t.life[x] = "integrated"
       PROVE  \E y \in t.sufficient : RouteConcl[y] = x /\ t.life[y] = "integrated"
  <2>1. CASE x = c
    BY <1>2, <1>4, <1>6, <2>1
  <2>2. CASE x # c
    <3>1. s.life[x] = "integrated"
      BY <1>2, <1>7, <1>10, <2>2
    <3>2. PICK y \in s.sufficient : RouteConcl[y] = x /\ s.life[y] = "integrated"
      BY <3>1 DEF Reconciled
    <3>3. t.life[y] = "integrated"
      BY <1>1, <1>2, <1>6, <1>7, <3>2
    <3> QED
      BY <1>6, <3>2, <3>3
  <2> QED
    BY <2>1, <2>2
<1>11. ASSUME NEW x \in t.sufficient, t.life[x] = "blocked", RouteIntegrationHealthy(t, x)
       PROVE  t.life[RouteConcl[x]] = "integrated"
  <2>1. x \in Routes /\ x # r /\ x \in s.sufficient
    BY <1>2, <1>6, <1>11
  <2>2. s.life[x] = "blocked"
    BY <1>1, <1>2, <1>7, <1>11, <2>1
  <2> QED
    BY <1>5, <1>7, <1>8, <1>11, <2>1, <2>2 DEF Reconciled
<1> QED
  BY <1>9, <1>10, <1>11 DEF Reconciled, t

\* The certificate n stands for b: it says the same of the same entity.
StandsFor(n, b) ==
  n.ent = b.ent /\ n.kind = b.kind /\ n.family = b.family /\ n.targeted = b.targeted

\* The promotion of a claim leaves every other current certificate, rebased,
\* current.
LEMMA CertificateSurvives ==
  ASSUME NEW s, TablesOK(s), NEW r \in Routes, s.val[RouteConcl[r]] \in Verified,
         NEW b, CertificateOK(b), Covers(b), b.ent \notin Debts, b.ent # r, Current(s, b)
  PROVE  LET t == Integrate(s, RouteConcl[r], r, {})
         IN Current(t, Rebased(s, t, b)) /\ StandsFor(Rebased(s, t, b), b)
<1> DEFINE c == RouteConcl[r]
           t == Integrate(s, c, r, {})
           n == Rebased(s, t, b)
           D == DOMAIN b.deps
           P == Promoted(s, t)
<1>1. c \in Claims /\ c # r
  BY GraphAssumption, IdentifiersAssumption
<1>2. /\ TablesOK(t) /\ SameContent(s, t) /\ SameTerms(s, t)
      /\ t.life[c] = "integrated" /\ t.life[r] = "integrated"
      /\ \A e \in Claims \cup Routes : e \notin {c, r} => t.life[e] = s.life[e]
  BY <1>1, PlainIntegration
<1> HIDE DEF t
<1>3. b.ent \in Entities /\ D \subseteq Entities /\ r \notin D
  <2>1. b.ent \in Entities /\ D \subseteq Claims \cup Inferences \cup {b.ent}
    BY DEF CertificateOK, Covers
  <2>2. r \notin Claims \cup Inferences
    BY IdentifiersAssumption
  <2> QED
    BY <2>1, <2>2 DEF Entities
<1>4. P = IF s.life[c] = "integrated" THEN {} ELSE {c}
  BY <1>1, <1>2, IdentifiersAssumption DEF Promoted, SameContent
<1>5. \A e : Subject(t, e) = Subject(s, e)
  BY <1>2 DEF Subject, SameContent
<1>6. \A e \in Entities : e \notin {c, r} => EntityStatus(t, e) = EntityStatus(s, e)
  BY <1>2, IdentifiersAssumption DEF Entities, EntityStatus, SameContent, SameTerms
<1>7. /\ t.val[c] = s.val[c]
      /\ EntityStatus(s, c) = IF s.life[c] = "integrated" THEN "integrated" ELSE s.val[c]
      /\ EntityStatus(t, c) = "integrated"
  BY <1>1, <1>2, IdentifiersAssumption DEF EntityStatus, SameContent
<1>8. b.subject = Subject(s, b.ent) /\ BindingStatusCurrent(s, b) /\ b.deps = View(s, D, {})
  BY DEF Current
<1>9. BindingStatusCurrent(t, b)
  <2>1. CASE b.ent = c
    BY <1>1, <1>2, <1>7, <1>8, <2>1 DEF BindingStatusCurrent
  <2>2. CASE b.ent # c /\ b.ent \in Claims
    <3>1. t.life[b.ent] = s.life[b.ent] /\ t.val[b.ent] = s.val[b.ent]
      BY <1>2, <2>2 DEF SameContent
    <3> QED
      BY <1>8, <2>2, <3>1 DEF BindingStatusCurrent
  <2>3. CASE b.ent \notin Claims
    BY <1>1, <1>3, <1>6, <1>8, <2>3 DEF BindingStatusCurrent
  <2> QED
    BY <2>1, <2>2, <2>3
<1>10. View(s, D, {}) = View(t, D, P)
  <2>1. ASSUME NEW d \in D
        PROVE  EntityStatus(s, d) = IF d \in P THEN t.val[d] ELSE EntityStatus(t, d)
    <3>1. CASE d = c
      BY <1>4, <1>7, <3>1
    <3>2. CASE d # c
      BY <1>3, <1>4, <1>6, <3>2
    <3> QED
      BY <3>1, <3>2
  <2> QED
    BY <1>5, <2>1 DEF View
<1> HIDE DEF P
<1>11. CertificateOK(b) /\ DOMAIN View(t, D, {}) = D
  BY DEF View
<1>12. CASE Carried(s, t, b)
  <2>1. n = [b EXCEPT !.deps = View(t, D, {})]
    BY <1>12 DEF Rebased
  <2>2. /\ n.ent = b.ent /\ n.kind = b.kind /\ n.family = b.family /\ n.targeted = b.targeted
        /\ n.subject = b.subject /\ n.status = b.status /\ n.deps = View(t, D, {})
    BY <2>1 DEF CertificateOK
  <2> HIDE DEF n
  <2>3. BindingStatusCurrent(t, n)
    BY <1>9, <2>2 DEF BindingStatusCurrent
  <2>4. Current(t, n)
    BY <1>5, <1>8, <1>11, <2>2, <2>3 DEF Current
  <2> QED
    BY <2>2, <2>4 DEF n, t, StandsFor
<1>13. CASE ~Carried(s, t, b)
  <2>1. D \cap P = {}
    BY <1>5, <1>8, <1>9, <1>10, <1>13 DEF Carried, P
  <2>2. View(t, D, P) = View(t, D, {})
    BY <2>1 DEF View
  <2>3. Current(t, b)
    BY <1>5, <1>8, <1>9, <1>10, <2>2 DEF Current
  <2> QED
    BY <1>13, <2>3 DEF Rebased, StandsFor, t
<1> QED
  BY <1>12, <1>13

\* An integration that passes its guard on committed, reconciled tables without
\* refuted obligations seals to valid tables.
LEMMA IntegrationSealsValid ==
  ASSUME TypeInv, LandingInv, NEW r \in Routes,
         ReconcileInvalidIntegrations(db) = db,
         \A d \in Debts : db.debt[d] # "refuted",
         GuardIntegration(db, RouteConcl[r], r, {}),
         NEW p \in Patches, p.role = "integration_verifier",
         p.cites = {Cite(RouteConcl[r], "positive", TRUE), Cite(r, "positive", TRUE)}
  PROVE  LET sealed == Seal(db, Integrate(db, RouteConcl[r], r, {}), p)
         IN Valid(sealed) /\ sealed.life[RouteConcl[r]] = "integrated"
<1> DEFINE c == RouteConcl[r]
           t == Integrate(db, c, r, {})
           u == ReconcileInvalidIntegrations(t)
           w == RebaseDependencyLifecycleBindings(db, u)
           new == {x \in p.cites : EntityStatus(w, x.ent) \in CertifiedStatus}
           sealed == Seal(db, t, p)
<1>1. c \in Claims /\ c # r /\ TablesOK(db)
  BY GraphAssumption, IdentifiersAssumption DEF TypeInv, TypeOK
<1>2. /\ db.val[c] \in Verified /\ r \in db.sufficient
      /\ ClaimAssuranceSatisfied(db, c, r) /\ VerifiedTerminal(db, r)
      /\ Blocking(db, RouteOwners(db, r) \cup {c}) = {}
  BY DEF GuardIntegration
<1>3. Valid(db)
  BY <1>1, <1>2 DEF LandingInv
<1>4. /\ TablesOK(t) /\ SameContent(db, t) /\ SameTerms(db, t) /\ t.certs = db.certs
      /\ t.life[c] = "integrated" /\ t.life[r] = "integrated"
      /\ \A e \in Claims \cup Routes : e \notin {c, r} => t.life[e] = db.life[e]
  BY <1>1, PlainIntegration
<1>5. u = t
  <2>1. Reconciled(db)
    BY <1>1, OnePassReconciles
  <2>2. Reconciled(t)
    BY <1>1, <2>1, IntegrationReconciled
  <2> QED
    BY <1>4, <2>2, ReconciledStay
<1>6. p.role \in VerifyingRoles
  BY DEF VerifyingRoles
<1>7. /\ TablesOK(sealed) /\ SameContent(t, sealed) /\ sealed.life = u.life
      /\ TablesOK(u) /\ SameContent(t, u) /\ SameTerms(t, u)
      /\ TablesOK(w) /\ SameContent(t, w) /\ SameTables(u, w) /\ w.life = u.life
      /\ sealed.certs = {Rebased(db, u, b) : b \in t.certs} \cup {Binding(w, p, x) : x \in new}
      /\ sealed.blocking = t.blocking /\ sealed.heterogeneous = t.heterogeneous
      /\ \A d \in Debts :
           \/ sealed.debt[d] = t.debt[d]
           \/ /\ t.debt[d] = "refuted" /\ sealed.debt[d] = "active"
              /\ d \notin {x.ent : x \in p.cites}
  <2> HIDE DEF t
  <2> QED
    BY ONLY <1>4, <1>6, p \in Patches, SealEffect
<1> HIDE DEF t, u, w, sealed
<1>8. sealed.debt = t.debt
  <2>1. \A d \in Debts : t.debt[d] # "refuted"
    BY <1>4 DEF SameTerms
  <2>2. \A d \in Debts : sealed.debt[d] = t.debt[d]
    BY <1>7, <2>1
  <2> QED
    BY <1>4, <1>7, <2>2 DEF TablesOK
<1>9. SameTables(t, sealed) /\ SameTables(w, sealed)
  BY <1>5, <1>7, <1>8 DEF SameTables, SameContent, SameTerms
\* Every other certificate survives.
<1>10. ASSUME NEW b \in db.certs, b.ent \notin Debts, b.ent # r, Current(db, b)
       PROVE  \E n \in sealed.certs : StandsFor(n, b) /\ Current(sealed, n)
  <2>1. CertificateOK(b) /\ Covers(b)
    BY <1>1 DEF TablesOK, LandingInv
  <2>2. Current(t, Rebased(db, t, b)) /\ StandsFor(Rebased(db, t, b), b)
    BY <1>1, <1>2, <1>10, <2>1, CertificateSurvives DEF t
  <2>3. Rebased(db, t, b) \in sealed.certs
    BY <1>4, <1>5, <1>7
  <2> QED
    BY <1>9, <2>2, <2>3, SameReading
<1>11. \A e \in Entities : \A K : e \notin Debts /\ e # r /\ HasCertificate(db, e, K)
                                 => HasCertificate(sealed, e, K)
  BY <1>10 DEF HasCertificate, StandsFor
<1>12. HasCertificate(sealed, r, {"integration_report"})
  <2> DEFINE x == Cite(r, "positive", TRUE)
             b == Binding(w, p, x)
  <2>1. x \in p.cites /\ x.ent = r
    BY DEF Cite
  <2>2. EntityStatus(w, r) = "integrated"
    BY <1>4, <1>5, <1>7, IdentifiersAssumption DEF EntityStatus
  <2>3. b \in sealed.certs
    BY <1>7, <2>1, <2>2 DEF CertifiedStatus
  <2>4. Current(w, b) /\ b.ent = r
    <3>1. TablesOK(w) /\ x.ent \notin Claims
      BY <1>7, <2>1, IdentifiersAssumption
    <3> HIDE DEF x
    <3> QED
      BY <2>1, <3>1, BindingCurrent
  <2>5. b.kind = "integration_report"
    BY DEF Binding, ArtifactOf
  <2> HIDE DEF b
  <2>6. Current(sealed, b)
    BY <1>9, <2>4, SameReading
  <2> QED
    BY <2>3, <2>4, <2>5, <2>6 DEF HasCertificate
\* What validation reads beside certificates.
<1>13. /\ sealed.val = db.val /\ sealed.text = db.text /\ sealed.sufficient = db.sufficient
       /\ sealed.debt = db.debt /\ sealed.blocking = db.blocking
       /\ sealed.heterogeneous = db.heterogeneous
       /\ sealed.life[c] = "integrated" /\ sealed.life[r] = "integrated"
       /\ \A e \in Claims \cup Routes : e \notin {c, r} => sealed.life[e] = db.life[e]
       /\ db.sufficient \subseteq Routes
  BY <1>1, <1>4, <1>5, <1>7, <1>8 DEF SameContent, SameTerms, TablesOK
<1>14. /\ Present(sealed) = Present(db)
       /\ \A X : VerifiedIn(sealed, X) = VerifiedIn(db, X)
       /\ \A x : RouteInferences(sealed, x) = RouteInferences(db, x)
       /\ \A o : Blocking(sealed, o) = Blocking(db, o)
       /\ \A C : Downstream(sealed, C) = Downstream(db, C)
  BY <1>13 DEF Present, VerifiedIn, RouteInferences, Blocking, Downstream
<1>15. \A x \in Routes : RouteConcl[x] \in Claims /\ x \notin Claims /\ x \in Entities
  BY GraphAssumption, IdentifiersAssumption DEF Entities
<1>16. \A e \in Claims \cup Inferences : e \in Entities /\ e \notin Debts /\ e # r
  BY IdentifiersAssumption DEF Entities
<1>17. \A x \in Claims \cup Routes : db.life[x] = "integrated" => sealed.life[x] = "integrated"
  BY <1>13
<1>18. Grounded(db) \subseteq Grounded(sealed)
  BY <1>11, <1>13, <1>16, GroundedGrows
<1>19. ASSUME NEW x \in Routes, ClaimAssuranceSatisfied(db, RouteConcl[x], x)
       PROVE  ClaimAssuranceSatisfied(sealed, RouteConcl[x], x)
  <2> DEFINE k == RouteConcl[x]
             covers(s, f) == \A e \in {k} \cup RouteInferences(s, x) :
               \E b \in s.certs : /\ b.ent = e /\ b.family = f
                                  /\ b.kind \in ReviewKinds /\ Current(s, b)
             formal(s) == \E b \in s.certs : /\ b.ent = k /\ b.targeted
                            /\ b.kind = "formal_backend_result" /\ Current(s, b)
  <2>1. RouteInferences(db, x) \subseteq Inferences /\ k \in Claims
    BY <1>15 DEF RouteInferences, Present
  <2>2. ASSUME NEW f, covers(db, f) PROVE covers(sealed, f)
    BY <1>10, <1>14, <1>16, <2>1, <2>2 DEF StandsFor
  <2>3. formal(db) => formal(sealed)
    BY <1>10, <1>16, <2>1 DEF StandsFor
  <2>4. \A s : ClaimAssuranceSatisfied(s, k, x) <=>
          \/ k \notin s.heterogeneous
          \/ formal(s)
          \/ \E f \in HumanFamilies : covers(s, f)
          \/ Cardinality({f \in ModelFamilies : covers(s, f)}) >= 2
    BY DEF ClaimAssuranceSatisfied
  <2>5. Cardinality({f \in ModelFamilies : covers(db, f)}) >= 2
        => Cardinality({f \in ModelFamilies : covers(sealed, f)}) >= 2
    <3>1. {f \in ModelFamilies : covers(db, f)} \subseteq {f \in ModelFamilies : covers(sealed, f)}
      BY <2>2
    <3>2. IsFiniteSet({f \in ModelFamilies : covers(sealed, f)})
      BY ReviewerAssumption, FS_Subset
    <3> HIDE DEF covers
    <3> QED
      BY <3>1, <3>2, CoveredByBoth
  <2> HIDE DEF covers, formal
  <2> QED
    BY <1>13, <1>19, <2>2, <2>3, <2>4, <2>5
\* The parts of validation.
<1>20. \A x \in Routes : sealed.life[x] = "integrated" => IntegratedRouteValid(sealed, x)
  <2> SUFFICES ASSUME NEW x \in Routes, sealed.life[x] = "integrated"
               PROVE  IntegratedRouteValid(sealed, x)
    OBVIOUS
  <2>1. CASE x # r
    <3>1. IntegratedRouteValid(db, x)
      BY <1>1, <1>3, <1>13, <1>15, <2>1 DEF Valid
    <3>2. HasCertificate(sealed, x, {"integration_report"})
      BY <1>11, <1>15, <2>1, <3>1, IdentifiersAssumption DEF IntegratedRouteValid
    <3>3. PICK i \in VerifiedIn(db, RouteInferences(db, x)) :
            /\ Concl[i] = RouteConcl[x] /\ HasCertificate(db, i, ReviewKinds)
            /\ DependsOn(i) \subseteq Grounded(db)
      BY <3>1 DEF IntegratedRouteValid
    <3>4. HasCertificate(sealed, i, ReviewKinds)
      BY <1>11, <1>16, <3>3 DEF VerifiedIn, RouteInferences, Present
    <3>5. i \in VerifiedIn(sealed, RouteInferences(sealed, x)) /\ DependsOn(i) \subseteq Grounded(sealed)
      BY <1>14, <1>18, <3>3
    <3>6. /\ x \in sealed.sufficient /\ sealed.life[RouteConcl[x]] = "integrated"
          /\ Blocking(db, RouteOwners(db, x)) = {}
      BY <1>13, <1>15, <3>1 DEF IntegratedRouteValid
    <3>7. RouteOwners(sealed, x) = RouteOwners(db, x)
      BY <1>14 DEF RouteOwners
    <3>8. Blocking(sealed, RouteOwners(sealed, x)) = {}
      BY <1>14, <3>6, <3>7
    <3> QED
      BY <3>2, <3>3, <3>4, <3>5, <3>6, <3>8 DEF IntegratedRouteValid
  <2>2. CASE x = r
    <3>1. PICK i \in VerifiedIn(db, RouteInferences(db, r)) :
            Concl[i] = c /\ \A q \in Premises[i] : db.val[q] \in Verified
      BY <1>2 DEF VerifiedTerminal
    <3>2. i \in VerifiedIn(db, Inferences)
      BY <3>1 DEF VerifiedIn, RouteInferences, Present
    <3>3. HasCertificate(db, i, ReviewKinds) /\ \A q \in Conditions[i] : db.val[q] \in Verified
      BY <1>3, <3>2 DEF Valid, VerifiedInferenceValid
    <3>4. HasCertificate(sealed, i, ReviewKinds)
      BY <1>11, <1>16, <3>2, <3>3 DEF VerifiedIn
    <3>5. \A q \in DependsOn(i) : q \in Claims /\ db.val[q] \in Verified
      BY <3>1, <3>2, <3>3, DependsOnType DEF DependsOn, VerifiedIn
    <3>6. DependsOn(i) \subseteq Grounded(sealed)
      BY <1>1, <1>3, <1>18, <3>5, VerifiedGrounded
    <3>7. i \in VerifiedIn(sealed, RouteInferences(sealed, r))
      BY <1>14, <3>1
    <3>8. Blocking(sealed, RouteOwners(sealed, r)) = {}
      BY <1>2, <1>14 DEF Blocking, RouteOwners
    <3> QED
      BY <1>2, <1>12, <1>13, <2>2, <3>1, <3>4, <3>6, <3>7, <3>8 DEF IntegratedRouteValid
  <2> QED
    BY <2>1, <2>2
<1>21. \A i \in VerifiedIn(sealed, Inferences) : VerifiedInferenceValid(sealed, i)
  BY <1>3, <1>11, <1>13, <1>14, <1>16 DEF Valid, VerifiedInferenceValid, VerifiedIn
<1>22. \A k \in Claims : CertifiedClaimValid(sealed, k)
  <2> SUFFICES ASSUME NEW k \in Claims PROVE CertifiedClaimValid(sealed, k)
    OBVIOUS
  <2>1. CertifiedClaimValid(db, k)
    BY <1>3 DEF Valid
  <2>2. sealed.val[k] \in Verified =>
          HasCertificate(sealed, k, ReviewKinds \cup
            (IF sealed.life[k] = "integrated" THEN {"integration_report"} ELSE {}))
    <3> SUFFICES ASSUME sealed.val[k] \in Verified
                 PROVE  HasCertificate(sealed, k, ReviewKinds \cup
                          (IF sealed.life[k] = "integrated" THEN {"integration_report"} ELSE {}))
      OBVIOUS
    <3>1. HasCertificate(db, k, ReviewKinds \cup
            (IF db.life[k] = "integrated" THEN {"integration_report"} ELSE {}))
      BY <1>13, <2>1 DEF CertifiedClaimValid
    <3>2. HasCertificate(sealed, k, ReviewKinds \cup
            (IF db.life[k] = "integrated" THEN {"integration_report"} ELSE {}))
      BY <1>11, <1>16, <3>1
    <3>3. db.life[k] = "integrated" => sealed.life[k] = "integrated"
      BY <1>17
    <3> QED
      BY <3>2, <3>3 DEF HasCertificate
  <2>3. sealed.val[k] = "refuted" =>
          HasCertificate(sealed, k, {"confirmed_counterexample", "verification_report"})
    BY <1>11, <1>13, <1>16, <2>1 DEF CertifiedClaimValid
  <2>4. ASSUME sealed.life[k] = "integrated"
        PROVE  /\ sealed.val[k] \in Verified
               /\ \E x \in sealed.sufficient : RouteConcl[x] = k /\ sealed.life[x] = "integrated"
    <3>1. CASE k = c
      BY <1>2, <1>13, <3>1
    <3>2. CASE k # c
      <4>1. db.life[k] = "integrated"
        BY <1>13, <1>16, <2>4, <3>2
      <4>2. db.val[k] \in Verified
            /\ \E x \in db.sufficient : RouteConcl[x] = k /\ db.life[x] = "integrated"
        BY <2>1, <4>1 DEF CertifiedClaimValid
      <4> QED
        BY <1>13, <1>17, <4>2
    <3> QED
      BY <3>1, <3>2
  <2>5. ASSUME NEW x \in sealed.sufficient, RouteConcl[x] = k, sealed.life[x] = "integrated"
        PROVE  ClaimAssuranceSatisfied(sealed, k, x)
    <3>1. x \in Routes /\ x \in db.sufficient
      BY <1>13
    <3>2. CASE x = r
      BY <1>2, <1>19, <2>5, <3>2
    <3>3. CASE x # r
      <4>1. db.life[x] = "integrated"
        BY <1>1, <1>13, <1>15, <2>5, <3>1, <3>3
      <4>2. db.life[k] = "integrated"
        BY <1>3, <2>5, <3>1, <4>1 DEF Valid, IntegratedRouteValid
      <4>3. ClaimAssuranceSatisfied(db, k, x)
        BY <2>1, <2>5, <3>1, <4>1, <4>2 DEF CertifiedClaimValid
      <4> QED
        BY <1>19, <2>5, <3>1, <4>3
    <3> QED
      BY <3>2, <3>3
  <2> QED
    BY <2>2, <2>3, <2>4, <2>5 DEF CertifiedClaimValid
<1>23. /\ NoDependencyCycle(sealed)
       /\ \A i \in Present(sealed) : \A k \in Conditions[i] : sealed.val[k] # Absent
       /\ \A d \in Debts : sealed.debt[d] = "refuted" =>
            HasCertificate(sealed, d, {"confirmed_counterexample", "verification_report"})
  BY <1>3, <1>13, <1>14 DEF Valid, NoDependencyCycle
<1>24. Valid(sealed)
  BY <1>20, <1>21, <1>22, <1>23 DEF Valid
<1> QED
  BY <1>13, <1>24 DEF sealed, t

\* Integrating a claim never makes its own commit fail: where nothing is left to
\* reconcile and no obligation stands refuted, what passes the integration guard
\* passes the validation, whatever else is integrated above and below
\* (certificates.py, rebase_dependency_lifecycle_bindings).
THEOREM IntegrationAccepted == Spec => []IntegrationLands
<1>1. TypeInv /\ LandingInv => IntegrationLands
  <2> SUFFICES ASSUME TypeInv, LandingInv, NEW r \in Routes,
                      ReconcileInvalidIntegrations(db) = db,
                      \A d \in Debts : db.debt[d] # "refuted",
                      GuardIntegration(db, RouteConcl[r], r, {})
               PROVE  LET c == RouteConcl[r]
                          report == [NoPatch EXCEPT !.role = "integration_verifier",
                                                    !.cites = {Cite(c, "positive", TRUE),
                                                               Cite(r, "positive", TRUE)}]
                          sealed == Seal(db, Integrate(db, c, r, {}), report)
                      IN Valid(sealed) /\ sealed.life[c] = "integrated"
    BY DEF IntegrationLands
  <2> DEFINE c == RouteConcl[r]
             report == [NoPatch EXCEPT !.role = "integration_verifier",
                                       !.cites = {Cite(c, "positive", TRUE), Cite(r, "positive", TRUE)}]
  <2>1. c \in Claims
    BY GraphAssumption
  <2>2. {Cite(c, "positive", TRUE), Cite(r, "positive", TRUE)}
          \subseteq [ent : Entities, outcome : Outcome, targeted : BOOLEAN]
    <3>1. c \in Entities /\ r \in Entities /\ "positive" \in Outcome
      BY <2>1 DEF Entities, Outcome
    <3>2. \A e \in {c, r} :
            Cite(e, "positive", TRUE) \in [ent : Entities, outcome : Outcome, targeted : BOOLEAN]
      BY <3>1, CiteType
    <3> QED
      BY <3>2
  <2>3. /\ report \in Patches /\ report.role = "integration_verifier"
        /\ report.cites = {Cite(c, "positive", TRUE), Cite(r, "positive", TRUE)}
    BY <2>2, NoPatchType DEF NoPatch, Patches, VerifyingRoles
  <2> HIDE DEF report
  <2>4. Valid(Seal(db, Integrate(db, c, r, {}), report))
        /\ Seal(db, Integrate(db, c, r, {}), report).life[c] = "integrated"
    BY <2>3, IntegrationSealsValid
  <2> QED
    BY <2>4 DEF report
<1> QED
  BY <1>1, TypeInvariant, LandingInit, LandingNext, PTL DEF Spec
=============================================================================
