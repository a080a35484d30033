------------------------------ MODULE ProofState ------------------------------
(***************************************************************************)
(* The proof-state kernel: claims, proof approaches (routes), inferences   *)
(* and proof obligations (debts), the certificates that host code binds to *)
(* them, and the patch transaction that is the only way to change them.    *)
(*                                                                         *)
(* A patch is a sequence of operations applied to a working copy of the    *)
(* tables (the SQLite transaction).  Committing reconciles integrations,   *)
(* carries certificates over a promotion, binds the certificates the patch *)
(* brought, reopens obligations whose refutation went stale and validates  *)
(* the whole state; a patch that fails anywhere leaves nothing behind.     *)
(***************************************************************************)
EXTENDS Naturals, FiniteSets

CONSTANTS
  Claims, Inferences, Routes, Debts,   \* the identifiers patches may use
  Root,                                \* the problem's root claim
  Concl, RouteOf,                      \* an inference's conclusion and route
  Premises, Conditions,                \* an inference's claims it rests on
  RouteConcl,                          \* the claim a route argues for
  Owner,                               \* the entity an obligation is about
  ModelFamilies, HumanFamilies,        \* independence classes of reviewers
  Seeded,                              \* what is on record, unreviewed, at the start
  Roles,                               \* the actor roles that submit patches
  OpKinds,                             \* bound: the operations patches use
  Demotions,                           \* bound: open statuses a transition may set
  LifeChoices,                         \* bound: lifecycle statuses an operation may set
  MaxText,                             \* bound: versions of one text
  MaxOps,                              \* bound: operations of one patch
  MaxRevision                          \* bound: committed patches

Families == ModelFamilies \cup HumanFamilies
Entities == Claims \cup Inferences \cup Routes \cup Debts

Absent   == "absent"
Open     == {"untested", "plausible", "challenged"}
Verified == {"informally_verified", "formally_verified"}
Validation == Open \cup Verified \cup {"refuted"}
Lifecycle  == {"active", "blocked", "abandoned", "integrated", "superseded"}
DebtStatus == {"active", "resolved", "refuted", "discarded"}
CertifiedStatus == Verified \cup {"refuted", "integrated"}
Status == Validation \cup Lifecycle \cup DebtStatus \cup {Absent}

VerifyingRoles == {"strict_informal_verifier", "formal_backend",
                   "counterexample_validator", "integration_verifier"}

\* The certificate artifact each verifying role, and no other, may attach.
ArtifactOf == [strict_informal_verifier |-> "verification_report",
               formal_backend           |-> "formal_backend_result",
               counterexample_validator |-> "confirmed_counterexample",
               integration_verifier     |-> "integration_report"]
ReviewKinds == {"verification_report", "formal_backend_result"}
Outcome     == {"positive", "refutation", "blocked"}
Unreviewed  == "none"

OperationKinds == {"add_claim", "add_route", "add_inference", "update_route",
                   "update_inference", "set_claim_assurance", "add_debt", "update_debt",
                   "resolve_debt", "propose_status_transition", "certify_external_citation"}

ASSUME IdentifiersAssumption ==
  /\ Root \in Claims
  /\ Claims \cap Inferences = {} /\ Claims \cap Routes = {} /\ Claims \cap Debts = {}
  /\ Inferences \cap Routes = {} /\ Inferences \cap Debts = {} /\ Routes \cap Debts = {}
ASSUME GraphAssumption ==
  /\ Concl \in [Inferences -> Claims] /\ RouteOf \in [Inferences -> Routes]
  /\ Premises \in [Inferences -> SUBSET Claims]
  /\ Conditions \in [Inferences -> SUBSET Claims]
  /\ RouteConcl \in [Routes -> Claims]
  /\ Owner \in [Debts -> Claims \cup Inferences \cup Routes]
\* What is on record at the start refers only to what is on record.
ASSUME SeedsAssumption ==
  \A i \in Seeded \cap Inferences : Premises[i] \cup Conditions[i] \subseteq Seeded \cup {Root}
ASSUME ReviewerAssumption ==
  /\ IsFiniteSet(ModelFamilies)
  /\ ModelFamilies \cap HumanFamilies = {}
ASSUME BoundsAssumption ==
  /\ Roles \subseteq VerifyingRoles \cup {"researcher", "host"}
  /\ OpKinds \subseteq OperationKinds
  /\ Demotions \subseteq Open /\ LifeChoices \subseteq Lifecycle
  /\ MaxText \in Nat /\ MaxOps \in Nat /\ MaxRevision \in Nat

VARIABLES
  db,        \* the committed tables
  work,      \* the tables as the open transaction sees them
  patch,     \* the patch being applied
  revision,  \* problem_state.current_revision
  bound,     \* history: the entities certified by the last commit
  reviewed   \* history: the configurations in which inferences were certified

vars == <<db, work, patch, revision, bound, reviewed>>

-----------------------------------------------------------------------------
(* Reading the tables *)

Present(s)            == {i \in Inferences : s.val[i] # Absent}
VerifiedIn(s, X)      == {x \in X : s.val[x] \in Verified}
RouteInferences(s, r) == {i \in Present(s) : RouteOf[i] = r}
DependsOn(i)          == Premises[i] \cup Conditions[i]

EntityStatus(s, e) ==
  CASE e \in Claims     -> IF s.life[e] = "integrated" THEN "integrated" ELSE s.val[e]
    [] e \in Inferences -> s.val[e]
    [] e \in Routes     -> s.life[e]
    [] OTHER            -> s.debt[e]

\* The digest of what a reviewer reads: the version of a text stands for its
\* words, and a route's digest also covers its relation to the claim.
Subject(s, e) ==
  <<IF e \in Inferences \cup Routes THEN s.text[e] ELSE 0,
    e \in Routes /\ e \in s.sufficient>>

\* What a dependency digest covers, with the claims in "validated" shown by
\* their validation status whatever their lifecycle.
View(s, deps, validated) ==
  [d \in deps |-> <<Subject(s, d),
                    IF d \in validated THEN s.val[d] ELSE EntityStatus(s, d)>>]

\* The least set of claims that holds the seeds and the premises of every
\* verified inference that concludes a member.
Upstream(s, seeds) ==
  {c \in Claims : \A S \in SUBSET Claims :
     (/\ seeds \subseteq S
      /\ \A i \in VerifiedIn(s, Inferences) : Concl[i] \in S => DependsOn(i) \subseteq S)
     => c \in S}

\* The least set of claims that holds the seeds and the conclusion of every
\* inference on record that uses a member.
Downstream(s, seeds) ==
  {c \in Claims : \A S \in SUBSET Claims :
     (/\ seeds \subseteq S
      /\ \A i \in Present(s) : DependsOn(i) \cap S # {} => Concl[i] \in S)
     => c \in S}

\* Premise claims with everything they rest on.
ClaimClosure(s, seeds) ==
  LET up == Upstream(s, seeds)
  IN up \cup {i \in VerifiedIn(s, Inferences) : Concl[i] \in up}

InferenceClosure(s, I) == I \cup ClaimClosure(s, UNION {DependsOn(i) : i \in I})

\* What an obligation about o, and a report on the route o, rest on.
OwnerClosure(s, o) ==
  CASE o \in Claims     -> ClaimClosure(s, {o})
    [] o \in Inferences -> InferenceClosure(s, {o})
    [] o \in Routes     -> {o} \cup InferenceClosure(s, RouteInferences(s, o))

Closure(s, e) ==
  CASE e \in Claims     -> InferenceClosure(s, {i \in VerifiedIn(s, Inferences) : Concl[i] = e})
    [] e \in Inferences -> ClaimClosure(s, DependsOn(e))
    [] e \in Routes     -> OwnerClosure(s, e)
    [] e \in Debts      -> OwnerClosure(s, Owner[e])

-----------------------------------------------------------------------------
(* Certificates *)

BindingStatusCurrent(s, b) ==
  IF b.ent \in Claims
  THEN IF s.life[b.ent] = "integrated"
       THEN s.val[b.ent] \in Verified /\ b.status \in {s.val[b.ent], "integrated"}
       ELSE b.status = s.val[b.ent]
  ELSE b.status = EntityStatus(s, b.ent)

\* Mutant: the dependency digest is not compared.
CurrentSubjectOnly(s, b) == b.subject = Subject(s, b.ent) /\ BindingStatusCurrent(s, b)

Current(s, b) ==
  /\ b.subject = Subject(s, b.ent)
  /\ b.deps = View(s, DOMAIN b.deps, {})
  /\ BindingStatusCurrent(s, b)

HasCertificate(s, e, kinds) ==
  \E b \in s.certs : b.ent = e /\ b.kind \in kinds /\ Current(s, b)

BindNewCertificates(s, p) ==
  [s EXCEPT !.certs = @ \cup
     {[ent      |-> c.ent,
       kind     |-> ArtifactOf[p.role],
       outcome  |-> c.outcome,
       targeted |-> c.targeted,
       family   |-> p.family,
       subject  |-> Subject(s, c.ent),
       status   |-> EntityStatus(s, c.ent),
       deps     |-> View(s, Closure(s, c.ent), {})] :
      c \in {x \in p.cites : EntityStatus(s, x.ent) \in CertifiedStatus}}]

\* Claims whose only change in this patch is the promotion of a standing
\* review to an integration.
Promoted(before, s) ==
  {c \in Claims : /\ before.val[c] \in Verified /\ s.val[c] = before.val[c]
                  /\ before.life[c] # "integrated" /\ s.life[c] = "integrated"}

\* Mutant: certificates are not carried over a promotion.
NoRebase(before, s) == s

RebaseDependencyLifecycleBindings(before, s) ==
  LET promoted == Promoted(before, s)
      carried(b) == /\ DOMAIN b.deps \cap promoted # {}
                    /\ b.subject = Subject(s, b.ent)
                    /\ BindingStatusCurrent(s, b)
                    /\ b.deps = View(s, DOMAIN b.deps, promoted)
  IN [s EXCEPT !.certs =
        {IF carried(b) THEN [b EXCEPT !.deps = View(s, DOMAIN b.deps, {})] ELSE b : b \in @}]

InvalidateStaleRefutedObligations(s) ==
  [s EXCEPT !.debt =
     [d \in Debts |->
        IF @[d] = "refuted" /\ ~ \E b \in s.certs : b.ent = d /\ Current(s, b)
        THEN "active" ELSE @[d]]]

\* Mutant: the demoted status goes to the lifecycle column.
InvalidateWrongColumn(s, claims, inferences) ==
  LET down == Downstream(s, claims \cup {Concl[i] : i \in inferences})
  IN [s EXCEPT !.life = [e \in DOMAIN @ |-> IF e \in down THEN "challenged" ELSE @[e]]]

\* Mutant: only inferences are withdrawn, the claims they prove keep standing.
InvalidateInferencesOnly(s, claims, inferences) ==
  LET down == Downstream(s, claims \cup {Concl[i] : i \in inferences})
      lost == {i \in VerifiedIn(s, Inferences) : i \in inferences \/ DependsOn(i) \cap down # {}}
  IN [s EXCEPT !.val = [e \in DOMAIN @ |-> IF e \in lost THEN "challenged" ELSE @[e]]]

\* Withdraw every certified status downstream of claims whose truth changed
\* and inferences whose text changed.
InvalidateDependents(s, claims, inferences) ==
  LET down == Downstream(s, claims \cup {Concl[i] : i \in inferences})
      lost == VerifiedIn(s, down \cup inferences
                              \cup {i \in Present(s) : DependsOn(i) \cap down # {}})
  IN [s EXCEPT
        !.val  = [e \in DOMAIN @ |-> IF e \in lost THEN "challenged" ELSE @[e]],
        !.life = [e \in DOMAIN @ |->
                    IF @[e] = "integrated"
                       /\ (e \in lost \/ (e \in Routes /\ RouteConcl[e] \in down))
                    THEN "active" ELSE @[e]]]

-----------------------------------------------------------------------------
(* Integration *)

Blocking(s, owners) ==
  {d \in s.blocking : s.debt[d] = "active" /\ Owner[d] \in owners}
RouteOwners(s, r) == {r} \cup RouteInferences(s, r)

VerifiedTerminal(s, r) ==
  \E i \in VerifiedIn(s, RouteInferences(s, r)) :
     Concl[i] = RouteConcl[r] /\ \A p \in Premises[i] : s.val[p] \in Verified

RouteIntegrationHealthy(s, r) ==
  /\ r \in s.sufficient
  /\ s.val[RouteConcl[r]] \in Verified
  /\ VerifiedTerminal(s, r)
  /\ Blocking(s, RouteOwners(s, r) \cup {RouteConcl[r]}) = {}

\* Demote integrated routes and claims that no longer hold up, and reopen
\* blocked routes whose obstacle is gone.
ReconcileInvalidIntegrations(s) ==
  LET blockers(r) == Blocking(s, RouteOwners(s, r) \cup {RouteConcl[r]})
      broken == {r \in Routes :
                   /\ s.life[r] = "integrated"
                   /\ ~(RouteIntegrationHealthy(s, r) /\ s.life[RouteConcl[r]] = "integrated")}
      after(r) == IF r \notin broken THEN s.life[r]
                  ELSE IF blockers(r) # {} THEN "blocked" ELSE "active"
      orphaned == {c \in Claims :
                     /\ s.life[c] = "integrated"
                     /\ ~ \E r \in s.sufficient : RouteConcl[r] = c /\ after(r) = "integrated"}
      afterClaim(c) ==
        IF c \notin orphaned THEN s.life[c]
        ELSE IF \E r \in broken : RouteConcl[r] = c /\ blockers(r) # {}
             THEN "blocked" ELSE "active"
      ready == {r \in s.sufficient : /\ after(r) = "blocked"
                                     /\ RouteIntegrationHealthy(s, r)
                                     /\ afterClaim(RouteConcl[r]) # "integrated"}
  IN [s EXCEPT !.life =
        [e \in DOMAIN @ |->
           IF e \in Routes THEN IF e \in ready THEN "active" ELSE after(e)
           ELSE IF afterClaim(e) = "blocked" /\ \E r \in ready : RouteConcl[r] = e
                THEN "active" ELSE afterClaim(e)]]

\* Mutant: one reviewing family is enough.
OneFamilySatisfies(s, c, r) ==
  c \in s.heterogeneous =>
    \E f \in Families : \A e \in {c} \cup RouteInferences(s, r) :
      \E b \in s.certs : b.ent = e /\ b.family = f /\ b.kind \in ReviewKinds /\ Current(s, b)

\* The review an integrated claim needs before and after it is integrated:
\* one under standard assurance; under heterogeneous review a formal check of
\* the claim, a human's review of the claim and the whole route, or two model
\* families that each reviewed the claim and the whole route.
ClaimAssuranceSatisfied(s, c, r) ==
  LET covers(f) == \A e \in {c} \cup RouteInferences(s, r) :
        \E b \in s.certs : /\ b.ent = e /\ b.family = f
                           /\ b.kind \in ReviewKinds /\ Current(s, b)
  IN \/ c \notin s.heterogeneous
     \/ \E b \in s.certs : /\ b.ent = c /\ b.targeted
                           /\ b.kind = "formal_backend_result" /\ Current(s, b)
     \/ \E f \in HumanFamilies : covers(f)
     \/ Cardinality({f \in ModelFamilies : covers(f)}) >= 2

GuardIntegration(s, c, r, resolved) ==
  LET direct == RouteOwners(s, r) \cup {c}
  IN /\ RouteConcl[r] = c /\ r \in s.sufficient /\ s.life[r] # Absent
     /\ s.val[c] \in Verified
     /\ ClaimAssuranceSatisfied(s, c, r)
     /\ VerifiedTerminal(s, r)
     /\ \A d \in resolved : s.debt[d] # Absent /\ Owner[d] \in direct \cup {Root}
     /\ Blocking(s, direct) \subseteq resolved

Integrate(s, c, r, resolved) ==
  [s EXCEPT !.life = [@ EXCEPT ![r] = "integrated", ![c] = "integrated"],
            !.debt = [d \in Debts |-> IF d \in resolved THEN "resolved" ELSE @[d]]]

-----------------------------------------------------------------------------
(* The invariants every commit is validated against *)

\* Claims with a derivation in which every step holds a current certificate.
Grounded(s) ==
  LET sound == {i \in VerifiedIn(s, Inferences) : HasCertificate(s, i, ReviewKinds)}
  IN {c \in Claims : \A S \in SUBSET Claims :
        (\A d \in VerifiedIn(s, Claims) :
            (\/ HasCertificate(s, d, ReviewKinds)
             \/ \E i \in sound : Concl[i] = d /\ DependsOn(i) \subseteq S) => d \in S)
        => c \in S}

NoDependencyCycle(s) ==
  \A i \in Present(s) : DependsOn(i) \cap Downstream(s, {Concl[i]}) = {}

IntegratedRouteValid(s, r) ==
  /\ HasCertificate(s, r, {"integration_report"})
  /\ r \in s.sufficient
  /\ s.life[RouteConcl[r]] = "integrated"
  /\ \E i \in VerifiedIn(s, RouteInferences(s, r)) :
        /\ Concl[i] = RouteConcl[r]
        /\ HasCertificate(s, i, ReviewKinds)
        /\ DependsOn(i) \subseteq Grounded(s)
  /\ Blocking(s, RouteOwners(s, r)) = {}

VerifiedInferenceValid(s, i) ==
  /\ HasCertificate(s, i, ReviewKinds)
  /\ \A p \in Premises[i] : s.val[p] # "refuted"
  /\ \A c \in Conditions[i] : s.val[c] \in Verified

CertifiedClaimValid(s, c) ==
  /\ s.val[c] \in Verified =>
       HasCertificate(s, c, ReviewKinds \cup
         (IF s.life[c] = "integrated" THEN {"integration_report"} ELSE {}))
  /\ s.val[c] = "refuted" =>
       HasCertificate(s, c, {"confirmed_counterexample", "verification_report"})
  /\ s.life[c] = "integrated" =>
       LET through == {r \in s.sufficient : RouteConcl[r] = c /\ s.life[r] = "integrated"}
       IN /\ s.val[c] \in Verified
          /\ through # {}
          /\ \A r \in through : ClaimAssuranceSatisfied(s, c, r)

Valid(s) ==
  /\ NoDependencyCycle(s)
  /\ \A i \in Present(s) : \A c \in Conditions[i] : s.val[c] # Absent
  /\ \A r \in Routes : s.life[r] = "integrated" => IntegratedRouteValid(s, r)
  /\ \A i \in VerifiedIn(s, Inferences) : VerifiedInferenceValid(s, i)
  /\ \A d \in Debts : s.debt[d] = "refuted" =>
        HasCertificate(s, d, {"confirmed_counterexample", "verification_report"})
  /\ \A c \in Claims : CertifiedClaimValid(s, c)

\* Mutant: integrations are not reconciled.
SealUnreconciled(before, s, p) ==
  InvalidateStaleRefutedObligations(
    BindNewCertificates(RebaseDependencyLifecycleBindings(before, s), p))

\* The host's own steps between the last operation and the validation.
Seal(before, s, p) ==
  InvalidateStaleRefutedObligations(
    BindNewCertificates(
      RebaseDependencyLifecycleBindings(before, ReconcileInvalidIntegrations(s)), p))

\* What a reviewer of an inference judges: its text and how its premises stand.
Truth(status) == IF status \in Verified \cup {"integrated"} THEN "verified" ELSE status
Configuration(s, i) ==
  [ent |-> i, subject |-> Subject(s, i), truth |-> [c \in DependsOn(i) |-> Truth(s.val[c])]]

-----------------------------------------------------------------------------
(* The patch transaction *)

NoPatch == [open |-> FALSE, role |-> "host", family |-> Unreviewed, cites |-> {}, ops |-> 0]

Init ==
  /\ db = [val   |-> [e \in Claims \cup Inferences |->
                        IF e \in Seeded \cup {Root} THEN "untested" ELSE Absent],
           life  |-> [e \in Claims \cup Routes |->
                        IF e \in Seeded \cup {Root} THEN "active" ELSE Absent],
           text  |-> [e \in Inferences \cup Routes |-> 0],
           sufficient    |-> Routes \cap Seeded,
           debt          |-> [d \in Debts |-> IF d \in Seeded THEN "active" ELSE Absent],
           blocking      |-> Debts \cap Seeded,
           heterogeneous |-> {},
           reports       |-> {},
           certs         |-> {}]
  /\ work = db
  /\ patch = NoPatch
  /\ revision = 0
  /\ bound = {} /\ reviewed = {}

Begin(role, family) ==
  /\ ~patch.open /\ revision < MaxRevision
  /\ patch' = [NoPatch EXCEPT !.open = TRUE, !.role = role, !.family = family]
  /\ UNCHANGED <<db, work, revision, bound, reviewed>>

\* Any operation whose guard fails, a failed validation, an exception or a
\* crash before the commit: the transaction leaves nothing behind.
Reject ==
  /\ patch.open
  /\ work' = db /\ patch' = NoPatch
  /\ UNCHANGED <<db, revision, bound, reviewed>>

Commit ==
  LET sealed == Seal(db, work, patch)
      certified == {e \in {c.ent : c \in patch.cites} : EntityStatus(sealed, e) \in CertifiedStatus}
  IN /\ patch.open /\ patch.ops > 0
     /\ Valid(sealed)
     /\ db' = sealed /\ work' = sealed
     /\ revision' = revision + 1
     /\ patch' = NoPatch
     /\ bound' = certified
     /\ reviewed' = reviewed \cup {Configuration(sealed, i) : i \in certified \cap Inferences}

\* An operation of the open patch writes s and adds the patch's artifact to
\* the evidence of the entities in cites.
Write(op, s, cites) ==
  /\ op \in OpKinds
  /\ patch.open /\ patch.ops < MaxOps
  /\ work' = s
  /\ patch' = [patch EXCEPT !.ops = @ + 1, !.cites = @ \cup cites]
  /\ UNCHANGED <<db, revision, bound, reviewed>>

Cite(e, outcome, targeted) == [ent |-> e, outcome |-> outcome, targeted |-> targeted]

\* Mutant: evidence of an earlier patch counts whatever changed since.
EverOnFile(e, kind, outcome) ==
  \E b \in work.certs : b.ent = e /\ b.kind = kind /\ b.outcome = outcome

\* Evidence of an earlier patch counts only while its binding is current.
OnFile(e, kind, outcome) ==
  \E b \in work.certs : /\ b.ent = e /\ b.kind = kind /\ b.outcome = outcome
                        /\ Current(work, b)

-----------------------------------------------------------------------------
(* Operations that shape the proof graph *)

AddClaim(c, status) ==
  /\ c # Root /\ work.val[c] = Absent
  /\ Write("add_claim", [work EXCEPT !.val[c] = "untested", !.life[c] = status], {})

AddRoute(r, status, sufficient) ==
  /\ work.life[r] = Absent /\ work.life[RouteConcl[r]] # Absent
  /\ ~(work.life[RouteConcl[r]] = "integrated" /\ status = "active" /\ sufficient)
  /\ Write("add_route",
           [work EXCEPT !.life[r] = status,
                        !.sufficient = IF sufficient THEN @ \cup {r} ELSE @], {})

AddInference(i) ==
  /\ work.val[i] = Absent
  /\ work.life[RouteOf[i]] # Absent
  /\ \A c \in {Concl[i]} \cup Premises[i] : work.val[c] # Absent
  /\ Write("add_inference", [work EXCEPT !.val[i] = "untested"], {})

\* An explanation is only ever appended to; touching a verified one revokes
\* it and everything that rests on it.
AppendExplanation(i) ==
  /\ work.val[i] # Absent /\ work.text[i] < MaxText
  /\ LET edited == [work EXCEPT !.text[i] = @ + 1]
     IN Write("update_inference",
              IF work.val[i] \in Verified THEN InvalidateDependents(edited, {}, {i})
                                          ELSE edited, {})

\* Any report of this patch may be added to an inference's evidence; a positive
\* one, which allows the most, stands for them all.
AppendEvidence(i) ==
  /\ patch.role \in VerifyingRoles /\ work.val[i] # Absent
  /\ Write("update_inference", work, {Cite(i, "positive", FALSE)})

\* A new strategy, possibly one the route had before, or a new relation to
\* the claim.
ReviseRoute(r, text, sufficient) ==
  /\ work.life[r] # Absent
  /\ Write("update_route",
           [work EXCEPT !.text[r] = text,
                        !.sufficient = IF sufficient THEN @ \cup {r} ELSE @ \ {r}], {})

SetRouteStatus(r, status) ==
  /\ work.life[r] # Absent /\ status # "integrated"
  /\ status = "abandoned" => Blocking(work, {r, RouteConcl[r]}) = {}
  /\ Write("update_route", [work EXCEPT !.life[r] = status], {})

SetClaimAssurance(c, heterogeneous) ==
  /\ patch.role = "host" /\ work.val[c] # Absent
  /\ Write("set_claim_assurance",
           [work EXCEPT !.heterogeneous = IF heterogeneous THEN @ \cup {c} ELSE @ \ {c}], {})

-----------------------------------------------------------------------------
(* Operations on proof obligations *)

\* A repeated report of a known obligation refreshes it: it may restate its
\* status and strengthen its severity, and never reopens a refuted one.
AddDebt(d, blocking, status) ==
  /\ IF Owner[d] \in Inferences THEN work.val[Owner[d]] # Absent
                                ELSE work.life[Owner[d]] # Absent
  /\ Write("add_debt",
           [work EXCEPT !.debt[d] = IF @ = "refuted" THEN @ ELSE status,
                        !.blocking = IF blocking THEN @ \cup {d} ELSE @], {})

UpdateDebt(d, blocking, status) ==
  /\ work.debt[d] \notin {Absent, "refuted"} /\ status # "refuted"
  /\ Write("update_debt",
           [work EXCEPT !.debt[d] = status,
                        !.blocking = IF blocking THEN @ \cup {d} ELSE @ \ {d}], {})

RefuteDebt(d) ==
  /\ work.debt[d] # Absent
  /\ patch.role \in {"strict_informal_verifier", "counterexample_validator"}
  /\ Write("update_debt", [work EXCEPT !.debt[d] = "refuted"], {Cite(d, "refutation", TRUE)})

\* Only a verifying role closes an obligation; anyone else submits a repair.
ResolveDebt(d) ==
  /\ work.debt[d] # Absent
  /\ work.debt[d] = "refuted" \/ patch.role # "integration_verifier"
  /\ Write("resolve_debt",
           [work EXCEPT !.debt[d] = IF @ = "refuted" THEN @
                                    ELSE IF patch.role \in VerifyingRoles THEN "resolved"
                                    ELSE "active"], {})

-----------------------------------------------------------------------------
(* Status transitions *)

\* A report cited by a transition is stamped with that entity as a target; a
\* formal result names its target itself.
Evidence(e, outcome) ==
  IF patch.role \in VerifyingRoles
  THEN {Cite(e, outcome, patch.role # "formal_backend")} ELSE {}

\* A transition to an open status: any role, no evidence required.
Demote(e, status) ==
  /\ work.val[e] # Absent
  /\ Write("propose_status_transition", [work EXCEPT !.val[e] = status], Evidence(e, "blocked"))

InformallyVerify(e, fresh) ==
  /\ work.val[e] # Absent /\ patch.role = "strict_informal_verifier"
  /\ fresh \/ OnFile(e, "verification_report", "positive")
  /\ Write("propose_status_transition", [work EXCEPT !.val[e] = "informally_verified"],
           IF fresh THEN {Cite(e, "positive", TRUE)} ELSE {})

FormallyVerify(e) ==
  /\ work.val[e] \in Verified /\ patch.role = "formal_backend"
  /\ Write("propose_status_transition",
           [work EXCEPT !.val[e] = "formally_verified"], {Cite(e, "positive", TRUE)})

\* Refuting a claim withdraws what rests on it; refuting an inference only
\* records that the inference fails.
Refute(e) ==
  /\ work.val[e] # Absent
  /\ patch.role \in {"strict_informal_verifier", "counterexample_validator"}
  /\ LET refuted == [work EXCEPT !.val[e] = "refuted"]
     IN Write("propose_status_transition",
              IF e \in Claims THEN InvalidateDependents(refuted, {e}, {}) ELSE refuted,
              {Cite(e, "refutation", TRUE)})

SetLifecycle(c, status) ==
  /\ work.val[c] # Absent /\ status # "integrated"
  /\ LET moved == [work EXCEPT !.life[c] = status]
     IN Write("propose_status_transition",
              IF status = "superseded" THEN InvalidateDependents(moved, {c}, {}) ELSE moved,
              Evidence(c, "positive"))

\* An integration report stays usable: an earlier one may be cited again.
IntegrateClaim(r, resolved, fresh) ==
  LET c == RouteConcl[r]
  IN /\ patch.role = "integration_verifier"
     /\ fresh \/ r \in work.reports
     /\ GuardIntegration(work, c, r, resolved)
     /\ Write("propose_status_transition",
              [Integrate(work, c, r, resolved) EXCEPT !.reports = @ \cup {r}],
              IF fresh THEN {Cite(c, "positive", TRUE), Cite(r, "positive", TRUE)} ELSE {})

\* A published theorem becomes a premise-free verified inference for the claim;
\* the host opens the route and the inference unless they exist.
CertifyExternalCitation(c, i) ==
  LET r == RouteOf[i]
  IN /\ patch.role = "strict_informal_verifier" /\ work.val[c] # Absent
     /\ work.life[r] = Absent => RouteConcl[r] = c
     /\ work.val[i] = Absent => Concl[i] = c /\ DependsOn(i) = {}
     /\ Write("certify_external_citation",
              [work EXCEPT !.val = [@ EXCEPT ![c] = "informally_verified",
                                             ![i] = "informally_verified"],
                           !.life[r] = IF @ = Absent THEN "active" ELSE @,
                           !.sufficient = IF work.life[r] = Absent THEN @ \cup {r} ELSE @],
              {Cite(e, "positive", TRUE) : e \in {c, i, r}})

-----------------------------------------------------------------------------
GraphOperation ==
  \/ \E c \in Claims, st \in LifeChoices : AddClaim(c, st)
  \/ \E r \in Routes, st \in LifeChoices, b \in BOOLEAN : AddRoute(r, st, b)
  \/ \E r \in Routes, t \in 0..MaxText, b \in BOOLEAN : ReviseRoute(r, t, b)
  \/ \E r \in Routes, st \in LifeChoices : SetRouteStatus(r, st)
  \/ \E i \in Inferences : AddInference(i)
  \/ \E i \in Inferences : AppendExplanation(i)
  \/ \E i \in Inferences : AppendEvidence(i)
  \/ \E c \in Claims, h \in BOOLEAN : SetClaimAssurance(c, h)

DebtOperation ==
  \/ \E d \in Debts, b \in BOOLEAN, st \in DebtStatus \ {"refuted"} : AddDebt(d, b, st)
  \/ \E d \in Debts, b \in BOOLEAN, st \in DebtStatus \ {"refuted"} : UpdateDebt(d, b, st)
  \/ \E d \in Debts : RefuteDebt(d)
  \/ \E d \in Debts : ResolveDebt(d)

StatusTransition ==
  \/ \E e \in Claims \cup Inferences, st \in Demotions : Demote(e, st)
  \/ \E e \in Claims \cup Inferences, fresh \in BOOLEAN : InformallyVerify(e, fresh)
  \/ \E e \in Claims \cup Inferences : FormallyVerify(e)
  \/ \E e \in Claims \cup Inferences : Refute(e)
  \/ \E c \in Claims, st \in LifeChoices : SetLifecycle(c, st)
  \/ \E r \in Routes, resolved \in SUBSET Debts, fresh \in BOOLEAN :
       IntegrateClaim(r, resolved, fresh)
  \/ \E c \in Claims, i \in Inferences : CertifyExternalCitation(c, i)

Next ==
  \/ \E role \in Roles \cap VerifyingRoles, family \in Families : Begin(role, family)
  \/ \E role \in Roles \ VerifyingRoles : Begin(role, Unreviewed)
  \/ GraphOperation
  \/ DebtOperation
  \/ StatusTransition
  \/ Commit
  \/ Reject

Spec == Init /\ [][Next]_vars

-----------------------------------------------------------------------------
(* What the kernel promises *)

Subjects == (0..MaxText) \X BOOLEAN

CertificateOK(b) ==
  /\ DOMAIN b.deps \subseteq Entities
  /\ b \in [ent : Entities, kind : {ArtifactOf[role] : role \in VerifyingRoles},
            outcome : Outcome, targeted : BOOLEAN, family : Families \cup {Unreviewed},
            subject : Subjects, status : CertifiedStatus,
            deps : [DOMAIN b.deps -> Subjects \X Status]]

TablesOK(s) ==
  /\ s \in [val : [Claims \cup Inferences -> Validation \cup {Absent}],
            life : [Claims \cup Routes -> Lifecycle \cup {Absent}],
            text : [Inferences \cup Routes -> 0..MaxText],
            sufficient : SUBSET Routes,
            debt : [Debts -> DebtStatus \cup {Absent}],
            blocking : SUBSET Debts,
            heterogeneous : SUBSET Claims,
            reports : SUBSET Routes,
            certs : {s.certs}]
  /\ \A b \in s.certs : CertificateOK(b)

Patches ==
  [open : BOOLEAN, role : VerifyingRoles \cup {"researcher", "host"},
   family : Families \cup {Unreviewed},
   cites : SUBSET [ent : Entities, outcome : Outcome, targeted : BOOLEAN],
   ops : 0..MaxOps]

\* Every table column, the open patch and the history keep their types.
TypeOK ==
  /\ TablesOK(db) /\ TablesOK(work)
  /\ patch \in Patches
  /\ revision \in 0..MaxRevision
  /\ bound \subseteq Entities

\* A verified inference was reviewed, in some committed patch, with the very
\* text it has now and with each of its premises standing as it stands now:
\* digests, promotions and revocations never let a review outlive its subject
\* (certificates.py, dependency_digest and rebase_dependency_lifecycle_bindings).
ReviewedAsItStands ==
  \A i \in VerifiedIn(db, Inferences) : Configuration(db, i) \in reviewed

\* When a commit refutes or supersedes a claim, everything derived from it,
\* however far downstream, loses its verified status in the same commit unless
\* that commit brings a new review (certificates.py, invalidate_dependents).
RefutationRevokes ==
  [][\A c \in Claims :
       (\/ db.val[c] # "refuted" /\ db'.val[c] = "refuted"
        \/ db.life[c] # "superseded" /\ db'.life[c] = "superseded")
       => VerifiedIn(db, Downstream(db, {c}) \ {c}) \cap VerifiedIn(db', Claims)
            \subseteq bound']_vars

\* A claim or inference whose verification was withdrawn, or that never had
\* one, becomes verified only in a commit that brings a review of it: an old
\* certificate that matches again cannot reinstate it on its own
\* (patches.py, _artifact_is_bound_to_entity).
ReinstatedByReview ==
  [][\A e \in Claims \cup Inferences :
       db.val[e] \in Open /\ db'.val[e] \in Verified => e \in bound']_vars

\* Where nothing is left to reconcile, an integration that passes its guard is
\* accepted: promoting a claim leaves every other certificate usable
\* (certificates.py, rebase_dependency_lifecycle_bindings).  Refuted obligations
\* are excepted: promoting the route they were judged against reopens them.
IntegrationLands ==
  \A r \in Routes :
    LET c == RouteConcl[r]
        report == [NoPatch EXCEPT !.role = "integration_verifier",
                                  !.cites = {Cite(c, "positive", TRUE), Cite(r, "positive", TRUE)}]
        sealed == Seal(db, Integrate(db, c, r, {}), report)
    IN /\ ReconcileInvalidIntegrations(db) = db
       /\ \A d \in Debts : db.debt[d] # "refuted"
       /\ GuardIntegration(db, c, r, {})
       => Valid(sealed) /\ sealed.life[c] = "integrated"

\* A commit leaves nothing to reconcile: a second pass over the integrations
\* changes no status, unless the commit reopened a refuted obligation
\* (patches.py, _reconcile_invalid_integrations).
Settled ==
  [][revision' # revision
     /\ (\A d \in Debts : db.debt[d] = "refuted" => db'.debt[d] # "active")
     => ReconcileInvalidIntegrations(db') = db']_vars

\* A claim designated for heterogeneous review is integrated only on the word
\* of two model families, of a human or of a formal check, whichever of the
\* designation and the integration came first (assurance.py,
\* claim_assurance_summary).
HeterogeneousReview ==
  \A c \in db.heterogeneous :
    LET on(e) == {b \in db.certs : b.ent = e /\ b.kind \in ReviewKinds}
        families(e) == {b.family : b \in on(e)}
    IN db.life[c] = "integrated"
       => \/ \E b \in on(c) : b.kind = "formal_backend_result"
          \/ families(c) \cap HumanFamilies # {}
          \/ \A i \in VerifiedIn(db, Inferences) :
               /\ Concl[i] = c
               /\ RouteConcl[RouteOf[i]] = c
               /\ db.life[RouteOf[i]] = "integrated"
               => Cardinality(families(c) \cap families(i) \cap ModelFamilies) >= 2
=============================================================================
