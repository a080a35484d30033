SPECIFICATION Spec
CONSTRAINT Scenes
CONSTANTS
  Claims = {"root", "p"}
  Inferences = {"ip", "ir"}
  Routes = {"rp", "rr"}
  Debts = {}
  Root = "root"
  Concl <- ChainConcl
  RouteOf <- ChainRouteOf
  Premises <- ChainPremise
  Conditions <- ChainCondition
  RouteConcl <- ChainRoutes
  Owner <- NoDebt
  ModelFamilies = {"A", "B"}
  HumanFamilies = {"H"}
  Seeded = {"root", "p", "ip", "ir", "rp", "rr"}
  Roles = {"strict_informal_verifier", "integration_verifier", "formal_backend", "host"}
  Demotions = {"challenged"}
  LifeChoices = {"superseded"}
  OpKinds = {"update_inference", "propose_status_transition",
             "certify_external_citation", "set_claim_assurance"}
  MaxText = 1
  MaxOps = 1
  MaxRevision = 4
INVARIANTS TypeOK ReviewedAsItStands IntegrationLands HeterogeneousReview
PROPERTIES RefutationRevokes ReinstatedByReview
CHECK_DEADLOCK FALSE
