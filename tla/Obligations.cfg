SPECIFICATION Spec
CONSTANTS
  Claims = {"root", "q"}
  Inferences = {"i1"}
  Routes = {"r1"}
  Debts = {"d"}
  Root = "root"
  Concl <- OneConcl
  RouteOf <- OneRouteOf
  Premises <- OnePremises
  Conditions <- OnePremises
  RouteConcl <- OneRoute
  Owner <- RootDebt
  ModelFamilies = {"A"}
  HumanFamilies = {}
  Seeded = {"root"}
  Roles = {"researcher", "strict_informal_verifier", "integration_verifier"}
  OpKinds = {"add_claim", "add_route", "add_inference", "update_route", "add_debt",
             "update_debt", "resolve_debt", "propose_status_transition",
             "certify_external_citation"}
  Demotions = {"challenged"}
  LifeChoices = {"active", "blocked"}
  MaxText = 1
  MaxOps = 1
  MaxRevision = 5
PROPERTY Settled
CHECK_DEADLOCK FALSE
