\* Receipts, weights and surroundings replaced at any moment.
SPECIFICATION MCSpec
CONSTANTS
  Case <- TwoCases
  Metrics <- TwoMetrics
  RequiredMetrics <- MCRequired
  Requirement <- MCRequirement
  Offered <- MCOffered
  Weights <- MCWeights
  Entry <- MCEntry
  Licenses <- MCLicenses
  Requests <- MCPlanRequests
  Lives <- MCLives
  MaxReplaced = 1
INVARIANTS
  RecipesAreQualified
  WeightsAreWhole
  StartedJobsFit
