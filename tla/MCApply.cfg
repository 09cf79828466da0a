\* Two users and two assets: what apply does and reports, and the contract.
CONSTANTS
  NU = 2
  NA = 2
  Plans <- MCPlans
SPECIFICATION Spec
INVARIANTS
  TypeOK
  ReportTruthful
  Prerequisites
  CheckoutHasRealUser
  BlockedHasFailedPrerequisite
  PhaseBarrier
  SummaryTruthful
PROPERTIES
  NoCallAfterCancel
  Returns
  ImplementsContract
