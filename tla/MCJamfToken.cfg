\* One client, request after request; three tokens end early, two calls fail.
CONSTANTS
  MaxRetired = 3
  MaxFaults = 2
SPECIFICATION Spec
INVARIANTS
  TypeOK
  OneRefusalSurvived
PROPERTIES
  TakesLatest
  Recovers
