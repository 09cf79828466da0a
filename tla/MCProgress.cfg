\* Two stages and warnings in any order, in every mode of output.
CONSTANTS
  Labels = {"fetch", "apply"}
  Height = 2
  MaxRecords = 4
SPECIFICATION Spec
INVARIANTS
  TypeOK
  LiveRegionLast
PROPERTIES
  NothingErased
  Ends
