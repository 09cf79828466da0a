\* Three rows in any part, pages of two, and up to two changes meanwhile.
CONSTANTS
  Keys = {1, 2, 3, 4, 5}
  InitRows = {2, 3, 4}
  Blank = Blank
  Serials <- MCSerials
  PageSize = 2
  MaxChanges = 2
SPECIFICATION Spec
INVARIANTS
  NothingMissed
  SerialsResolved
PROPERTIES
  Ends
