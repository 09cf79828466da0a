\* The rows of a collection change while it is read.
CONSTANTS
  Keys = {1, 2, 3, 4, 5}
  InitRows = {2, 3, 4}
  Blank = Blank
  Serials <- MCSerials
  PageSize = 2
  MaxChanges = 2
SPECIFICATION Spec
INVARIANT SnapshotIsComplete
