\* Two sources, up to two rows each, of two serial numbers and blank ones.
CONSTANTS
  Sources = 2
  Serials = {"s1", "s2"}
  Times = {1, 2}
  Keys = {1, 2}
  MaxRows = 2
SPECIFICATION Spec
INVARIANTS
  BestIsSelected
