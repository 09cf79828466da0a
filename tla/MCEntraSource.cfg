CONSTANTS
  Ids = {"u1", "u2"}
  Groups = {"g1", "g2"}
  Aliases = {"x", "y"}
  AliasesOf <- MCAliasesOf
  InitMembers <- MCInitMembers
  MaxChanges = 2
  MaxFaults = 2
SPECIFICATION Spec
INVARIANTS
  TypeOK
  NoChangeLost
  ResultIsCurrent
  GroupsComplete
PROPERTIES
  CatchesUp
