\* One identity source, Snipe and one device source; every command.
CONSTANTS
  Sources = {"entra", "snipe", "intune"}
  MaxCalls = 2
  MaxSignals = 3
SPECIFICATION Spec
INVARIANTS
  TypeOK
  WritesNeedAllSources
  NoStragglers
  QuietAfterCancel
  ExitCodeTells
PROPERTIES
  SecondSignalKills
  EndsWhenItShould
  LoopGoesOn
