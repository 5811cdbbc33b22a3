CONSTANTS
  Signatures = {"read"}
  MaxCalls = 2
  MaxTurns = 3
  MaxIdentical = 2
  MaxResends = 1
  Capacity = 2
SPECIFICATION SafetySpec
INVARIANTS CutShortIsNotFinished
