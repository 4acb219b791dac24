SPECIFICATION SarSpec
CONSTANTS
  MaxCalls = 2
  MaxPrompts = 2
INVARIANTS
  LeftIsDestroyed
