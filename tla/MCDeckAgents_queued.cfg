CONSTANTS
  Conns = {c1}
  Agents = {1, 2}
  ClassOf <- MCClassOf
  Slots <- MCSlots
  NativeMaxAgents = 1
  NoConn = NoConn
  NoAgent = 0
SPECIFICATION SafetySpec
INVARIANTS CancelledLeavesList
