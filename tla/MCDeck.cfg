CONSTANTS
  Conns = {c1, c2}
  Agents = {1, 2}
  ClassOf <- MCClassOf
  Slots <- MCSlots
  NativeMaxAgents = 1
  NoConn = NoConn
  NoAgent = 0
  Clients = {c1, c2}
  NoClient = NoClient
  Terminals = {t1, t2, t3, t4}
  MaxAgents = 2
  NoTerm = NoTerm
  Sessions = {c1, c2}
  Lines = {1}
  First = 1
  NoFile = NoFile
  Torn = Torn
  Loggers = {l1, l2}
  MaxEntries = 4
SPECIFICATION MCSpec
INVARIANTS NoOrphans ClosedFreesCapacity CapInv NoOrphanTerminals TornIsInProgress LogIsEvidence
PROPERTIES CleanupEnds
