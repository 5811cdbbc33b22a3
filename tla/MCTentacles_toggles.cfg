CONSTANTS
  Sessions = {s1, s2}
  Lines = {1, 2}
  First = 1
  NoFile = NoFile
  Torn = Torn
SPECIFICATION StoreSpec
INVARIANT TogglesAllCount
CHECK_DEADLOCK FALSE
