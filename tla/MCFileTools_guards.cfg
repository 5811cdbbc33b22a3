CONSTANTS
  Agents = {a1, a2}
  Inodes = {i1, i2, i3, i4}
  NoInode = NoInode
  Old = Old
  Empty = Empty
  Mixed = Mixed
SPECIFICATION ToolsSpec
INVARIANTS ReadsAreWhole
