CONSTANTS
  Branches = {main, f1}
  Base = main
  Torn = Torn
  MaxCheckouts = 1
  Commits = {c1, c2}
  Options <- MCOptions
  MaxRuns = 2
  MaxEngulfs = 2
  MaxLosses = 8
  UserHooks = 3
  Trees <- MCTrees
  PhaseLists <- MCPhaseLists
  Answers <- MCAnswers
  Mappings <- MCMappings
  Templates <- MCTemplates
  Rows = 2
  Sample = 2
  Agents = {a1, a2}
  Inodes = {i1, i2, i3, i4}
  NoInode = NoInode
  Old = Old
  Empty = Empty
  Mixed = Mixed
SPECIFICATION MCSpec
INVARIANTS VerdictsStand SuccessIsTrue NewestHookKept WrittenIsCurrent CommittedEnvBlocks
PROPERTIES TemplatesFillGaps PushedWasGated WeakerNeverPasses ImplementsAtomicFile
CHECK_DEADLOCK FALSE
