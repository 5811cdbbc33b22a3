CONSTANTS
  Signatures = {"read"}
  MaxCalls = 2
  MaxTurns = 2
  MaxIdentical = 1
  MaxResends = 1
  Capacity = 1
  Registries <- MCRegistries
  Default <- MCDefault
  EscalateOn <- MCEscalateOn
  MaxEscalations = 2
  TaskCapacity = 1
  Callers = {a1, a2, a3}
  CallsEach = 1
  MaxInFlight = 2
  Burst = 2
  Rate = 1
  BaseBackoff = 2
  MaxBackoff = 3
  MaxRetries = 1
  PollDelay = 1
  Horizon = 4
  FloorMb = 2
  HysteresisStrikes = 3
  StrikeCap = 5
  MemoryReadings <- MCReadings
  Catalogue <- MCCatalogue
  Providers = {"local", "hosted"}
  Scripts <- MCScripts
  Width = 3
  MaxAttempts = 2
  MaxChunk = 5
SPECIFICATION MCSpec
INVARIANTS AnswerIsWhatWasSent RoutingHonoured ClosedByLowRun SlotsConserved Paced AnsweredBeforeChat TerminalNeverDropped OneTerminalPerTask LadderIsClimbed LateRequestsBounded
PROPERTIES OneStragglerPerPause EverythingReturns
