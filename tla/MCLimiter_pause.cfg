CONSTANTS
  Callers = {a1, a2}
  CallsEach = 1
  MaxInFlight = 1
  Burst = 2
  Rate = 1
  BaseBackoff = 2
  MaxBackoff = 3
  MaxRetries = 1
  PollDelay = 1
  Horizon = 3
SPECIFICATION LSpec
PROPERTIES NoCallDuringPause
