CONSTANTS
  Ids = {a, b}
  First = a
  Burst = 1
  Lost = {1}
  Template = Template
  Nothing = Nothing
  Draft = Draft
  MaxFrames = 2
  MaxChanges = 2
  MaxFaults = 1
SPECIFICATION Spec
INVARIANTS OneWayBack SettledViewIsStored
PROPERTIES ReadyAgain
