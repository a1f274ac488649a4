CONSTANTS
  ActiveCount = 2
  MAX_RESTARTS = 2
SPECIFICATION Spec
INVARIANTS
  NoThreadLeft
  OneOwner
PROPERTIES
  SignalStops
