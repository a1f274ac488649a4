CONSTANTS
  Modulus = 7
  SEQ_WRAP_HIGH = 4
  SEQ_WRAP_LOW = 3
  PortDepth = 1
  MaxIssued = 9
  LinkDepth = 2
  MaxDelay = 2
SPECIFICATION Spec
INVARIANTS
  ReplayStateKept
  FreshNotRefused
PROPERTIES
  ExecutedOnceInOrder
