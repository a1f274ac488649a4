CONSTANTS
  radio = radio
  cmd_sequencer = cmd_sequencer
  radioThread = radioThread
  normThread = normThread
  Producers <- MCProducers
  Threads <- MCThreads
  ThreadOf <- MCThreadOf
  ConsumerThread = normThread
  Capacity = 2
  Words = {1, 2}
  MaxSends = 2
SPECIFICATION Spec
INVARIANT
  AcceptedNotLost
