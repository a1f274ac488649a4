CONSTANTS
  radio = radio
  radioThread = radioThread
  normThread = normThread
  Producers <- MCProducers
  Threads <- MCThreads
  ThreadOf <- MCThreadOf
  ConsumerThread = normThread
  Capacity = 2
  Words = {1, 2}
  MaxSends = 5
SPECIFICATION Spec
INVARIANTS
  TypeOK
  ExactlyOnceInOrder
  SendsAccounted
PROPERTIES
  ImplementsFifo
