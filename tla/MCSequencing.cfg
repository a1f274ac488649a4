CONSTANTS
  CommandDepth = 1
  Wrap = 8
  MaxStall = 2
  MaxJobs = 3
  MaxErrors = 4
  MAX_SCHEDULED = 2
  MAX_SEQUENCE_ENTRIES = 2
  EventDepth = 1
  MAX_RULES = 2
  Mode <- MCMode
  Campaign <- MCCampaign
  RadioBurst = 1
SPECIFICATION Spec
INVARIANTS
  LossIsRecorded
  OneRulePerTarget
PROPERTIES
  ImplementsAgenda
  NoneOverdue
