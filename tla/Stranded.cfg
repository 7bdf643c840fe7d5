SPECIFICATION FairSpec
CONSTANTS
  Rows = {x1, x2}
  Leads = {x1, x2}
  Contacts = {c1}
  LeadOf <- OwnLead
  ContactOf <- SharedContact
  None = None
  Deployments <- ValidatorAlone
  Modes <- LiveOnly
  DryKeys <- NoKey
  SendLimit = 1
  DailyTarget = 1
  BurstSize = 1
  MaxCrashes = 1
  MaxLost = 0
  MaxMoves = 0
PROPERTIES
  EveryDueRowResolves
