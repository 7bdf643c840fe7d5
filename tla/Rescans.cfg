SPECIFICATION Spec
CONSTANTS
  Rows = {x1, x2}
  Leads = {x1, x2}
  Contacts = {x1, x2}
  LeadOf <- OwnLead
  ContactOf <- OwnContact
  None = None
  Deployments <- OneDispatcher
  Modes <- LiveOnly
  DryKeys <- NoKey
  SendLimit = 1
  DailyTarget = 1
  BurstSize = 1
  MaxCrashes = 1
  MaxLost = 0
  MaxMoves = 1
SYMMETRY RowSymmetry
INVARIANTS
  DuplicatesExplained
  DailyTargetKept
PROPERTIES
  KeepsPromise
