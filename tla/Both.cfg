SPECIFICATION Spec
CONSTANTS
  Rows = {x1, x2}
  Leads = {l1}
  Contacts = {c1}
  LeadOf <- OneLead
  ContactOf <- SharedContact
  None = None
  Deployments <- BothAtOnce
  Modes <- LiveOnly
  DryKeys <- NoKey
  SendLimit = 1
  DailyTarget = 1
  BurstSize = 2
  MaxCrashes = 0
  MaxLost = 0
  MaxMoves = 0
SYMMETRY RowSymmetry
INVARIANTS
  ApprovedOnly
PROPERTIES
  SettledIsFinal
