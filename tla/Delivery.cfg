SPECIFICATION Spec
CONSTANTS
  Rows = {x1, x2}
  Leads = {x1, x2}
  Contacts = {c1}
  LeadOf <- OwnLead
  ContactOf <- SharedContact
  None = None
  Deployments <- OneDispatcher
  Modes <- AllModes
  DryKeys <- Overruled
  SendLimit = 2
  DailyTarget = 2
  BurstSize = 1
  MaxCrashes = 0
  MaxLost = 1
  MaxMoves = 0
SYMMETRY RowSymmetry
INVARIANTS
  TypeOK
  StopBoundsDispatch
  RejectionHonoured
  DryRunSilent
