CONSTANTS
  ann = ann  bob = bob  v = v  e = e  m = m  user = user  own = own  other = other  t1 = t1  t2 = t2
  h1 = h1  h2 = h2  g1 = g1  g2 = g2  NoContact = NoContact  None = None  Stale = Stale
  NumRows = 2
  Contacts = {ann, bob}
  Handlers = {h1, h2}
  BatchLimit = 2
  DailyLimit = 1
  MaxWrites = 2
  MaxFailures = 2
  MaxSwitches = 2
  Scenes <- MCScenes
  Workers = {v, e, m}
  Sessions = {user, own, other}
  UserSession = user
  Primary <- MCPrimary
  Clients <- MCClients
  Borrower = v
  Tasks = {t1, t2}
  MaxTries = 2
  MaxUpsets = 2
  Pools <- MCPools
  Groups = {g1, g2}
  JoinLimit = 1
  LeaveLimit = 1
  CycleLimit = 2
  Target = 1
  MaxIncidents = 1
  Rosters <- MCRosters
  Deployments <- MCDeployments
SPECIFICATION FairSpec
INVARIANTS TypeOK OneSecondMessage OneFollowup StopHolds DailyLimitHolds ExclusiveSession ActiveJobs JoinLimitHolds LeaveLimitHolds
PROPERTIES FollowUpOnlyToSilent RequestEnds WorkerStarts NoticedIsAnswered FollowupSettles OwnGroupsStay RejectedIsLeft
CHECK_DEADLOCK FALSE
