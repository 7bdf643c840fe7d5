CONSTANTS
  a = a  b = b  j1 = j1  j2 = j2  s1 = s1  e1 = e1  v1 = v1  v2 = v2
  radar = radar  graph = graph  search = search  spider = spider  seed = seed
  None = None
  Channels = {a}
  Jobs = {j1}
  Processes = {s1, e1, v1, v2, radar, graph, search, spider, seed}
  Setups <- LiveSetups
  Tiers = {"high"}
  MaxPosts = 2
  Budgets = {1}
  MaxQueue = 2
  MaxFaults = 1
  Schedulers = {s1}
  Embedded = {}
  StaleEvery = 1
  PressureAt = 4
  Producers = {radar, graph, search, spider}
  Routes <- MCRoutes
  SeedWorker = seed
  Validators = {v1}
SPECIFICATION FairSpec
PROPERTIES DueIsScheduled RunningJobCloses
CHECK_DEADLOCK FALSE
