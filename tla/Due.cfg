CONSTANTS
  a = a  b = b  j1 = j1  j2 = j2  s1 = s1  e1 = e1  v1 = v1  v2 = v2
  radar = radar  graph = graph  search = search  spider = spider  seed = seed
  None = None
  Channels = {a, b}
  Jobs = {j1, j2}
  Processes = {s1, e1, v1, v2, radar, graph, search, spider, seed}
  Setups <- DueSetups
  Tiers = {"high"}
  MaxPosts = 2
  Budgets = {1}
  MaxQueue = 2
  MaxFaults = 1
  Schedulers = {s1, e1}
  Embedded = {e1}
  StaleEvery = 1
  PressureAt = 4
  Producers = {radar, graph, search, spider}
  Routes <- MCRoutes
  SeedWorker = seed
  Validators = {v1, v2}
SPECIFICATION FairSpec
PROPERTY DueIsCrawled
CHECK_DEADLOCK FALSE
