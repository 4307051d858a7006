CONSTANTS
  ann = ann
  bob = bob
  cat = cat
  dan = dan
  None = None
  Parts = {"renders", "recycled", "shots", "gate", "fonts", "icons", "workers", "query"}
  Renders = {ann}
  ChromeRenders = 1
  ShotClients = {ann, bob}
  ShotPages = {"page"}
  ShotTtl = 1
  ShotBrowsers = 2
  ShotPermits = 1
  ShotRenders = 1
  GateBits = 2
  GateBytes = 2
  GateLevel = 2
  GateDim = 2
  GateWindow = 1
  GateSkew = 2
  Families = {cat, dan}
  FontDirs = 2
  FontClients = {"client"}
  FontPulls = 2
  FontFiles = {ann}
  FontPanics = 1
  IconSites = {"fallback", "none"}
  IconChanges = 1
  StatServers = {ann, bob}
  StatMembers = {"x"}
  StatQueue = 2
  StatBatch = 2
  StatHour = 1
  StatDay = 2
  StatHours = 2
  StatDays = 2
  StatEvents = 3
  StatClock = 1
  StatLoads = 0
  FigureEvents = 2
  TextLines = 5
  QueryLen = 4
SPECIFICATION FairSpec
INVARIANTS GateHolds QueriesAgree
PROPERTY PagesSettle
\* All renders of the instance may be over.
CHECK_DEADLOCK FALSE
