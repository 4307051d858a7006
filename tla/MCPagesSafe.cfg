CONSTANTS
  ann = ann
  bob = bob
  cat = cat
  dan = dan
  None = None
  Parts = {"renders", "shots", "fonts", "metadata", "icons", "workers", "figures"}
  Renders = {ann, bob}
  ChromeRenders = 1
  ShotClients = {ann, bob, cat}
  ShotPages = {"page"}
  ShotTtl = 1
  ShotBrowsers = 2
  ShotPermits = 2
  ShotRenders = 2
  GateBits = 2
  GateBytes = 2
  GateLevel = 2
  GateDim = 2
  GateWindow = 1
  GateSkew = 2
  Families = {cat, dan}
  FontDirs = 2
  FontClients = {"client"}
  FontPulls = 2
  FontFiles = {ann, bob}
  FontPanics = 0
  IconSites = {"linked", "inline", "declared", "fallback", "none"}
  IconChanges = 2
  StatServers = {ann, bob}
  StatMembers = {"x"}
  StatQueue = 2
  StatBatch = 2
  StatHour = 1
  StatDay = 2
  StatHours = 2
  StatDays = 2
  StatEvents = 4
  StatClock = 2
  StatLoads = 1
  FigureEvents = 2
  TextLines = 5
  QueryLen = 4
SPECIFICATION Spec
SYMMETRY Symmetry
INVARIANTS AnswersReachCalls  FontsFound FetchFindsIcon StatsAddUp
PROPERTIES ReplacedOnlyWhenSpent ListedIsServed
\* Queries and texts end, and requests with their answers.
CHECK_DEADLOCK FALSE
