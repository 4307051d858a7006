CONSTANTS
  ann = ann
  bob = bob
  cat = cat
  dan = dan
  None = None
  Parts = {"poll", "peek", "forward", "adapters", "mail", "text", "key"}
  PeekCount = 3
  PeekLimit = 2
  PeekWindow = 0
  PeekClock = 1
  Forwarders = {ann, bob}
  ForwardCount = 3
  ForwardLimit = 2
  ForwardFails = 1
  ForwardFaults = 1
  Events = {"d1", "d2"}
  Tried = "d1"
  Inboxes = {"i1", "i2"}
  FirstInbox = "i1"
  InboxLimit = 2
  Providers = {"plain", "webmention", "pingback", "slack", "discord", "cloudevents", "websub", "meta"}
  AdapterFaults = 2
  Users = {ann, bob}
  Links = {cat, dan}
  Names = {"alias"}
  Clients = {"client"}
  Mails = {"mail"}
  LinkLife = 1
  Lives = {0, 1}
  LetterLines = 4
  Programs = {"p1", "p2", "p3"}
  MaxStarts = 4
SPECIFICATION Spec
SYMMETRY Symmetry
INVARIANTS
  PollsWake PeekInOrder ForwardsOnce EventsStoredOnce
  MailReachesHolder MailTextArrives OnePrivateKey
PROPERTIES EmptyAnswerIsFresh ForwardersKeepStore BounceIsLate
\* Deliveries are read, or done, at last.
CHECK_DEADLOCK FALSE
