CONSTANTS
  ann = ann
  bob = bob
  cat = cat
  dan = dan
  None = None
  Parts = {"slots", "alarms", "serving", "starting", "secrets", "aliases", "email"}
  Senders = {ann}
  Claimers = {"claim"}
  Enqueues = {ann, bob}
  Acks = {"ack"}
  Starts = {"start"}
  Readers = {ann, bob}
  SecretIds = {"id"}
  Notes = {"once", "many"}
  ReadOnce = {"once"}
  SecretTries = 2
  SecretHours = 1
  Askers = {ann, bob, "third"}
  AliasTargets = {cat, dan}
  AliasIds = {1, 2, 3}
  AliasTries = 2
  AliasFaults = 1
  Owners = {ann, bob}
  Links = {cat, dan}
  Names = {"alias"}
  Visits = {"r1", "r2"}
  LinkLife = 2
  Lives = {0, 1}
SPECIFICATION Spec
SYMMETRY Symmetry
INVARIANTS OneLeasePerSlot BorrowersWake CirclesAreKnown SecretsKept AliasesStand
PROPERTIES GrantsFreeSlot OverIsOver OwnersStand
\* Time ends, and the draws of ids.
CHECK_DEADLOCK FALSE
