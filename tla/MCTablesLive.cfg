CONSTANTS
  ann = ann
  bob = bob
  cat = cat
  dan = dan
  None = None
  Parts = {"borrow", "starting", "serving", "secrets", "aliases"}
  Senders = {}
  Claimers = {}
  Enqueues = {ann}
  Acks = {}
  Starts = {bob}
  Readers = {ann}
  SecretIds = {"id"}
  Notes = {"once", "many"}
  ReadOnce = {"once"}
  SecretTries = 1
  SecretHours = 1
  Askers = {ann, bob}
  AliasTargets = {cat, dan}
  AliasIds = {1, 2}
  AliasTries = 2
  AliasFaults = 1
  Owners = {ann, bob}
  Links = {cat, dan}
  Names = {"alias"}
  Visits = {"r1", "r2"}
  LinkLife = 2
  Lives = {0, 1}
SPECIFICATION FairSpec
PROPERTY RequestsEnd
\* Time ends, and the draws of ids.
CHECK_DEADLOCK FALSE
