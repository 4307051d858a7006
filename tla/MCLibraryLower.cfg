\* The pool is lowered while leases run.
SPECIFICATION Spec
CONSTANTS
  Borrowers = {b1, b2}
  None = None
  MaxCount = 2
  MaxTtl = 1
  MaxAge = 0
  Slack = 0
  MaxLeases = 4
PROPERTY LoweringWithholds
