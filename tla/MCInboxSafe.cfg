\* Three deliveries of two senders to overlapping recipients, two consumers,
\* two inboxes of two places: every lock conflict between enqueues and acks,
\* refusals, and claims that overlap, run out and are acked late.
SPECIFICATION Spec
CONSTANTS
  Keys = {1, 2}
  Senders = {s1, s2}
  Consumers = {c1, c2}
  None = None
  MaxEnqueues = 3
  MaxRequests = 2
  Limit = 2
  Recovery = 1
SYMMETRY Symmetry
INVARIANTS TypeOK AllOrNothing NoWaitCycle CountExact WithinCapacity
PROPERTIES RefusedOnlyWhenFull LeaseNotStolen
