\* An instance starts while another one serves two consumers and two senders.
SPECIFICATION BootSpec
CONSTANTS
  Keys = {1}
  Senders = {s1, s2}
  Consumers = {c1}
  None = None
  Booting = boot
  MaxEnqueues = 3
  MaxRequests = 2
  Limit = 1
  Recovery = 1
INVARIANT HoldsAtMostLimit
