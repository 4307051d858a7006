\* Two consumers that claim several deliveries of an inbox at once, with two
\* places in each: the store behind them, and the progress of all.
SPECIFICATION FairSpec
CONSTANTS
  Keys = {1, 2}
  Senders = {s1, s2}
  Consumers = {c1, c2}
  None = None
  MaxEnqueues = 2
  MaxRequests = 2
  Limit = 2
  Recovery = 1
PROPERTIES ImplementsStore EnqueueAnswered ClaimRecovered
