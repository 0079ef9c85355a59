\* Concurrent calls of Acquire around the expiry and the sweep.
CONSTANTS
  c1 = c1  c2 = c2  c3 = c3  c4 = c4  c5 = c5  d1 = d1  d2 = d2  d3 = d3
  NotRead = NotRead
  Callers <- MCCallers
  DKeys = {d1, d2, d3}
  DKeyOf <- MCDKeyOf
  TTL = 2
  CleanupAt = 1
  MaxNow = 3
SPECIFICATION DedupSpec
SYMMETRY Alike
INVARIANTS DedupTypeOK SuppressedForTTL RefusedOnlyIfCovered
PROPERTIES NoGarbageBeyondLimit
CHECK_DEADLOCK FALSE
