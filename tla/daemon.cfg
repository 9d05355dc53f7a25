SPECIFICATION MCSpec
CONSTANTS
  d1 = d1  d2 = d2  w1 = w1  w2 = w2
  Daemons = {d1, d2}
  Ttl <- Ttls
  Stopping = {d1, d2}
  Workers = {w1, w2}
  NoDaemon = NoDaemon
  Prompt = TRUE
  Background = {"w1", "w2"}
  Pinned = {"w1"}
  Capacity = 4
  MaxBurst = 2
  MaxWaits = 2
CHECK_DEADLOCK FALSE
INVARIANT DaemonsAccounted
INVARIANT JobsCounted
PROPERTY MarkedIsReleased
PROPERTY WaitsEnd
