SPECIFICATION FairSpec
CONSTANTS
  Requests = {r1, r2}
  Proxies = {p1}
  Cleaner = cleaner
  Threads = 2
  Capacity = 2
INVARIANTS
  TypeOK
  NothingLeaks
  GridlockNeedsCapacity
  BlockedStaysHere
PROPERTIES
  EveryRequestEnds
  LoopGoesOn
