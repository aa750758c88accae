SPECIFICATION Spec
CONSTANTS
  Users = {u1}
  Requests = {r1, r2}
  MaxRequests = 4
  MaxDay = 0
INVARIANTS
  BlockRateIsAPercentage
