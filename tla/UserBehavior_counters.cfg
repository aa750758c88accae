SPECIFICATION FairSpec
CONSTANTS
  Users = {u1, u2}
  Requests = {r1, r2}
  MaxRequests = 3
  MaxDay = 1
INVARIANTS
  TypeOK
  RowsHaveUsers
  NeverOvercounts
  ExactUnlessRaced
PROPERTIES
  EventuallyAnswered
