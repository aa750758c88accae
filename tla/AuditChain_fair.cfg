SPECIFICATION FairSpec
CONSTANTS
  Gateways = {g1}
  Reviewers = {v1}
  MaxBatch = 2
  MaxRequests = 3
  MaxDay = 2
  Retention = 1
  Instants = {1}
PROPERTIES
  GrowsInLine
  EventuallySealed
