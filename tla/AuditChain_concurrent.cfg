SPECIFICATION Spec
CONSTANTS
  Gateways = {g1, g2}
  Reviewers = {v1}
  MaxBatch = 1
  MaxRequests = 3
  MaxDay = 2
  Retention = 1
  Instants = {1}
SYMMETRY Symmetry
INVARIANTS
  TypeOK
  SealsFollowCommits
  NoRowSealedTwice
  LinksLeadBack
  ForksNeedOverlap
PROPERTIES
  GrowsAsTree
  BrokenForGood
