SPECIFICATION FairSpec
CONSTANTS
  Workers = {w1, w2}
  Clients = {c1}
  SampleUsers = {"admin", "demo-user"}
  Guests = {"guest"}
  Rpm = 2
  Window = 2
  MaxTime = 3
INVARIANTS
  TypeOK
  SamplesAreWhole
  RateLimited
  RefusalsAreDue
PROPERTIES
  StartsComeUp
