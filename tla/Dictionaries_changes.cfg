SPECIFICATION Spec
CONSTANTS
  Codes = {c1, c2}
  Seeded = {c1}
  Words = {k1, k2}
  SeedWords = {k1}
  Extended = {c1}
  ExtraWords = {k2}
  Workers = {w1}
  Lists = {{k2}}
  Admins = {a1, a2}
  Script = script
  Ids = {d1, d2}
  MaxVersion = 2
SYMMETRY Symmetry
INVARIANTS
  TypeOK
  FreshEnginesFollowTable
PROPERTIES
  ChangesAreAtomicUnlessStale
