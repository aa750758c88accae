SPECIFICATION Spec
CONSTANTS
  IoSdk = {i1}
  CrSdk = {}
  Custom = {x1}
  Workers = {w1}
  Admins = {a1, a2}
  Kinds = {"io"}
  Ops <- ThreadOps
SYMMETRY Symmetry
INVARIANTS
  DivergenceHasCause
