SPECIFICATION CalmSpec
CONSTANTS
  IoSdk = {i1}
  CrSdk = {c1}
  Custom = {x1}
  Workers = {w1}
  Admins = {a1}
  Kinds = {"io", "cr", "both"}
  Ops <- AllOps
INVARIANTS
  TypeOK
  EnabledRulesEnforced
  DeletedRulesGone
  DivergenceHasCause
  FreshReloadAgrees
