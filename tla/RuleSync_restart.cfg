SPECIFICATION CalmSpec
CONSTANTS
  IoSdk = {i1}
  CrSdk = {c1}
  Custom = {}
  Workers = {w1}
  Admins = {a1}
  Kinds = {"io"}
  Ops <- ToggleOnly
PROPERTIES
  RestartKeepsDisabled
