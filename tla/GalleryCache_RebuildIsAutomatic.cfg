CONSTANTS
  a = a
  b = b
  p = p
  q = q
  r = r
  Envs = {"home", "work"}
  Files = {a, b}
  Profiles = {p, q, r}
  Under <- Sources
  MaxOps = 3
  MaxCrashes = 1
SPECIFICATION Spec
PROPERTY RebuildIsAutomatic
CHECK_DEADLOCK FALSE
