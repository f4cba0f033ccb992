SPECIFICATION FairSpec
CONSTANTS
  Handlers = {h1, h2}
  Ids = {i1, i2}
  Objects = {s1, s2}
  Configs = {c1}
  Calls = {"create", "getTTL", "destroy", "apply", "shutdown"}
  None = None
  h1 = h1
  h2 = h2
  i1 = i1
  i2 = i2
  s1 = s1
  s2 = s2
  c1 = c1
INVARIANTS NoOrphan SerializedUse OrderlyClose IInv
PROPERTIES KeepsLifecycle UnlistedIsClosed
