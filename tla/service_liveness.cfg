SPECIFICATION FairService
CONSTANTS
  None = None
  Main = main
  Handlers = {h1, h2, main}
  Ids = {i1}
  Objects = {s1}
  Configs = {c2}
  Calls = {"get", "apply", "shutdown"}
  Agents = {a1, a2}
  Proxies = {p1, p2}
  Carried = {None}
  DefaultProxy <- ProxyEach
  FixedAgent <- FixSecond
  NativeAgent <- AgentEach
  Once = TRUE
  Deadline = TRUE
  h1 = h1
  h2 = h2
  main = main
  i1 = i1
  s1 = s1
  c1 = c1
  c2 = c2
  p1 = p1
  p2 = p2
  a1 = a1
  a2 = a2
PROPERTIES RequestsAreAnswered ShutdownEnds
