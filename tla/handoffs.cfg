CONSTANTS
  Procs = {p1, p2}
  MaxStops = 1
  Agents = {a1, b1, b2}
  Tools = {A, B}
  a1 = a1
  b1 = b1
  b2 = b2
  A = A
  B = B
  AgentTool <- MCAgentTool
  ManagedTool = B
  Senders = {b1}
  MaxRows = 4
  MaxDrafts = 2
  MaxRoots = 1
  NoTool = NoTool
  NoAgent = NoAgent
  Reaper = Reaper
SPECIFICATION Spec
SYMMETRY Symmetry
CHECK_DEADLOCK FALSE
INVARIANTS IdentityExclusive OneReceiver
PROPERTY ObligationKept
