SPECIFICATION Spec
CONSTANTS
  s1 = s1
  s2 = s2
  p1 = p1
  p2 = p2
  General = General
  Null = Null
  Sessions = {s1, s2}
  Projects = {p1}
  Home = p1
  MaxApps = 3
  MaxTurns = 1
  MaxSaves = 0
  MaxFaults = 0
INVARIANTS LiveTurnKeepsSession
CHECK_DEADLOCK FALSE
