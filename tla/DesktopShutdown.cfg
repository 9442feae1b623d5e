SPECIFICATION TaggedSpec
CONSTANTS
  s1 = s1
  s2 = s2
  p1 = p1
  p2 = p2
  General = General
  Null = Null
  Sessions = {s1, s2}
  Projects = {p1, p2}
  Home = p1
  MaxApps = 2
  MaxTurns = 1
  MaxSaves = 0
  MaxFaults = 1

PROPERTIES ShutdownEnds
CHECK_DEADLOCK FALSE
