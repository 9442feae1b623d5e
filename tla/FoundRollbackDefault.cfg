SPECIFICATION SelectionSpec
CONSTANTS
  m1 = m1
  m2 = m2
  c1 = c1
  c2 = c2
  Models = {m1,m2}
  Vision = {m1}
  Chats = {c1,c2}
  NoChat = NoChat
  MaxCommits = 3
  MaxImages = 1
  MaxReloads = 1
  MaxSetbacks = 1
PROPERTIES
    FailureKeepsDefault
CHECK_DEADLOCK FALSE
