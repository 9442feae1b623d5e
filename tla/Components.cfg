SPECIFICATION Spec
CONSTANTS
  a1 = a1
  a2 = a2
  p1 = p1
  p2 = p2
  s1 = s1
  s2 = s2
  Services = {a1, a2}
  SessionIds = {s1, s2}
  Projects = {p1, p2}
  ProjectOf <- MCProjectOf
  Nobody = Nobody
  MaxTrouble = 1
  r1 = r1
  r2 = r2
  r3 = r3
  Refs = {r1, r2, r3}
  SessionQuota = 2
  DerivedQuota = 1
  MaxMishaps = 3
  m1 = m1
  m2 = m2
  c1 = c1
  c2 = c2
  Models = {m1, m2}
  Vision = {m1}
  Chats = {c1, c2}
  NoChat = NoChat
  MaxCommits = 3
  MaxImages = 1
  MaxReloads = 1
  MaxSetbacks = 1
  Messages <- MCMessages
  Pieces = 2
  MaxRepeats = 1
  k1 = k1
  k2 = k2
  d1 = d1
  d2 = d2
  Cancellers = {k1, k2}
  Readers = {d1, d2}
  Every = Every
  NoResource = NoResource
  Actions <- MCActions
  Files <- MCFiles
  DirectoryTools = {"ReadFile"}
  MaxRuns = 2
  MaxRequests = 1
  Absent = Absent
  Delete = Delete
  FirstFile <- MCFirstFile
  Payloads <- MCPayloads
  Chains <- MCChains
  Selections = {"large", Absent}
  Reasoning = {"e2"}
  DefaultLimit = 2
  HardLimit = 3
  Paths = {"p", "q"}
  Patches <- MCPatches
  MaxVersions = 3
  Texts <- MCTexts
  Owners = {"one", "two"}
  Inline = 3
  HardCap = 11
  ResultQuota = 18
  PageLimit = 7
  OutputBudget = 16
  Envelope = 8
  MaxResults = 2
  MaxChildren = 2
  MaxCalls = 2
  MaxFaults = 1
  Directories = {"a", "b", "aa"}
  Outer <- MCOuter
  Rank <- MCRank
  FirstSources <- MCFirstSources
  MayHold <- MCMayHold
  Elsewhere = "elsewhere"
  MaxReferences = 2
  MaxEdits = 2
  MaxLosses = 1
  Habits <- MCHabits
  Surprises <- MCSurprises
  NoFailure = NoFailure
  NoKey = NoKey
  Longest = 4
  WarnAt = 3
  StopAt = 5
  Remembered = 24
  MaxSurprises = 1
  MaxMade = 21
  ReadOwners = {"P", "Q", "general"}
  General = "general"
  Found = {"u", "v"}
  OwnerOf <- MCOwnerOf
  LastUsed <- MCLastUsed
  MaxHits = 1
  MaxDiffs = 1
  MaxSearches = 1
  NoEvent = NoEvent
  MaxOps = 1
  MaxApps = 2
  MaxErrors = 1
  MaxRevisions = 3
  PageSizes = {1, 2}
  Block = 4
  Width <- MCWidth
  Ranges <- MCRanges
  RangeLimit = 4
  RangeBudget = 9
  RangeFrame = 3
  MaxLines = 3
  MaxPasses = 2
  MaxTears = 1
  MaxPages = 3
INVARIANTS
  SessionsAgree
  ModelIsTheSessions
  
  NobodySleeps
  PermissionIsEarned
  ProjectsOnlyTighten
  FilesAreAsSeen
  ReadBackIsWhole
  OneRuntimeAnswers
  EpochIsThePrefix
  LoopsAreCutShort
  NoReaderOutlives
PROPERTIES
  OriginalsAreKept
  SavesKeepKeys
  AnswersAreCurrent
CHECK_DEADLOCK FALSE
