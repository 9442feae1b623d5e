SPECIFICATION ContextFairSpec
CONSTANTS
  MaxUnits = 3
  MaxEpochs = 2
  MaxFaults = 1
  Scripts <- MCScripts
  ConfiguredLimit = 1200
  ProviderLimit = 1000
  OutputLimit = 120
  CombinedLimit = 1100
  OutputReserve = 120
  Factors = {1, 3}
  ImageTokens = 80
  PromptSize = 100
  FactSize = 20
  SummarySize = 40
  LongResult = 300
  PlaceholderSize = 20
  PreviewSize = 120
  MaxTurns = 3
  MaxRoomEpochs = 2
  MaxRounds = 3
  Dues <- MCDues
  NoText = NoText
  None = None
  BytesPerToken = 2
  Frame <- MCFrame
  Available = 6
  HardCap = 3
  FoldRounds = 2
  Attempts = 2
  Slips = {"none", "text", "short", "swapped", "no refs", "other refs", "no coverage", "other coverage", "no entries", "long"}
  SummarySizes = {2, 6, 7}
INVARIANTS
  SummariesTile
  StatusIsHonest
  RequestIsTheConversation
  EpochIsSummarised
PROPERTIES
  CancelledPassEnds
CHECK_DEADLOCK FALSE
