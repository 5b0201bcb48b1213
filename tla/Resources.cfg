SPECIFICATION ResourceSpec
CONSTANTS
  Subjects = {"delivery", "budgets", "policies", "streams", "arguments"}
  Scopes <- MCScopes
  Families <- MCFamilies
  Under <- MCUnder
  Contents = {c1, c2}
  LengthOf <- MCLengthOf
  Hints = {1}
  Handles = {x1, x2}
  MaxBytes = 2
  None = None
  Requests = {door, r1, r2}  DoorRequest = door  Absent = Absent  DoorLimit = 3
  Entitlements = {0, 1, 2}  Amounts = {1, 2}
  Readers = {s1, s2}  Bodies <- MCBodies  BytePool = 4  SpillLimit = 2  Offsets <- MCOffsets  MaxChunk = 2
  Payloads = {p}
  Door <- MCDoor
  Reads <- MCReads
  Way <- MCWay
  Target <- MCTarget
  Versions <- MCVersions
  MaxAttached = 1
  MaxTries = 1
  NoBody = 0
  Unset = Unset
  Keys <- MCKeys
  RequestOf <- MCRequestOf
  ClaimedBy <- MCClaimedBy
  PrefixLength <- MCPrefixLength
  CellsOf <- MCCellsOf
  CountMax = 2  Sample = 4  Sizes = {1, 3}  Costs <- MCCosts  MaxTick = 5
  Tables <- MCTables
  Played <- MCPlayed
INVARIANTS
  NoAmplification CountsItsHandles ReadsItsOwn BudgetsHold CacheBounded StreamsHold
  AnswersAsByValue NothingUnaskableIsStored RetriesFindTheBody
PROPERTY EvictsWhatItMay
CHECK_DEADLOCK FALSE
