SPECIFICATION Spec
CONSTANTS
  search = search lookup = lookup command = command
  a = a b = b mine = mine theirs = theirs x = x y = y
  lesson = lesson memo = memo unknown = unknown
  a0 = a0 a1 = a1 a2 = a2 a3 = a3 b0 = b0
  Uids = {a, b} Tenants = {mine, theirs}
  Facets = {"area", "type"}
  Values = {x, y, lesson, memo, unknown}
  NoValue = NoValue NoPoint = NoPoint
  TopKLimit = 4 OffsetLimit = 1 Multiplier = 2 MaxPerUid = 2 LookupLimit = 3
  Searches = {search} Lookups = {lookup} CliSearches = {command}
  Asked <- MCAsked
  ServerTenant = mine
  Areas = {x, y} NoteTypes = {lesson, memo}
  DefaultTopK = 1 ClampTo = 3
  Keys = {a0, a1, a2, a3, b0}
  Stored <- MCStored
  Indexes <- MCIndexes
  MaxCalls = 2 MaxWrites = 1 MaxFaults = 1 MaxChanges = 1 MaxLaunches = 1
INVARIANTS
  ScopeIsKept
  TopKIsDiverse
  NoteIsWhole
  EmptyMeansAbsent
  AnswersFromPinnedSpace
CHECK_DEADLOCK FALSE
