SPECIFICATION HostsSpec
CONSTANTS
  u1 = u1 u2 = u2 va = va vb = vb a1 = a1 a2 = a2 b1 = b1
  v0 = v0 v1 = v1 v2 = v2 p1 = p1 p2 = p2
  Uids = {u1}
  Vaults = {va, vb}
  Locs = {a1, b1}
  VaultOf <- MCVaultOf
  Versions = {v1, v2}
  MaxChunks = 2
  ChunkCount <- MCChunkCount
  NoPoint = NoPoint NoNote = NoNote NoProc = NoProc NoUid = NoUid NoSnap = NoSnap
  Procs = {p1, p2}
  LockKey <- TwoKeys
  Options <- TimedAndPruneRuns
  Disks <- OneNote
  Absent = Absent Hidden = Hidden Invalid = Invalid
  EditStates <- FileStates
  UpsertAttempts = 1
  MaxEdits = 2
  MaxFaults = 2
PROPERTIES
  EventuallyConverges
