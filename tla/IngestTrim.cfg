SPECIFICATION Spec
CONSTANTS
  u1 = u1 u2 = u2 va = va vb = vb a1 = a1 a2 = a2 b1 = b1
  v0 = v0 v1 = v1 v2 = v2 p1 = p1 p2 = p2
  Uids = {u1}
  Vaults = {va}
  Locs = {a1}
  VaultOf <- MCVaultOf
  Versions = {v0, v1, v2}
  MaxChunks = 2
  ChunkCount <- MCChunkCount
  NoPoint = NoPoint NoNote = NoNote NoProc = NoProc NoUid = NoUid NoSnap = NoSnap
  Procs = {p1, p2}
  LockKey <- OneKey
  Options <- PlainRuns
  Disks <- OneNote
  Absent = Absent Hidden = Hidden Invalid = Invalid
  EditStates <- FileStates
  UpsertAttempts = 2
  MaxEdits = 2
  MaxFaults = 2
SYMMETRY TwoProcs
INVARIANTS
  ReportedNoteIsExact
  OneWriterPerLock
PROPERTIES
  LiveNoteStaysSearchable
