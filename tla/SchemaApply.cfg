SPECIFICATION FairSpec
CONSTANTS
  interno = interno clientes = clientes tenantId = tenantId uid = uid
  Checkouts = {laptop, server}
  laptop = laptop server = server
  Manifest <- MCManifest
  Indexes <- MCIndexes
  Revisions = {r1, r2}
  r1 = r1 r2 = r2
  NoRecord = NoRecord Missing = Missing
  MaxFaults = 1 MaxDisturbances = 1
INVARIANTS
  SuccessMeansProvisioned
PROPERTIES
  RerunWritesNothing
  RevisionIsNeverRewritten
  EventuallyProvisioned
