CONSTANTS
  a1 = a1
  a2 = a2
  b1 = b1
  a = a
  b = b
  Runs <- MCRuns
  Tenants <- MCTenants
  TenantOf <- MCTenantOf
  MaxActive = 2
  MaxActivePerTenant = 1
  MaxQueued = 2
  MaxQueuedPerTenant = 2
  MaxJobs = 2
  MaxAlive = 3
  Closes = TRUE
SPECIFICATION Spec
INVARIANTS
  TypeOK
  SlotsCounted
  QueueMatchesJobs
  NobodyWaitsBesideASlot
CHECK_DEADLOCK FALSE
