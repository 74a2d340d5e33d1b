CONSTANTS
  a1 = a1
  a2 = a2
  b1 = b1
  a = a
  b = b
  Runs <- MCRuns
  Tenants <- MCTenants
  TenantOf <- MCTenantOf
  MaxActive = 1
  MaxActivePerTenant = 1
  MaxQueued = 2
  MaxQueuedPerTenant = 2
  MaxJobs = 2
  MaxAlive = 3
  Closes = FALSE
SPECIFICATION Spec
CHECK_DEADLOCK FALSE
PROPERTIES
  WaitingRunServed
  StartAnswered
