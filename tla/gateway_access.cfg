SPECIFICATION Spec
CONSTANTS
  Threads = {"g1", "g2", "cli"}
  ProcessOf <- MCProcessOf
  Gateways = {"gateway"}
  Jobs <- MCJobs
  Job <- AllJobs
  Scenarios <- MCScenarios
  GatewayDevice = "gw"
  AtomicReplace = FALSE
  InitGrants <- MCGrants
  InitTenants <- MCTenants
  MaxFaults = 1
  MaxClock = 1
  MaxUnits = 3
  Unparsable = Unparsable
  WellFormed = {"v1", "v2"}
  MaxUris = 2
  NoJob = NoJob
  Boot = Boot
  Free = Free
  Dead = Dead
  Absent = Absent
CHECK_DEADLOCK FALSE
INVARIANTS NothingAfterRevocation AcknowledgedLasts ConsentBinds
PROPERTY RequestsReturn
