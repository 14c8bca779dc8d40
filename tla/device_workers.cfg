CONSTANTS
  Services <- MCServices
  Owners = {o1, o2}
  None = None
  MaxSessions = 1
  MaxTerminalOutput = 8
  Headroom = 4
  Overhead = 1
  Wanted = {9}
  Chunks = {1, 3}
  Codes = {0, 259}
  StillActive = 259
  QuietReads = 2
  MaxDrain = 3
  MaxEmitted = 4
  Pids = {1, 2}
  Images <- MCImages
  Protected <- MCProtected
  Own = 2
  MaxBirths = 4
  BrowserIds = {d1, d2}
  Files = {f}
  MaxPages = 2
  MaxTerminalCalls = 3
  MaxTerminalFaults = 1
  MaxTerminations = 2
  MaxCalls = 5
  MaxBrowserFaults = 2
  Names <- MCNames
  Argvs <- MCArgvs
  MaxArgc = 3
  MaxArgBytes = 8
  Programs <- MCPrograms
  Configured <- MCConfigured
  StartDisk <- MCStartDisk
  Rules <- MCRules
  Modes = {"strict", "policy"}
  InlineRules = {"elevated_approval", "auto"}
  DefaultRules = {"approval", "deny"}
  Commands <- MCCommands
  MaxCommands = 1
  MaxRelinks = 1
SPECIFICATION DeviceSpec
INVARIANT ResultsAreTrue
INVARIANT OnlyTheApproved
INVARIANT BrowserIsOwned
INVARIANT ArgvSurvives
PROPERTY SessionEnds
CHECK_DEADLOCK FALSE
