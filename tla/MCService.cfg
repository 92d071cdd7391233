CONSTANTS
  Domains <- MCDomains
  HostsFile <- MCHostsFile
  PfConf <- MCPfConf
  Jobs = {j1, j2}
  None = None
  MaxCommands = 4
  MaxCrashes = 1
SPECIFICATION Spec
INVARIANTS
  
  StopUnroutes
  UninstallUnroutes
  CaPairMatches
CHECK_DEADLOCK FALSE
