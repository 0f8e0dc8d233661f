SPECIFICATION Spec
CONSTANTS
  p = p
  q = q
  w = w
  key = key
  other = other
  std = std
  alt = alt
  Slot = slot
  Port = port
  StdPort = std
  Absent = Absent
  Unset = Unset
  Remove = Remove
  Broken = Broken
  Missing = Missing
  Providers <- MCProviders
  Workloads <- MCWorkloads
  Keys <- MCKeys
  Ports <- MCPorts
  Defaults <- MCDefaults
  Requests <- MCRequests
  Drafts <- MCDrafts
  MaxEdits = 2
INVARIANTS
  TypeOK
  RefsHold
  Converged

  
CHECK_DEADLOCK FALSE
