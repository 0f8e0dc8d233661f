SPECIFICATION Spec
CONSTANTS
  tracked = tracked
  ignored = ignored
  locked = locked
  v1 = v1
  Absent = Absent
  Paths <- MCPaths
  Contents <- MCOneContent
  Ignored <- MCIgnored
  ProjectGit <- MCNoGit
  PathIsGitDir = FALSE
  DefaultBranch <- MCMaster
  MaxSession = 5
  MaxCommits = 3
  MayBeUnreadable = {}
INVARIANTS
  TypeOK
  ActiveHoldsMain
PROPERTIES
  CheckpointMatchesProject
  RestoreSparesUnknown
  ResetSavesWork
  ImplementsWorkflow
