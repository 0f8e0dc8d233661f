SPECIFICATION Spec
CONSTANTS
  tracked = tracked
  ignored = ignored
  locked = locked
  v1 = v1
  Absent = Absent
  Paths <- MCTwoSources
  Contents <- MCOneContent
  Ignored <- MCNone
  ProjectGit <- MCNoGit
  PathIsGitDir = FALSE
  DefaultBranch <- MCMaster
  MaxSession = 3
  MaxCommits = 3
  MayBeUnreadable <- MCUnreadable
PROPERTIES
  CheckpointMatchesProject
