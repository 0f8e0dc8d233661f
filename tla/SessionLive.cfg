SPECIFICATION FairSpec
CONSTANTS
  loop = loop
  worker = worker
  Loop = loop
  Workers <- MCWorkers
  Absent = Absent
  Paths = {}
  Contents = {}
  Ignored = {}
  ProjectGit <- MCNoTree
  PathIsGitDir = FALSE
  DefaultBranch <- MCMaster
  MaxSession = 3
  MaxCommits = 4
  Overlap = TRUE
  MayCrash = FALSE
PROPERTIES
  GapCloses
CHECK_DEADLOCK FALSE
