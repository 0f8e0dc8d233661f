SPECIFICATION Spec
CONSTANTS
  loop = loop
  worker = worker
  Loop = loop
  Workers <- MCWorkers
  Absent = Absent
  Paths = {}
  Contents = {}
  Ignored = {}
  ProjectGit <- MCNoTree
  PathIsGitDir = FALSE
  DefaultBranch <- MCMaster
  MaxSession = 3
  MaxCommits = 5
  Overlap = TRUE
  MayCrash = TRUE
INVARIANTS
  TypeOK
  RowsInOrder
PROPERTIES
  MainDescends
CHECK_DEADLOCK FALSE
