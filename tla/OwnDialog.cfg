SPECIFICATION Spec
CONSTANTS
  s1 = s1
  s2 = s2
  d1 = d1
  d2 = d2
  c1 = c1
  NoId = NoId
  None = None
  CallIds <- MCId
  Streams <- MCStreams
  Dialogs <- MCDialogs
  Calls <- MCPlain
  MaxCalls = 1
  MaxTexts = 1
  MaxErrors = 1
SYMMETRY MCSymmetry
INVARIANTS
  OwnDialogOnly
CHECK_DEADLOCK FALSE
