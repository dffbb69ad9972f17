SPECIFICATION Spec
CONSTANTS
  u1 = u1
  l1 = l1
  u2 = u2
  None = None
  MaxRefusals = 1
  Jobs = {u1, u2}
  Uploads = {u1, u2}
  Stems = {"vocals"}
SYMMETRY TwoUploads
INVARIANTS TypeOK FinishedIsKept CrashLoopEnds SourceIsKept TrashSurvives AnsweredIsSaved DeletedStaysDeleted
