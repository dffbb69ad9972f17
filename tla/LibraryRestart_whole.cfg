SPECIFICATION Spec
CONSTANTS
  u1 = u1
  l1 = l1
  u2 = u2
  None = None
  MaxRefusals = 0
  Jobs = {l1}
  Uploads = {}
  Stems = {"vocals", "drums"}
INVARIANT DoneIsWhole
