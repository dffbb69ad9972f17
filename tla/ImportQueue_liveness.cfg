SPECIFICATION Spec
CONSTANTS
  u1 = u1
  l1 = l1
  l2 = l2
  c1 = c1
  c2 = c2
  None = None
  Jobs = {u1, l1}
  Uploads = {u1}
  Callers = {c1}
  Asks <- LivenessAsks
  MaxPendingUploads = 1
  MaxPendingUrls = 1
  Stages = 1
PROPERTIES CancelTakesEffect QueueMoves
