CONSTANTS
  m1 = m1
  Models = {m1}
  VisionModels = {m1}
  r1 = r1
  r2 = r2
  Requests = {r1, r2}
  Loaders = {l1}
  Routes <- ChatAndUnload
  None = None
SPECIFICATION FairSpec
PROPERTY WaiterServed
