CONSTANTS
  m1 = m1
  Models = {m1, m2}
  VisionModels = {m1}
  r1 = r1
  r2 = r2
  Requests = {r1, r2}
  Loaders = {l1, l2}
  Routes <- ManagerAndChat
  None = None
SYMMETRY Symmetry
SPECIFICATION Spec
CONSTRAINT LoadersShareModel
INVARIANTS
  SnapshotTruthful
  GeneratorHasModel
  NoPhantomLoading
PROPERTY NoSwapWhileGenerating
