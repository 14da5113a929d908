\* PyTorch get_output after a second compute.
CONSTANTS
  Encodings = {"PyTorch"}
  Built = {"PyTorch"}
  Models <- MCTorch_Models
  Tensors <- MCTorch_Tensors
  Data = {"d1"}
  NoData = NoData
  Targets = {0, 1}
  BuilderLens = {1, 2, 3}
  Indices = {0, 1, 63}
  MaxSizes = {16, 64}
  CallerMemory = {TRUE}
  OpenVINOCoreReady = TRUE
  U32Mod = 64
  MaxGraphs = 1
  MaxContexts = 2
  MaxComputes = 2
  MaxLeaks = 1
SPECIFICATION Spec
INVARIANT GetOutputFresh
\* A call that hits undefined behaviour does not return: the host stops.
CHECK_DEADLOCK FALSE
