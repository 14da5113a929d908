\* TensorflowLite get_output into a buffer smaller than the output.
CONSTANTS
  Encodings = {"TensorflowLite"}
  Built = {"TensorflowLite"}
  Models <- MCTFLite_Models
  Tensors <- MCTFLite_Tensors
  Data = {"d1"}
  NoData = NoData
  Targets = {0, 1}
  BuilderLens = {1, 2, 3}
  Indices = {0, 1}
  MaxSizes = {16, 64}
  CallerMemory = {TRUE}
  OpenVINOCoreReady = TRUE
  U32Mod = 64
  MaxGraphs = 1
  MaxContexts = 2
  MaxComputes = 1
  MaxLeaks = 1
SPECIFICATION Spec
INVARIANT TruncationReported
\* A call that hits undefined behaviour does not return: the host stops.
CHECK_DEADLOCK FALSE
