\* Several backends in one registry, Tensorflow compiled out, no OpenVINO core, callers with and without memory 0.
CONSTANTS
  Encodings = {"OpenVINO", "PyTorch", "TensorflowLite", "Tensorflow", "ONNX"}
  Built = {"OpenVINO", "PyTorch", "TensorflowLite"}
  Models <- MCMixed_Models
  Tensors <- MCMixed_Tensors
  Data = {"d1"}
  NoData = NoData
  Targets = {0, 1}
  BuilderLens = {1, 2, 3}
  Indices = {0, 1}
  MaxSizes = {64}
  CallerMemory = {TRUE, FALSE}
  OpenVINOCoreReady = FALSE
  U32Mod = 64
  MaxGraphs = 2
  MaxContexts = 2
  MaxComputes = 1
  MaxLeaks = 1
SPECIFICATION Spec
INVARIANT  SlotsMatchModel ReturnedHandleFresh GetOutputCurrent
PROPERTY FailedCallsKeepRegistrySize ComputeFailureKeepsOutputs RefinesRegistry
\* A call that hits undefined behaviour does not return: the host stops.
CHECK_DEADLOCK FALSE
