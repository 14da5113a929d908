----------------------------- MODULE WasiNNTypes -----------------------------
(***************************************************************************)
(* Constants and value domains of the WASI-NN host module                 *)
(* (src/plugins/wasi_nn/wasinnfunc.cpp): the backend encodings, the error *)
(* codes returned to the guest, the tensor-type tags of a tensor          *)
(* descriptor, and the abstract models and descriptors the guest can      *)
(* pass.  Guest pointers are abstracted to whether the bounds-checked     *)
(* MemInst->getPointer resolves them; byte buffers to their lengths and   *)
(* an opaque value.                                                        *)
(***************************************************************************)
EXTENDS Integers, Sequences, FiniteSets

CONSTANTS
  Encodings,         \* backend encodings a guest may pass to load
  Built,             \* backends compiled in (WASMEDGE_PLUGIN_WASI_NN_BACKEND_*)
  Models,            \* model descriptions a builder buffer may hold
  Tensors,           \* tensor descriptors a guest may pass to set_input
  Data,              \* opaque tensor contents
  NoData,            \* an input slot never bound
  Targets,           \* device-target ids a guest may pass to load
  BuilderLens,       \* graph-builder counts a guest may pass to load
  Indices,           \* input/output indices a guest may pass
  MaxSizes,          \* output-buffer capacities a guest may pass
  CallerMemory,      \* whether a calling module exports memory 0: the
                     \* host module is shared by every module importing it
  OpenVINOCoreReady, \* Env.OpenVINOCore was created by the environment
  U32Mod,            \* 2^32: the modulus of uint32_t arithmetic
  MaxGraphs,         \* bound on Env.NNGraph.size()
  MaxContexts,       \* bound on Env.NNContext.size()
  MaxComputes,       \* bound on compute calls per context
  MaxLeaks           \* bound on the count of leaked OpenVINO blobs

(* WASINN::Backend values the host function bodies branch on. *)
OpenVINO == "OpenVINO"
PyTorch == "PyTorch"
TFLite == "TensorflowLite"
TF == "Tensorflow"
Backends == {OpenVINO, PyTorch, TFLite, TF}

(* WASINN::ErrNo, and the Unexpect(HostFuncError) trap. *)
Success == "Success"
InvalidArgument == "InvalidArgument"
MissingMemory == "MissingMemory"
Busy == "Busy"
HostFuncError == "HostFuncError"
ErrNo == {Success, InvalidArgument, MissingMemory, Busy}

(* WASINN::TensorType tags; any other word is a tag outside the enum. *)
F16 == 0
F32 == 1
U8 == 2
I32 == 3
TensorTypes == {F16, F32, U8, I32}
TypeSize(t) == IF t \in {F32, I32} THEN 4 ELSE IF t = F16 THEN 2 ELSE 1

(* A model: its declared inputs and outputs, the element type and count  *)
(* of each input, the element count of each (F32) output, what a         *)
(* TorchScript forward returns, and whether each output is a rank-2      *)
(* float tensor (what the Tensorflow debug print dereferences).          *)
ModelType ==
  [nIn : Nat, nOut : Nat, inType : Nat, inElems : Nat, outElems : Nat,
   outKind : {"tensor", "list", "other"}, outRank2 : BOOLEAN]

(* A tensor descriptor | dim buf | dim len | type | data buf | data len | *)
(* abstracted to: whether each of its three pointers resolves, the rank, *)
(* the product of the dimensions, the type tag, the data length and the  *)
(* data.                                                                  *)
TensorType ==
  [ptrOk : BOOLEAN, dimLen : Nat, dimOk : BOOLEAN, elems : Nat, type : Nat,
   dataOk : BOOLEAN, dataLen : Nat, val : Data]

ASSUME ConstantsAssumption ==
  /\ Built \subseteq Backends
  /\ Models \subseteq ModelType /\ Models # {}
  /\ Tensors \subseteq TensorType
  /\ Data # {} /\ NoData \notin Data
  /\ Targets \subseteq Nat /\ BuilderLens \subseteq Nat
  /\ Indices \subseteq Nat /\ MaxSizes \subseteq Nat
  /\ CallerMemory \subseteq BOOLEAN /\ CallerMemory # {}
  /\ OpenVINOCoreReady \in BOOLEAN
  /\ U32Mod \in Nat \ {0}
  /\ MaxGraphs \in Nat /\ MaxContexts \in Nat /\ MaxComputes \in Nat
  /\ MaxLeaks \in Nat

(* The uint32_t value of a byte count computed as elements * 4. *)
U32(n) == n % U32Mod

MinOf(a, b) == IF a <= b THEN a ELSE b

(* A sequence of n copies of v: vector::resize / the per-name loops. *)
Repeat(v, n) == [i \in 1..n |-> v]
=============================================================================
