-------------------------------- MODULE WasiNN --------------------------------
(***************************************************************************)
(* The WASI-NN host module: the five guest-callable host functions of     *)
(* src/plugins/wasi_nn/wasinnfunc.cpp.  Each is one atomic step (the     *)
(* host runs a call to completion on the guest's thread): the common     *)
(* prologue (memory 0, result pointer, handle range), then the branch of *)
(* the graph's backend, which reports "not built" when that backend is   *)
(* compiled out.  After undefined behaviour or an uncaught exception     *)
(* (fault # "none") the host does not go on: no call is enabled.         *)
(***************************************************************************)
EXTENDS WasiNNOpenVINO, WasiNNTorch, WasiNNTFLite, WasiNNTF

Init ==
  /\ nnGraph = <<>>
  /\ nnContext = <<>>
  /\ call = NoCall
  /\ ret = "none"
  /\ written = NoWrite
  /\ fault = "none"
  /\ leakedBlobs = 0

(* The prologue: a caller without memory 0 gets the HostFuncError trap. *)
Trap(mem) == ~mem /\ Fail(HostFuncError)

(* WasiNNLoad::body *)
Load ==
  \E enc \in Encodings, t \in Targets, n \in BuilderLens, m \in Models,
     gidOk \in BOOLEAN, bufOk \in BOOLEAN, mem \in CallerMemory :
    /\ fault = "none"
    /\ Len(nnGraph) < MaxGraphs
    /\ call' = [NoCall EXCEPT !.op = "load", !.enc = enc]
    /\ \/ Trap(mem)
       \/ mem /\ (~gidOk \/ t # 0 \/ enc \notin Built)
          /\ Fail(InvalidArgument)
       \/ mem /\ gidOk /\ t = 0 /\ enc \in Built
          /\ \/ enc = OpenVINO /\ OVLoad(n, m, bufOk)
             \/ enc = PyTorch /\ TorchLoad(n, m, bufOk)
             \/ enc = TFLite /\ TFLiteLoad(n, m, bufOk)
             \/ enc = TF /\ \E sigOk \in BOOLEAN : TFLoad(n, m, bufOk, sigOk)

(* WasiNNInitExecCtx::body *)
InitExecCtx ==
  \E g \in Indices, ctxOk \in BOOLEAN, mem \in CallerMemory :
    /\ fault = "none"
    /\ Len(nnContext) < MaxContexts
    /\ call' = [NoCall EXCEPT !.op = "init_execution_context", !.handle = g]
    /\ \/ Trap(mem)
       \/ mem /\ (Len(nnGraph) <= g \/ ~ctxOk) /\ Fail(InvalidArgument)
       \/ mem /\ g < Len(nnGraph) /\ ctxOk
          /\ \/ nnGraph[g + 1].backend \notin Built /\ Fail(InvalidArgument)
             \/ nnGraph[g + 1].backend \in Built
                /\ \/ nnGraph[g + 1].backend = OpenVINO /\ OVInit(g)
                   \/ nnGraph[g + 1].backend = PyTorch /\ TorchInit(g)
                   \/ nnGraph[g + 1].backend = TFLite /\ TFLiteInit(g)
                   \/ nnGraph[g + 1].backend = TF /\ TFInit(g)

(* The prologue shared by set_input, get_output and compute: memory 0,   *)
(* then the context handle, then the backend compiled in.  Its failures: *)
ContextRejected(c, mem) ==
  \/ Trap(mem)
  \/ mem /\ Len(nnContext) <= c /\ Fail(InvalidArgument)
  \/ mem /\ c < Len(nnContext) /\ GraphOf(c).backend \notin Built
     /\ Fail(InvalidArgument)

(* ... and the condition under which the backend's branch runs. *)
ContextAccepted(c, mem) ==
  mem /\ c < Len(nnContext) /\ GraphOf(c).backend \in Built

(* WasiNNSetInput::body *)
SetInput ==
  \E c \in Indices, i \in Indices, t \in Tensors, mem \in CallerMemory :
    LET Branch(b) ==
          \/ b = OpenVINO /\ OVSetInput(c, i, t)
          \/ b = PyTorch /\ TorchSetInput(c, i, t)
          \/ b = TF /\ TFSetInput(c, i, t)
          \/ b = TFLite /\ TFLiteSetInput(c, i, t)
    IN /\ fault = "none"
       /\ call' = [NoCall EXCEPT !.op = "set_input", !.handle = c, !.idx = i,
                                 !.tensor = t]
       /\ \/ ContextRejected(c, mem)
          \/ ContextAccepted(c, mem) /\ Branch(GraphOf(c).backend)

(* WasiNNGetOuput::body *)
GetOutput ==
  \E c \in Indices, i \in Indices, max \in MaxSizes,
     outOk \in BOOLEAN, bwOk \in BOOLEAN, mem \in CallerMemory :
    LET Branch(b) ==
          \/ b = OpenVINO /\ OVGetOutput(c, i, max, outOk, bwOk)
          \/ b = PyTorch /\ TorchGetOutput(c, i, max, outOk, bwOk)
          \/ b = TF /\ TFGetOutput(c, i, max, outOk, bwOk)
          \/ b = TFLite /\ TFLiteGetOutput(c, i, max, outOk, bwOk)
    IN /\ fault = "none"
       /\ call' = [NoCall EXCEPT !.op = "get_output", !.handle = c, !.idx = i,
                                 !.max = max]
       /\ \/ ContextRejected(c, mem)
          \/ ContextAccepted(c, mem) /\ Branch(GraphOf(c).backend)

(* WasiNNCompute::body *)
Compute ==
  \E c \in Indices, mem \in CallerMemory :
    LET Branch(b) ==
          \/ b = OpenVINO /\ OVCompute(c)
          \/ b = PyTorch /\ TorchCompute(c)
          \/ b = TFLite /\ TFLiteCompute(c)
          \/ b = TF /\ TFCompute(c)
    IN /\ fault = "none"
       /\ c < Len(nnContext) => Ctx(c).computes < MaxComputes
       /\ call' = [NoCall EXCEPT !.op = "compute", !.handle = c]
       /\ \/ ContextRejected(c, mem)
          \/ ContextAccepted(c, mem) /\ Branch(GraphOf(c).backend)

Next == Load \/ InitExecCtx \/ SetInput \/ GetOutput \/ Compute

Spec == Init /\ [][Next]_vars

-----------------------------------------------------------------------------
(* Properties *)

TypeOK ==
  /\ nnGraph \in Seq(GraphType)
  /\ nnContext \in Seq(ContextType)
  /\ call \in CallType
  /\ ret \in ErrNo \cup {HostFuncError, "Abort", "none"}
  /\ written \in WrittenType
  /\ fault \in Faults
  /\ leakedBlobs \in Nat

(* Context x is bound to an existing, ready graph whose model its slots *)
(* follow, and its outputs come from computes it ran.                   *)
ContextMatchesGraph(x) ==
  /\ x.graph < Len(nnGraph)
  /\ LET gr == nnGraph[x.graph + 1] IN
     /\ gr.ready /\ x.ready
     /\ gr.backend \in {OpenVINO, TFLite, TF} => Len(x.inputs) = gr.model.nIn
     /\ gr.backend \in {OpenVINO, TFLite} => Len(x.outputs) = gr.model.nOut
     /\ gr.backend = TF => Len(x.outputs) \in {0, gr.model.nOut}
     /\ \A j \in 1..Len(x.outputs) : x.outputs[j] <= x.computes

(* Every context's input and output slots are those of its graph's model *)
(* (OpenVINO and TensorflowLite: both; Tensorflow: the inputs, and the   *)
(* outputs once a compute succeeded), its graph exists, and its outputs *)
(* come from computes it ran.  The adapters check a guest index against *)
(* the model's counts and then index the context's slots, so this is    *)
(* what makes those checks enough.                                       *)
SlotsMatchModel ==
  fault = "none" => \A k \in 1..Len(nnContext) : ContextMatchesGraph(nnContext[k])

(* A successful load or init_execution_context writes to the guest the  *)
(* handle of the entry it appended, and that entry is what was asked   *)
(* for: a graph of the requested backend, a context on the given graph. *)
ReturnedHandleFresh ==
  ret = Success =>
    /\ call.op = "load" =>
         /\ written.handle = Len(nnGraph) - 1
         /\ nnGraph[Len(nnGraph)].backend = call.enc
    /\ call.op = "init_execution_context" =>
         /\ written.handle = Len(nnContext) - 1
         /\ nnContext[Len(nnContext)].graph = call.handle

(* Rollback: a call that returns an error leaves both registries at the *)
(* size they had (the emplace_back then pop_back on every failure path *)
(* of load and init_execution_context).                                  *)
FailedCallsKeepRegistrySize ==
  [][ret' \in (ErrNo \ {Success}) \cup {HostFuncError} =>
       /\ Len(nnGraph') = Len(nnGraph)
       /\ Len(nnContext') = Len(nnContext)]_vars

(* A compute that fails leaves the context's output list as it was       *)
(* (spec 8: compute never partially mutates the outputs on failure).    *)
ComputeFailureKeepsOutputs ==
  [][call'.op = "compute" /\ ret' \in ErrNo \ {Success} =>
       \A k \in 1..Len(nnContext) : nnContext'[k].outputs = nnContext[k].outputs]_vars

(* The registry as the abstract arena sees it: graph backends and       *)
(* context-to-graph bindings.                                           *)
Registry == INSTANCE WasiNNRegistry WITH
  graphs <- [k \in 1..Len(nnGraph) |-> nnGraph[k].backend],
  contexts <- [k \in 1..Len(nnContext) |-> nnContext[k].graph]

(* Every host call is a step of the append-only registry: it appends one *)
(* graph, or one context bound to an existing graph, or leaves both     *)
(* unchanged; no entry is ever rebound or removed.                      *)
RefinesRegistry == Registry!RegSpec

(* Every output slot of a context on an OpenVINO, TensorflowLite or      *)
(* Tensorflow graph holds the result of the context's latest compute    *)
(* (0: none yet): their compute overwrites every output (the output    *)
(* blobs, the interpreter's tensors, TFOutputTensors) and init creates *)
(* them unwritten.  PyTorch appends to TorchOutputs instead.             *)
OutputsCurrent ==
  fault = "none" =>
    \A k \in 1..Len(nnContext) :
      nnGraph[nnContext[k].graph + 1].backend # PyTorch =>
        \A j \in 1..Len(nnContext[k].outputs) :
          nnContext[k].outputs[j] = nnContext[k].computes

(* A successful get_output on an OpenVINO, TensorflowLite or Tensorflow *)
(* context copies out the result of that context's latest compute, even *)
(* after computes on other contexts of the same graph.                  *)
GetOutputCurrent ==
  ret = Success /\ call.op = "get_output"
  /\ GraphOf(call.handle).backend # PyTorch =>
    written.gen = Ctx(call.handle).computes

-----------------------------------------------------------------------------
(* What the spec says and the code does not do; each is checked by a run *)
(* expected to find it violated.                                         *)

(* No call writes past the end of a host vector (TFInputAlready[Index],  *)
(* TorchInputs[Index]).                                                   *)
NoOutOfBoundsWrite == fault # "oob_write"

(* No call reads past the end of a buffer (TFOutputTensors[Index] before *)
(* compute, the debug prints, from_blob over a short guest buffer).     *)
NoOutOfBoundsRead == fault # "oob_read"

(* OpenVINO set_input never copies more bytes than the input blob holds. *)
NoHeapOverflow == fault # "heap_overflow"

(* TensorflowLite set_input never dereferences an unresolved pointer. *)
NoNullDeref == fault # "null_deref"

(* A guest-chosen type tag never reaches assumingUnreachable. *)
NoUnreachable == fault # "unreachable"

(* No native exception crosses the guest boundary (spec 7). *)
NoUncaughtException == fault # "uncaught_exception"

(* Every OpenVINO input blob allocated by set_input is freed (spec 5). *)
NoLeakedBlobs == leakedBlobs = 0

(* spec 8: a failing set_input leaves the context's bound inputs as they *)
(* were.                                                                 *)
SetInputFailureKeepsInputs ==
  [][call'.op = "set_input" /\ ret' \in ErrNo \ {Success} =>
       nnContext' = nnContext]_vars

(* get_output after a compute returns the output of the latest compute. *)
GetOutputFresh ==
  ret = Success /\ call.op = "get_output" /\ Ctx(call.handle).computes > 0 =>
    written.gen = Ctx(call.handle).computes

(* spec 8: get_output copies min(native size, max) bytes and reports     *)
(* exactly the number it copied.                                         *)
TruncationReported ==
  ret = Success /\ call.op = "get_output" =>
    /\ written.copied = written.reported
    /\ written.reported = MinOf(ModelOf(call.handle).outElems * 4, call.max)
=============================================================================
