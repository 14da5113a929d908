------------------------- MODULE WasiNNRegistryProofs -------------------------
(***************************************************************************)
(* Proofs that the handles the host writes back name the entries it      *)
(* appended (ReturnedHandleFresh) and that the host implements the       *)
(* append-only registry of WasiNNRegistry (RefinesRegistry).  Both rest   *)
(* on one fact about a single step: it keeps every registry entry and    *)
(* its binding, or it is a load that appends one graph of the requested  *)
(* backend, or an init_execution_context that appends one context bound  *)
(* to the existing graph it was asked for.                               *)
(***************************************************************************)
EXTENDS WasiNNProofs

(* The step leaves Env.NNGraph as it is, and Env.NNContext at its size   *)
(* with every context bound to the graph it was bound to.                *)
KeepReg ==
  /\ nnGraph' = nnGraph
  /\ Len(nnContext') = Len(nnContext)
  /\ \A k \in 1..Len(nnContext) : nnContext'[k].graph = nnContext[k].graph

(* load's emplace_back of a graph of the requested encoding, whose index *)
(* is written back.                                                      *)
GraphAppended ==
  /\ call'.enc \in Backends
  /\ \E g : nnGraph' = Append(nnGraph, g) /\ g.backend = call'.enc
  /\ nnContext' = nnContext
  /\ ret' = Success
  /\ written'.handle = Len(nnGraph)

(* init_execution_context's emplace_back of a context on the graph it   *)
(* was given, which exists; its index is written back on success.  The  *)
(* call returns Success, or throws with the context in place.            *)
ContextAppended ==
  /\ call'.handle < Len(nnGraph)
  /\ \E r : nnContext' = Append(nnContext, r) /\ r.graph = call'.handle
  /\ nnGraph' = nnGraph
  /\ ret' \in {Success, "Abort"}
  /\ ret' = Success => written'.handle = Len(nnContext)

StepShape ==
  \/ KeepReg /\ (ret' = Success => call'.op \notin {"load", "init_execution_context"})
  \/ call'.op = "load" /\ GraphAppended
  \/ call'.op = "init_execution_context" /\ ContextAppended

-----------------------------------------------------------------------------
(* The shared steps of WasiNNState. *)

LEMMA FailKeeps ==
  ASSUME NEW e, Fail(e)
  PROVE  KeepReg /\ ret' = e
BY DEF Fail, KeepReg

LEMMA AbortKeeps ==
  ASSUME NEW f, Abort(f)
  PROVE  KeepReg /\ ret' = "Abort"
BY DEF Abort, KeepReg

LEMMA WriteKeeps ==
  ASSUME NEW n, NEW copied, NEW o, NEW bwOk, WriteOutput(n, copied, o, bwOk)
  PROVE  KeepReg
BY DEF WriteOutput, KeepReg

(* Replacing context c by a record bound to the same graph. *)
LEMMA ReplaceKeeps ==
  ASSUME TypeOK, NEW c \in Nat, c < Len(nnContext), NEW r,
         r.graph = Ctx(c).graph, nnContext' = [nnContext EXCEPT ![c + 1] = r],
         nnGraph' = nnGraph
  PROVE  KeepReg
<1>1. Len(nnContext') = Len(nnContext)
  BY DEF TypeOK
<1>2. ASSUME NEW k \in 1..Len(nnContext) PROVE nnContext'[k].graph = nnContext[k].graph
  BY DEF TypeOK, Ctx
<1>. QED  BY <1>1, <1>2 DEF KeepReg

LEMMA UpdateKeeps ==
  ASSUME TypeOK, NEW c \in Nat, c < Len(nnContext), NEW r,
         r.graph = Ctx(c).graph, UpdateCtx(c, r)
  PROVE  KeepReg /\ ret' = Success
BY ReplaceKeeps DEF UpdateCtx

LEMMA AddGraphAppends ==
  ASSUME NEW g, AddGraph(g), g.backend = call'.enc, call'.enc \in Backends
  PROVE  GraphAppended
BY DEF AddGraph, GraphAppended, NoWrite

LEMMA AddContextAppends ==
  ASSUME NEW r, AddContext(r), r.graph = call'.handle, call'.handle < Len(nnGraph)
  PROVE  ContextAppended
BY DEF AddContext, ContextAppended, NoWrite

(* A context of ContextType keeps its graph under an update of its other *)
(* fields.                                                               *)
LEMMA CtxOf ==
  ASSUME TypeOK, NEW c \in Nat, c < Len(nnContext)
  PROVE  Ctx(c) \in ContextType
BY DEF TypeOK, Ctx

-----------------------------------------------------------------------------
(* set_input, get_output and compute of every backend change at most the *)
(* inputs, outputs and compute count of the context they were given.    *)

LEMMA OVSetInputKeeps ==
  ASSUME TypeOK, NEW c \in Nat, c < Len(nnContext), NEW i, NEW t, OVSetInput(c, i, t)
  PROVE  KeepReg
<1>1. Ctx(c) \in ContextType
  BY CtxOf
<1>2. CASE UpdateCtx(c, [Ctx(c) EXCEPT !.inputs[i + 1] = t.val])
  <2>1. [Ctx(c) EXCEPT !.inputs[i + 1] = t.val].graph = Ctx(c).graph
    BY <1>1 DEF ContextType
  <2>. QED  BY <1>2, <2>1, UpdateKeeps
<1>3. CASE UNCHANGED <<nnGraph, nnContext>>
  BY <1>3 DEF KeepReg
<1>. QED  BY <1>2, <1>3, FailKeeps, AbortKeeps DEF OVSetInput, OVSetInputBlob

LEMMA TorchSetInputKeeps ==
  ASSUME TypeOK, NEW c \in Nat, c < Len(nnContext), NEW i, NEW t, TorchSetInput(c, i, t)
  PROVE  KeepReg
<1>. DEFINE ins == TorchResized(c, i)
<1>1. Ctx(c) \in ContextType
  BY CtxOf
<1>2. CASE nnContext' = [nnContext EXCEPT ![c + 1].inputs = ins] /\ nnGraph' = nnGraph
  <2>1. nnContext' = [nnContext EXCEPT ![c + 1] = [Ctx(c) EXCEPT !.inputs = ins]]
    BY <1>2 DEF Ctx
  <2>2. [Ctx(c) EXCEPT !.inputs = ins].graph = Ctx(c).graph
    BY <1>1 DEF ContextType
  <2>. QED  BY <2>1, <2>2, <1>2, ReplaceKeeps
<1>3. CASE UpdateCtx(c, [Ctx(c) EXCEPT !.inputs = [ins EXCEPT ![i + 1] = t.val]])
  <2>1. [Ctx(c) EXCEPT !.inputs = [ins EXCEPT ![i + 1] = t.val]].graph = Ctx(c).graph
    BY <1>1 DEF ContextType
  <2>. QED  BY <1>3, <2>1, UpdateKeeps
<1>. QED  BY <1>2, <1>3, AbortKeeps DEF TorchSetInput

LEMMA TFSetInputKeeps ==
  ASSUME TypeOK, NEW c \in Nat, c < Len(nnContext), NEW i, NEW t, TFSetInput(c, i, t)
  PROVE  KeepReg
<1>1. Ctx(c) \in ContextType
  BY CtxOf
<1>2. CASE UpdateCtx(c, [Ctx(c) EXCEPT !.inputs[i + 1] = t.val])
  <2>1. [Ctx(c) EXCEPT !.inputs[i + 1] = t.val].graph = Ctx(c).graph
    BY <1>1 DEF ContextType
  <2>. QED  BY <1>2, <2>1, UpdateKeeps
<1>. QED  BY <1>2, FailKeeps, AbortKeeps DEF TFSetInput

LEMMA TFLiteSetInputKeeps ==
  ASSUME TypeOK, NEW c \in Nat, c < Len(nnContext), NEW i, NEW t, TFLiteSetInput(c, i, t)
  PROVE  KeepReg
<1>1. Ctx(c) \in ContextType
  BY CtxOf
<1>2. CASE UpdateCtx(c, [Ctx(c) EXCEPT !.inputs[i + 1] = t.val])
  <2>1. [Ctx(c) EXCEPT !.inputs[i + 1] = t.val].graph = Ctx(c).graph
    BY <1>1 DEF ContextType
  <2>. QED  BY <1>2, <2>1, UpdateKeeps
<1>. QED  BY <1>2, FailKeeps, AbortKeeps DEF TFLiteSetInput

LEMMA GetOutputKeeps ==
  ASSUME NEW b, NEW c, NEW i, NEW max, NEW outOk, NEW bwOk,
         \/ b = OpenVINO /\ OVGetOutput(c, i, max, outOk, bwOk)
         \/ b = PyTorch /\ TorchGetOutput(c, i, max, outOk, bwOk)
         \/ b = TF /\ TFGetOutput(c, i, max, outOk, bwOk)
         \/ b = TFLite /\ TFLiteGetOutput(c, i, max, outOk, bwOk)
  PROVE  KeepReg
<1>1. ASSUME NEW bs, OVCopyOutput(c, i, max, outOk, bwOk, bs) PROVE KeepReg
  BY <1>1, FailKeeps, AbortKeeps, WriteKeeps DEF OVCopyOutput
<1>. QED  BY <1>1, FailKeeps, AbortKeeps, WriteKeeps
          DEF OVGetOutput, TorchGetOutput, TFGetOutput, TFLiteGetOutput

(* A compute replaces the outputs and the count of context c. *)
LEMMA ComputeKeeps ==
  ASSUME TypeOK, NEW c \in Nat, c < Len(nnContext), NEW outs,
         UpdateCtx(c, [Ctx(c) EXCEPT !.outputs = outs, !.computes = Ctx(c).computes + 1])
  PROVE  KeepReg
<1>1. Ctx(c) \in ContextType
  BY CtxOf
<1>2. [Ctx(c) EXCEPT !.outputs = outs, !.computes = Ctx(c).computes + 1].graph
        = Ctx(c).graph
  BY <1>1 DEF ContextType
<1>. QED  BY <1>2, UpdateKeeps

LEMMA TorchComputeKeeps ==
  ASSUME TypeOK, NEW c \in Nat, c < Len(nnContext), TorchCompute(c)
  PROVE  KeepReg
<1>. DEFINE x == Ctx(c)
            produced == IF ModelOf(c).outKind = "list" THEN ModelOf(c).nOut ELSE 1
<1>1. CASE UpdateCtx(c, [x EXCEPT !.outputs = @ \o Repeat(x.computes + 1, produced),
                                  !.computes = x.computes + 1])
  BY <1>1, ComputeKeeps
<1>. QED  BY <1>1, FailKeeps, AbortKeeps DEF TorchCompute

LEMMA OtherComputeKeeps ==
  ASSUME TypeOK, NEW c \in Nat, c < Len(nnContext),
         \/ OVCompute(c) \/ TFLiteCompute(c) \/ TFCompute(c)
  PROVE  KeepReg
<1>1. CASE UpdateCtx(c, [Ctx(c) EXCEPT !.outputs = Repeat(Ctx(c).computes + 1,
                                                         ModelOf(c).nOut),
                                       !.computes = Ctx(c).computes + 1])
  BY <1>1, ComputeKeeps
<1>. QED  BY <1>1, FailKeeps DEF OVCompute, TFLiteCompute, TFCompute

-----------------------------------------------------------------------------
(* The five host calls. *)

(* A call that returns an error and changes nothing has the first shape. *)
LEMMA FailShape ==
  ASSUME NEW e, e # Success, Fail(e)
  PROVE  StepShape
BY FailKeeps DEF StepShape

(* An emplace_back whose index is written back has the second or third *)
(* shape.                                                                *)
LEMMA LoadAppends ==
  ASSUME NEW g, AddGraph(g), call'.op = "load", g.backend = call'.enc,
         call'.enc \in Backends
  PROVE  StepShape
BY AddGraphAppends DEF StepShape

LEMMA InitAppends ==
  ASSUME NEW r, AddContext(r), call'.op = "init_execution_context",
         r.graph = call'.handle, call'.handle < Len(nnGraph)
  PROVE  StepShape
BY AddContextAppends DEF StepShape

(* load: its failures change nothing; its success appends a graph of the *)
(* encoding the guest passed and writes back that graph's index.         *)
LEMMA LoadShape ==
  ASSUME TypeOK, Load
  PROVE  StepShape
<1>. PICK enc \in Encodings, t \in Targets, n \in BuilderLens, m \in Models,
          gidOk \in BOOLEAN, bufOk \in BOOLEAN, mem \in CallerMemory :
       /\ fault = "none"
       /\ Len(nnGraph) < MaxGraphs
       /\ call' = [NoCall EXCEPT !.op = "load", !.enc = enc]
       /\ \/ Trap(mem)
          \/ mem /\ (~gidOk \/ t # 0 \/ enc \notin Built)
             /\ Fail(InvalidArgument)
          \/ mem /\ gidOk /\ t = 0 /\ enc \in Built
             /\ \/ enc = OpenVINO /\ OVLoad(n, m, bufOk)
                \/ enc = PyTorch /\ TorchLoad(n, m, bufOk)
                \/ enc = TFLite /\ TFLiteLoad(n, m, bufOk)
                \/ enc = TF /\ \E sigOk \in BOOLEAN : TFLoad(n, m, bufOk, sigOk)
  BY DEF Load
<1>1. call'.op = "load" /\ call'.enc = enc
  BY DEF NoCall
<1>2. CASE Trap(mem) \/ Fail(InvalidArgument)
  BY <1>2, FailShape DEF Trap, Success, HostFuncError, InvalidArgument
<1>3. CASE mem /\ gidOk /\ t = 0 /\ enc \in Built
  <2>1. CASE enc = OpenVINO /\ OVLoad(n, m, bufOk)
    <3>. DEFINE gr == [backend |-> OpenVINO, model |-> m, ready |-> TRUE, sigOk |-> TRUE]
    <3>1. CASE AddGraph(gr)
      BY <3>1, <2>1, <1>1, LoadAppends DEF gr, Backends
    <3>2. CASE \E e \in {Busy, MissingMemory} : Fail(e)
      BY <3>2, FailShape DEF Success, Busy, MissingMemory
    <3>3. CASE OVLoadError(n, bufOk) # Success /\ Fail(OVLoadError(n, bufOk))
      BY <3>3, FailShape
    <3>. QED  BY <2>1, <3>1, <3>2, <3>3 DEF OVLoad, OVLoadNativeFailure, gr
  <2>2. CASE enc = PyTorch /\ TorchLoad(n, m, bufOk)
    <3>. DEFINE gr == [backend |-> PyTorch, model |-> m, ready |-> TRUE, sigOk |-> TRUE]
    <3>1. CASE AddGraph(gr)
      BY <3>1, <2>2, <1>1, LoadAppends DEF gr, Backends
    <3>. QED  BY <2>2, <3>1, <1>2 DEF TorchLoad, gr
  <2>3. CASE enc = TFLite /\ TFLiteLoad(n, m, bufOk)
    <3>. DEFINE gr == [backend |-> TFLite, model |-> m, ready |-> TRUE, sigOk |-> TRUE]
    <3>1. CASE AddGraph(gr)
      BY <3>1, <2>3, <1>1, LoadAppends DEF gr, Backends
    <3>. QED  BY <2>3, <3>1, <1>2 DEF TFLiteLoad, gr
  <2>4. CASE enc = TF /\ \E sigOk \in BOOLEAN : TFLoad(n, m, bufOk, sigOk)
    <3>1. PICK sigOk \in BOOLEAN : TFLoad(n, m, bufOk, sigOk)
      BY <2>4
    <3>. DEFINE gr == [backend |-> TF, model |-> m, ready |-> TRUE, sigOk |-> sigOk]
    <3>2. CASE AddGraph(gr)
      BY <3>2, <2>4, <1>1, LoadAppends DEF gr, Backends
    <3>3. CASE Fail(Busy)
      BY <3>3, FailShape DEF Success, Busy
    <3>. QED  BY <3>1, <3>2, <3>3, <1>2 DEF TFLoad, gr
  <2>. QED  BY <2>1, <2>2, <2>3, <2>4, <1>3 DEF Trap
<1>. QED  BY <1>2, <1>3

(* init_execution_context: its failures change nothing; otherwise it     *)
(* appends a context bound to the graph the guest named, which exists,   *)
(* and on success writes back its index.  Tensorflow's SigMap.at throws *)
(* after the context was appended: the call aborts with it in place.     *)
LEMMA InitExecCtxShape ==
  ASSUME TypeOK, InitExecCtx
  PROVE  StepShape
<1>. PICK g \in Indices, ctxOk \in BOOLEAN, mem \in CallerMemory :
       /\ fault = "none"
       /\ Len(nnContext) < MaxContexts
       /\ call' = [NoCall EXCEPT !.op = "init_execution_context", !.handle = g]
       /\ \/ Trap(mem)
          \/ mem /\ (Len(nnGraph) <= g \/ ~ctxOk) /\ Fail(InvalidArgument)
          \/ mem /\ g < Len(nnGraph) /\ ctxOk
             /\ \/ nnGraph[g + 1].backend \notin Built /\ Fail(InvalidArgument)
                \/ nnGraph[g + 1].backend \in Built
                   /\ \/ nnGraph[g + 1].backend = OpenVINO /\ OVInit(g)
                      \/ nnGraph[g + 1].backend = PyTorch /\ TorchInit(g)
                      \/ nnGraph[g + 1].backend = TFLite /\ TFLiteInit(g)
                      \/ nnGraph[g + 1].backend = TF /\ TFInit(g)
  BY DEF InitExecCtx
<1>0. g \in Nat /\ mem \in BOOLEAN
  BY ConstantsAssumption
<1>1. call'.op = "init_execution_context" /\ call'.handle = g
  BY DEF NoCall
<1>2. CASE Trap(mem) \/ Fail(InvalidArgument) \/ Fail(MissingMemory) \/ Fail(Busy)
  BY <1>2, FailShape
  DEF Trap, Success, HostFuncError, InvalidArgument, MissingMemory, Busy
<1>4. CASE /\ g < Len(nnGraph)
           /\ nnContext' = Append(nnContext, NewContext(g, <<>>, <<>>))
           /\ ret' = "Abort" /\ nnGraph' = nnGraph
  <2>1. ContextAppended
    BY <1>1, <1>4 DEF ContextAppended, NewContext, Success
  <2>. QED  BY <1>1, <2>1 DEF StepShape
<1>5. CASE mem /\ g < Len(nnGraph) /\ ctxOk /\ nnGraph[g + 1].backend \in Built
  <2>. DEFINE m == nnGraph[g + 1].model
  <2>1. \A x, y : NewContext(g, x, y).graph = g
    BY DEF NewContext
  <2>2. ASSUME NEW x, NEW y, AddContext(NewContext(g, x, y)) PROVE StepShape
    BY <2>1, <2>2, <1>1, <1>5, InitAppends
  <2>3. CASE OVInit(g)
    BY <2>2, <2>3, <1>2 DEF OVInit
  <2>4. CASE TorchInit(g)
    BY <2>2, <2>4 DEF TorchInit
  <2>5. CASE TFLiteInit(g)
    BY <2>2, <2>5, <1>2 DEF TFLiteInit
  <2>6. CASE TFInit(g)
    BY <2>2, <2>6, <1>2, <1>4, <1>5 DEF TFInit
  <2>7. OVInit(g) \/ TorchInit(g) \/ TFLiteInit(g) \/ TFInit(g)
    BY <1>0, <1>5 DEF Trap
  <2>. QED  BY <2>3, <2>4, <2>5, <2>6, <2>7
<1>. QED  BY <1>2, <1>5

(* set_input, get_output and compute: a context call.  Whether rejected  *)
(* by the prologue or run by the backend, it keeps the registry.          *)
LEMMA ContextCallShape ==
  ASSUME TypeOK, NEW c \in Nat, NEW mem \in BOOLEAN, NEW B,
         call'.op \in {"set_input", "get_output", "compute"},
         \/ ContextRejected(c, mem)
         \/ ContextAccepted(c, mem) /\ B,
         c < Len(nnContext) /\ B => KeepReg
  PROVE  StepShape
<1>1. CASE ContextRejected(c, mem)
  BY <1>1, FailKeeps DEF ContextRejected, Trap, StepShape
<1>2. CASE ContextAccepted(c, mem) /\ B
  BY <1>2 DEF ContextAccepted, StepShape
<1>. QED  BY <1>1, <1>2

LEMMA SetInputShape ==
  ASSUME TypeOK, SetInput
  PROVE  StepShape
<1>. PICK c \in Indices, i \in Indices, t \in Tensors, mem \in CallerMemory :
       LET Branch(b) ==
             \/ b = OpenVINO /\ OVSetInput(c, i, t)
             \/ b = PyTorch /\ TorchSetInput(c, i, t)
             \/ b = TF /\ TFSetInput(c, i, t)
             \/ b = TFLite /\ TFLiteSetInput(c, i, t)
       IN /\ call' = [NoCall EXCEPT !.op = "set_input", !.handle = c, !.idx = i,
                                    !.tensor = t]
          /\ \/ ContextRejected(c, mem)
             \/ ContextAccepted(c, mem) /\ Branch(GraphOf(c).backend)
  BY DEF SetInput
<1>1. c \in Nat /\ mem \in BOOLEAN /\ call'.op = "set_input"
  BY ConstantsAssumption DEF NoCall
<1>. DEFINE Br ==
       \/ GraphOf(c).backend = OpenVINO /\ OVSetInput(c, i, t)
       \/ GraphOf(c).backend = PyTorch /\ TorchSetInput(c, i, t)
       \/ GraphOf(c).backend = TF /\ TFSetInput(c, i, t)
       \/ GraphOf(c).backend = TFLite /\ TFLiteSetInput(c, i, t)
<1>2. c < Len(nnContext) /\ Br => KeepReg
  BY <1>1, OVSetInputKeeps, TorchSetInputKeeps, TFSetInputKeeps, TFLiteSetInputKeeps
<1>. QED  BY <1>1, <1>2, ContextCallShape

LEMMA GetOutputShape ==
  ASSUME TypeOK, GetOutput
  PROVE  StepShape
<1>. PICK c \in Indices, i \in Indices, max \in MaxSizes,
          outOk \in BOOLEAN, bwOk \in BOOLEAN, mem \in CallerMemory :
       LET Branch(b) ==
             \/ b = OpenVINO /\ OVGetOutput(c, i, max, outOk, bwOk)
             \/ b = PyTorch /\ TorchGetOutput(c, i, max, outOk, bwOk)
             \/ b = TF /\ TFGetOutput(c, i, max, outOk, bwOk)
             \/ b = TFLite /\ TFLiteGetOutput(c, i, max, outOk, bwOk)
       IN /\ fault = "none"
          /\ call' = [NoCall EXCEPT !.op = "get_output", !.handle = c, !.idx = i,
                                    !.max = max]
          /\ \/ ContextRejected(c, mem)
             \/ ContextAccepted(c, mem) /\ Branch(GraphOf(c).backend)
  BY DEF GetOutput
<1>1. c \in Nat /\ mem \in BOOLEAN /\ call'.op = "get_output"
  BY ConstantsAssumption DEF NoCall
<1>. DEFINE Br ==
       \/ GraphOf(c).backend = OpenVINO /\ OVGetOutput(c, i, max, outOk, bwOk)
       \/ GraphOf(c).backend = PyTorch /\ TorchGetOutput(c, i, max, outOk, bwOk)
       \/ GraphOf(c).backend = TF /\ TFGetOutput(c, i, max, outOk, bwOk)
       \/ GraphOf(c).backend = TFLite /\ TFLiteGetOutput(c, i, max, outOk, bwOk)
<1>2. c < Len(nnContext) /\ Br => KeepReg
  BY GetOutputKeeps
<1>. QED  BY <1>1, <1>2, ContextCallShape

LEMMA ComputeShape ==
  ASSUME TypeOK, Compute
  PROVE  StepShape
<1>. PICK c \in Indices, mem \in CallerMemory :
       LET Branch(b) ==
             \/ b = OpenVINO /\ OVCompute(c)
             \/ b = PyTorch /\ TorchCompute(c)
             \/ b = TFLite /\ TFLiteCompute(c)
             \/ b = TF /\ TFCompute(c)
       IN /\ call' = [NoCall EXCEPT !.op = "compute", !.handle = c]
          /\ \/ ContextRejected(c, mem)
             \/ ContextAccepted(c, mem) /\ Branch(GraphOf(c).backend)
  BY DEF Compute
<1>1. c \in Nat /\ mem \in BOOLEAN /\ call'.op = "compute"
  BY ConstantsAssumption DEF NoCall
<1>. DEFINE Br ==
       \/ GraphOf(c).backend = OpenVINO /\ OVCompute(c)
       \/ GraphOf(c).backend = PyTorch /\ TorchCompute(c)
       \/ GraphOf(c).backend = TFLite /\ TFLiteCompute(c)
       \/ GraphOf(c).backend = TF /\ TFCompute(c)
<1>2. c < Len(nnContext) /\ Br => KeepReg
  BY <1>1, TorchComputeKeeps, OtherComputeKeeps
<1>. QED  BY <1>1, <1>2, ContextCallShape

(* Every host call has one of the three shapes. *)
LEMMA NextShape ==
  ASSUME TypeOK, Next
  PROVE  StepShape
BY LoadShape, InitExecCtxShape, SetInputShape, GetOutputShape, ComputeShape
DEF Next

-----------------------------------------------------------------------------
(* What a step of one of the three shapes implies. *)

(* After a step of any shape, a successful load or init_execution_context *)
(* has written back the index of the entry it appended.                   *)
LEMMA ShapeFresh ==
  ASSUME TypeOK, StepShape
  PROVE  ReturnedHandleFresh'
<1>1. CASE KeepReg /\ (ret' = Success => call'.op \notin {"load", "init_execution_context"})
  BY <1>1 DEF ReturnedHandleFresh
<1>2. CASE call'.op = "load" /\ GraphAppended
  <2>1. PICK g : nnGraph' = Append(nnGraph, g) /\ g.backend = call'.enc
    BY <1>2 DEF GraphAppended
  <2>2. Len(nnGraph') = Len(nnGraph) + 1 /\ nnGraph'[Len(nnGraph')] = g
    BY <2>1 DEF TypeOK
  <2>. QED  BY <1>2, <2>1, <2>2 DEF GraphAppended, ReturnedHandleFresh
<1>3. CASE call'.op = "init_execution_context" /\ ContextAppended
  <2>1. PICK r : nnContext' = Append(nnContext, r) /\ r.graph = call'.handle
    BY <1>3 DEF ContextAppended
  <2>2. Len(nnContext') = Len(nnContext) + 1 /\ nnContext'[Len(nnContext')] = r
    BY <2>1 DEF TypeOK
  <2>. QED  BY <1>3, <2>1, <2>2 DEF ContextAppended, ReturnedHandleFresh
<1>. QED  BY <1>1, <1>2, <1>3 DEF StepShape

(* The registry as WasiNNRegistry sees it. *)
graphsBar == [k \in 1..Len(nnGraph) |-> nnGraph[k].backend]
contextsBar == [k \in 1..Len(nnContext) |-> nnContext[k].graph]

(* A step of any shape is a step of the abstract registry, or leaves it  *)
(* as it was.                                                            *)
LEMMA ShapeRefines ==
  ASSUME TypeOK, TypeOK', StepShape
  PROVE  \/ \E b \in Backends :
              /\ graphsBar' = Append(graphsBar, b)
              /\ contextsBar' = contextsBar
         \/ \E g \in 0..(Len(graphsBar) - 1) :
              /\ g < Len(graphsBar)
              /\ contextsBar' = Append(contextsBar, g)
              /\ graphsBar' = graphsBar
         \/ graphsBar' = graphsBar /\ contextsBar' = contextsBar
<1>1. CASE KeepReg
  <2>1. graphsBar' = graphsBar
    BY <1>1 DEF KeepReg, graphsBar
  <2>2. contextsBar' = contextsBar
    BY <1>1 DEF KeepReg, contextsBar
  <2>. QED  BY <2>1, <2>2
<1>2. CASE GraphAppended
  <2>1. PICK g : nnGraph' = Append(nnGraph, g) /\ g.backend = call'.enc
    BY <1>2 DEF GraphAppended
  <2>2. graphsBar' = Append(graphsBar, call'.enc)
    BY <2>1 DEF TypeOK, graphsBar
  <2>3. contextsBar' = contextsBar
    BY <1>2 DEF GraphAppended, contextsBar
  <2>. QED  BY <1>2, <2>2, <2>3 DEF GraphAppended
<1>3. CASE ContextAppended
  <2>1. PICK r : nnContext' = Append(nnContext, r) /\ r.graph = call'.handle
    BY <1>3 DEF ContextAppended
  <2>2. contextsBar' = Append(contextsBar, call'.handle)
    BY <2>1 DEF TypeOK, contextsBar
  <2>3. graphsBar' = graphsBar
    BY <1>3 DEF ContextAppended, graphsBar
  <2>4. call'.handle \in 0..(Len(graphsBar) - 1) /\ call'.handle < Len(graphsBar)
    BY <1>3 DEF ContextAppended, TypeOK, CallType, graphsBar
  <2>. QED  BY <2>2, <2>3, <2>4
<1>. QED  BY <1>1, <1>2, <1>3 DEF StepShape

-----------------------------------------------------------------------------
(* The theorems. *)

LEMMA InitFresh == Init => ReturnedHandleFresh
BY DEF Init, ReturnedHandleFresh, Success

LEMMA NextFresh ==
  IInv /\ ReturnedHandleFresh /\ [Next]_vars => ReturnedHandleFresh'
<1>. SUFFICES ASSUME IInv, ReturnedHandleFresh, [Next]_vars
              PROVE  ReturnedHandleFresh'
  OBVIOUS
<1>1. CASE Next
  BY <1>1, NextShape, ShapeFresh DEF IInv
<1>2. CASE UNCHANGED vars
  BY <1>2 DEF vars, ReturnedHandleFresh
<1>. QED  BY <1>1, <1>2

(* Whatever sequence of host calls the guests make, for any backends      *)
(* compiled in, models and bounds: when load or init_execution_context    *)
(* returns Success, the handle it wrote to the guest (Env.NNGraph.size()  *)
(* - 1, Env.NNContext.size() - 1) is the index of the entry it appended,  *)
(* a graph of the encoding asked for or a context on the graph asked for *)
(* -- on every path that returns Success, every pop_back of a failed    *)
(* backend step having run before.                                       *)
THEOREM HandleFreshInvariant == Spec => []ReturnedHandleFresh
<1>1. Init => IInv /\ ReturnedHandleFresh
  BY InitIInv, InitFresh
<1>2. IInv /\ ReturnedHandleFresh /\ [Next]_vars => (IInv /\ ReturnedHandleFresh)'
  BY NextIInv, NextFresh
<1>. QED  BY <1>1, <1>2, PTL DEF Spec

(* A step of the host, from a state of IInv, is a step of the abstract   *)
(* registry or leaves it unchanged.                                      *)
LEMMA StepRefines ==
  IInv /\ IInv' /\ [Next]_vars => [Registry!RegNext]_(Registry!regVars)
<1>. SUFFICES ASSUME IInv, IInv', [Next]_vars
              PROVE  [Registry!RegNext]_(Registry!regVars)
  OBVIOUS
<1>1. CASE Next
  <2>1. StepShape
    BY <1>1, NextShape DEF IInv
  <2>2. \/ \E b \in Backends :
             /\ graphsBar' = Append(graphsBar, b)
             /\ contextsBar' = contextsBar
        \/ \E g \in 0..(Len(graphsBar) - 1) :
             /\ g < Len(graphsBar)
             /\ contextsBar' = Append(contextsBar, g)
             /\ graphsBar' = graphsBar
        \/ graphsBar' = graphsBar /\ contextsBar' = contextsBar
    BY <2>1, ShapeRefines DEF IInv
  <2>. QED  BY <2>2 DEF Registry!RegNext, Registry!AddGraph, Registry!AddContext,
                        Registry!regVars, graphsBar, contextsBar
<1>2. CASE UNCHANGED vars
  BY <1>2 DEF vars, Registry!regVars
<1>. QED  BY <1>1, <1>2

(* Refinement: for every value of the constants, the host's behaviour,   *)
(* seen through the registry mapping (each graph's backend, each        *)
(* context's graph handle), is a behaviour of the append-only registry   *)
(* of WasiNNRegistry: no host call rebinds, removes or reorders an entry, *)
(* and a context is only ever added on a graph that exists.               *)
THEOREM RegistryRefinement == Spec => RefinesRegistry
<1>1. Init => Registry!RegInit
  BY DEF Init, Registry!RegInit
<1>2. []IInv /\ [][Next]_vars => [][Registry!RegNext]_(Registry!regVars)
  BY StepRefines, PTL
<1>. QED  BY <1>1, <1>2, IInvInvariant, PTL DEF Spec, RefinesRegistry, Registry!RegSpec
=============================================================================
